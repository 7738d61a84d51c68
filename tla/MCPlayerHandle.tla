--------------------------- MODULE MCPlayerHandle ---------------------------
(* Two cloned handles race to submit. *)
EXTENDS PlayerHandle

CONSTANTS s1, s2, ended, gapless

MCSubmitters == {s1, s2}
MCFlagKinds == {ended}
MCSlotKinds == {gapless}
=============================================================================
