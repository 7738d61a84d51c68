---------------------------- MODULE MCPluginRack ----------------------------
(* Two plugins the user can add, stereo and three-channel tracks. *)
EXTENDS PluginRack

CONSTANTS a, b

MCUsers == {a, b}
MCBenches == {[kinds |-> {"upmix", "matrix"}, switched |-> {a, b}, edits |-> 0],
              [kinds |-> {"upmix"}, switched |-> {"Matrix"}, edits |-> 1]}
MCEditable == {<<"InputMonitor", 0, "Matrix", 1>>}
MCErasable == {"Matrix"}
Symmetry == Permutations(MCUsers)
=============================================================================
