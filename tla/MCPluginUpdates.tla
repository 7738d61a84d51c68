--------------------------- MODULE MCPluginUpdates ---------------------------
(* The structure of the chain and two parameters, each with two values. *)
EXTENDS PluginUpdates

MCSlots == {"shape", "threshold", "ratio"}
=============================================================================
