------------------------------ MODULE RackList ------------------------------
(***************************************************************************)
(* What the rack of crates/sotf-player/src/plugin_graph.rs promises its    *)
(* user: a list of plugins.  A plugin is added in front of the matrix;     *)
(* the user's own plugins can be taken out and put elsewhere among         *)
(* themselves; nothing else moves.  Only applying an edited routing        *)
(* replaces the list.                                                      *)
(***************************************************************************)
EXTENDS Naturals, Sequences, SequencesExt

CONSTANTS Users, Permanent

VARIABLES
  rack,    \* the plugins in the order the sound goes through them
  open     \* is a routing being edited?

Init ==
  /\ rack = <<"InputMonitor", "ReplayGain", "Matrix", "OutputMonitor">>
  /\ open = FALSE

(* The place a new plugin takes: the matrix's, or the last. *)
Place(r) ==
  IF Contains(r, "Matrix") THEN SelectInSeq(r, LAMBDA id : id = "Matrix") ELSE Len(r) + 1

Add ==
  LET old == rack
      new == rack'
  IN /\ \E u \in Users \ ToSet(old) : new = InsertAt(old, Place(old), u)
     /\ UNCHANGED open

Precedes(r, x, y) == \E j, k \in DOMAIN r : j < k /\ r[j] = x /\ r[k] = y

(* Only the user's own are taken out, and the others keep their order. *)
Take ==
  LET old == rack
      new == rack'
  IN /\ new \in Seq(ToSet(old)) /\ ToSet(old) \ ToSet(new) \subseteq Users
     /\ \A j, k \in DOMAIN new : j < k => Precedes(old, new[j], new[k])
     /\ UNCHANGED open

(* What is moved over, the plugin itself included, belongs to the user. *)
Move ==
  LET old == rack
      new == rack'
  IN /\ \E from, to \in DOMAIN old :
          /\ \A k \in DOMAIN old : k \in from..to \/ k \in to..from => old[k] \in Users
          /\ new = InsertAt(RemoveAt(old, from), to, old[from])
     /\ UNCHANGED open

Open == ~open /\ open' = TRUE /\ UNCHANGED rack
Discard == open /\ open' = FALSE /\ UNCHANGED rack
Apply ==
  /\ open /\ open' = FALSE
  /\ LET new == rack' IN new \in Seq(Users \cup Permanent) /\ IsInjective(new)

Next == Add \/ Take \/ Move \/ Open \/ Discard \/ Apply
Spec == Init /\ [][Next]_<<rack, open>>
=============================================================================
