----------------------------- MODULE PluginGraph -----------------------------
(***************************************************************************)
(* The plugin graph of crates/sotf-player/src/plugin_graph.rs as a value,  *)
(* and the functions that read and rewire it.  A graph is a record         *)
(*   nodes    plugin node -> settings, switches and channel counts         *)
(*   inputs   channels of the Input node                                   *)
(*   outputs  channels of the Output node                                  *)
(*   wires    connections <<from, port, to, port>>                         *)
(* Canvas positions, names, parameters that do not change channel counts   *)
(* and external side-chain keys are left out.  Nodes are named by role for *)
(* the permanent plugins and by a member of Users for the others.          *)
(***************************************************************************)
EXTENDS Naturals, Sequences, FiniteSets, SequencesExt

CONSTANTS
  Users,     \* identities for the plugins a user adds
  Wide       \* channels an upmixer makes out of its two

Permanent == {"InputMonitor", "ReplayGain", "Matrix", "OutputMonitor"}
Plugins == Permanent \cup Users
Special == {"Input", "Output"}
Kinds == {"pass", "upmix", "matrix"}
Nothing == "nothing"    \* no such node

ASSUME PluginGraphAssumption ==
  /\ Wide \in Nat /\ Wide > 2
  /\ IsFiniteSet(Users) /\ Users \cap (Permanent \cup Special \cup {Nothing}) = {}

(* Channels a plugin insists on (0: it adapts), from its settings. *)
Required(node) == IF node.kind = "upmix" THEN 2 ELSE 0

(* Channels a plugin makes of the channels it is given. *)
OutputChannels(node, channels) ==
  CASE node.kind = "upmix" -> Wide
    [] node.kind = "matrix" -> node.size[2]
    [] OTHER -> channels

Fresh(kind) ==
  [kind |-> kind, on |-> TRUE, suspended |-> FALSE, size |-> <<2, 2>>,
   ins |-> 2, outs |-> IF kind = "upmix" THEN Wide ELSE 2]

Active(node) == node.on /\ ~node.suspended

Ids(g) == DOMAIN g.nodes \cup Special
Ins(g, id) ==
  CASE id \in DOMAIN g.nodes -> g.nodes[id].ins [] id = "Output" -> g.outputs [] OTHER -> 0
Outs(g, id) ==
  CASE id \in DOMAIN g.nodes -> g.nodes[id].outs [] id = "Input" -> g.inputs [] OTHER -> 0

-----------------------------------------------------------------------------
(* Connections. *)

Links(g) == {<<w[1], w[3]>> : w \in g.wires}

(* would_create_cycle: can `from` already be reached from `to`? *)
ReachedFrom(g, id) ==
  LET links == Links(g)
      within[k \in 0..Cardinality(Ids(g))] ==
        IF k = 0 THEN {id}
        ELSE LET found == within[k - 1]
             IN found \cup {l[2] : l \in {m \in links : m[1] \in found}}
  IN within[Cardinality(Ids(g))]
MakesCycle(g, from, to) == from \in ReachedFrom(g, to)

(* topological_sort: take away the nodes nothing leads to, again and again. *)
Cyclic(g) ==
  LET links == Links(g)
      left[k \in 0..Cardinality(Ids(g))] ==
        IF k = 0 THEN Ids(g)
        ELSE LET some == left[k - 1] IN {id \in some : \E l \in links : l[2] = id /\ l[1] \in some}
  IN left[Cardinality(Ids(g))] # {}

CanConnect(g, wire) ==
  /\ {wire[1], wire[3]} \subseteq Ids(g)
  /\ wire \notin g.wires
  /\ ~MakesCycle(g, wire[1], wire[3])
Connected(g, wire) == [g EXCEPT !.wires = @ \cup {wire}]

Without(g, ids) ==
  [g EXCEPT !.nodes = [id \in DOMAIN @ \ ids |-> @[id]],
            !.wires = {w \in @ : w[1] \notin ids /\ w[3] \notin ids}]
Unwired(g, id) == [g EXCEPT !.wires = {w \in @ : w[1] # id /\ w[3] # id}]
Placed(g, id, kind) ==
  [g EXCEPT !.nodes = [n \in DOMAIN @ \cup {id} |-> IF n = id THEN Fresh(kind) ELSE @[n]]]

(* The wires that join two nodes port by port; a refused one is dropped. *)
Larger(a, b) == IF a > b THEN a ELSE b
Smaller(a, b) == IF a < b THEN a ELSE b
Straight(from, to, count) == {<<from, port, to, port>> : port \in 0..count - 1}
Joined(g, from, to) ==
  IF MakesCycle(g, from, to) THEN g
  ELSE [g EXCEPT !.wires =
         @ \cup Straight(from, to, Larger(Smaller(Outs(g, from), Ins(g, to)), 1))]
Parted(g, pairs) == [g EXCEPT !.wires = {w \in @ : <<w[1], w[3]>> \notin pairs}]

-----------------------------------------------------------------------------
(* The rack: a graph that is one chain from Input to Output. *)

Successor(g, id) ==
  IF \E w \in g.wires : w[1] = id THEN (CHOOSE w \in g.wires : w[1] = id)[3] ELSE Nothing

(* try_linear_order: the nodes met on the way from Input, as many as there are. *)
LinearOrder(g) ==
  LET walk[k \in 1..Cardinality(Ids(g))] ==
        IF k = 1 THEN <<"Input">>
        ELSE LET done == walk[k - 1] IN Append(done, Successor(g, Last(done)))
  IN walk[Cardinality(Ids(g))]

Linear(g) ==
  /\ LET links == Links(g)
     IN \A side \in {1, 2} : Cardinality({l[side] : l \in links}) = Cardinality(links)
  /\ LET order == LinearOrder(g)
     IN Last(order) = "Output" /\ \A k \in 1..Len(order) - 1 : order[k] # "Output"

(* plugins_linear: what lies between Input and Output. *)
Rack(g) == IF Linear(g) THEN SubSeq(LinearOrder(g), 2, Cardinality(Ids(g)) - 1) ELSE <<>>
Before(g, id) == CHOOSE n \in Ids(g) : Successor(g, n) = id

(* In what follows flow[k] are the channels that arrive at place k of the rack. *)

(* find_channel_conflicts: the active plugins that would be given a count they refuse. *)
Refuses(node, channels) == Active(node) /\ Required(node) \notin {0, channels}
Passed(node, channels) == IF Active(node) THEN OutputChannels(node, channels) ELSE channels
Conflicts(g, channels) ==
  LET rack == Rack(g)
      leaving(id, n) == IF Refuses(g.nodes[id], n) THEN n ELSE Passed(g.nodes[id], n)
      flow[k \in 1..Len(rack) + 1] ==
        IF k = 1 THEN channels ELSE leaving(rack[k - 1], flow[k - 1])
  IN {rack[k] : k \in {j \in DOMAIN rack : Refuses(g.nodes[rack[j]], flow[j])}}

-----------------------------------------------------------------------------
(* update_channel_dependent_plugins, ending with rewire_linear_chain_per_channel. *)

Resized(node, channels) ==
  IF node.kind = "matrix" /\ node.size[1] # channels
  THEN [node EXCEPT !.size = <<channels, channels>>] ELSE node

Recounted(g) ==
  LET rack == Rack(g)
      leaving(id, n) == Passed(Resized(g.nodes[id], n), n)
      flow[k \in 1..Len(rack) + 1] ==
        IF k = 1 THEN Larger(g.inputs, 1) ELSE leaving(rack[k - 1], flow[k - 1])
      counted(k) == [Resized(g.nodes[rack[k]], flow[k]) EXCEPT !.ins = flow[k], !.outs = flow[k + 1]]
  IN [g EXCEPT !.nodes = [id \in DOMAIN @ |-> counted(CHOOSE k \in DOMAIN rack : rack[k] = id)],
               !.outputs = Larger(flow[Len(rack) + 1], 1)]

(* Faulty: wires of channels that are gone stay. *)
RewiredOverOld(g) ==
  LET ports(from, to) == Smaller(Outs(g, from), Ins(g, to))
      order == LinearOrder(g)
  IN [g EXCEPT !.wires =
       @ \cup UNION {Straight(order[k], order[k + 1], ports(order[k], order[k + 1])) :
                     k \in 1..Len(order) - 1}]

Rewired(g) ==
  LET ports(from, to) == Smaller(Outs(g, from), Ins(g, to))
      order == LinearOrder(g)
  IN [g EXCEPT !.wires =
       {w \in @ : w[2] < ports(w[1], w[3]) /\ w[4] < ports(w[1], w[3])}
       \cup UNION {Straight(order[k], order[k + 1], ports(order[k], order[k + 1])) :
                   k \in 1..Len(order) - 1}]

Updated(g) == IF Linear(g) THEN Rewired(Recounted(g)) ELSE g

(* adapt_matrix_to_input: the first active matrix whose size does not fit is resized. *)
AdaptedTo(g, channels) ==
  LET rack == Rack(g)
      flow[k \in 1..Len(rack) + 1] ==
        IF k = 1 THEN channels ELSE Passed(g.nodes[rack[k - 1]], flow[k - 1])
      misfits == {k \in DOMAIN rack : LET node == g.nodes[rack[k]]
                                      IN Active(node) /\ Resized(node, flow[k]) # node}
      first == CHOOSE k \in misfits : \A j \in misfits : k <= j
      fed == [g EXCEPT !.inputs = channels]
  IN IF ~Linear(g) THEN g
     ELSE Updated(IF misfits = {} THEN fed
                  ELSE [fed EXCEPT !.nodes[rack[first]] = Resized(@, flow[first])])

-----------------------------------------------------------------------------
(* validate_routing: what a graph must satisfy before it is applied. *)

Fed(g, id) == {w[4] : w \in {v \in g.wires : v[3] = id}}

ValidRouting(g) ==
  /\ \A w \in g.wires : /\ {w[1], w[3]} \subseteq Ids(g)
                        /\ w[2] < Outs(g, w[1]) /\ w[4] < Ins(g, w[3])
  /\ ~Cyclic(g)
  /\ \A id \in DOMAIN g.nodes : ~Active(g.nodes[id]) => g.nodes[id].ins = g.nodes[id].outs
  /\ \A id \in Ids(g) : 0..Ins(g, id) - 1 \subseteq Fed(g, id)

-----------------------------------------------------------------------------
(* Edits of the rack.  A transaction commits only what Fits. *)

Fits(g) == Linear(g) /\ Conflicts(g, g.inputs) = {}

Inserted(g, id, kind, from, to) ==
  Joined(Joined(Placed(Parted(g, {<<from, to>>}), id, kind), from, id), id, to)

Removed(g, id) ==
  LET from == Before(g, id)
      to == Successor(g, id)
  IN Joined(Without(g, {id}), from, to)

(* Swap a plugin with the next one of the chain. *)
Swapped(g, id) ==
  LET from == Before(g, id)
      next == Successor(g, id)
      to == Successor(g, next)
      apart == Parted(g, {<<from, id>>, <<id, next>>, <<next, to>>})
  IN Joined(Joined(Joined(apart, from, next), next, id), id, to)

Suspended(g, ids) ==
  IF Linear(g)
  THEN [g EXCEPT !.nodes = [id \in DOMAIN g.nodes |-> [g.nodes[id] EXCEPT !.suspended = @ \/ id \in ids]]]
  ELSE g
Resumed(g) ==
  [g EXCEPT !.nodes = [id \in DOMAIN g.nodes |-> [g.nodes[id] EXCEPT !.suspended = FALSE]]]
Toggled(g, id) == [g EXCEPT !.nodes[id].on = ~@]

DefaultRack ==
  LET chain == <<"Input", "InputMonitor", "ReplayGain", "Matrix", "OutputMonitor", "Output">>
      node(id) == IF id = "Matrix" THEN Fresh("matrix") ELSE Fresh("pass")
  IN [nodes |-> [id \in Permanent |-> [node(id) EXCEPT !.on = id # "ReplayGain"]],
      inputs |-> 2, outputs |-> 2,
      wires |-> UNION {Straight(chain[k], chain[k + 1], 2) : k \in 1..Len(chain) - 1}]
=============================================================================
