----------------------------- MODULE PluginRack -----------------------------
(***************************************************************************)
(* The plugin rack of the GPUI application while tracks are played:        *)
(* PluginController (controllers/plugin/plugin_controller.rs) edits the    *)
(* live graph, the graph editor (components/plugins/ui_graph) edits a      *)
(* draft of it, and the player view (ui/player_view.rs, ui/render.rs,      *)
(* components/dialogs/player_view.rs) fits it to each track: a plugin that *)
(* refuses the track's channel count is suspended, removed, or playing is  *)
(* given up.  The UI thread runs every action here to its end.             *)
(***************************************************************************)
EXTENDS PluginGraph

CONSTANTS
  Tracks,     \* channel counts of the tracks in the queue
  Gained,     \* those that carry a replay gain
  Editable,   \* bound: wires the graph editor draws or cuts
  Erasable,   \* bound: nodes the graph editor deletes
  Benches,    \* bounds: kinds of plugin added, plugins turned off and on,
              \* edits made while a draft is open
  NoGraph, Idle

Stage == [kind : Kinds, size : (Nat \ {0}) \X (Nat \ {0})]
Node == [kind : Kinds, on : BOOLEAN, suspended : BOOLEAN, size : (Nat \ {0}) \X (Nat \ {0}),
         ins : Nat, outs : Nat]
Wire == (Plugins \cup Special) \X Nat \X (Plugins \cup Special) \X Nat
GraphsOn(ids) == [nodes : [ids -> Node], inputs : Nat \ {0}, outputs : Nat, wires : SUBSET Wire]
Conflict == [source : Tracks, channels : Tracks, refused : SUBSET Plugins]
Played == [source : Tracks, channels : Tracks, chain : Seq(Stage)]

ASSUME PluginRackAssumption ==
  /\ Tracks \subseteq Nat \ {0} /\ Gained \subseteq Tracks
  /\ Benches \subseteq [kinds : SUBSET Kinds, switched : SUBSET Plugins, edits : Nat]
  /\ Editable \subseteq Wire /\ \A ids \in SUBSET Plugins : NoGraph \notin GraphsOn(ids)

VARIABLES
  bench,     \* the bounds of this behaviour
  live,      \* plugin_state.graph
  rack,      \* the plugins of the live graph as the rack screen lists them
  draft,     \* graph_state.draft: the graph being edited, or NoGraph
  base,      \* graph_state.draft_base: live when the draft was begun
  edits,     \* edits since the draft was begun
  track,     \* channels of the queue's current track
  dialog,    \* the channel conflict dialog: Idle, or the source it holds back,
             \* the channels it asks about and the plugins that refuse them
  engine,    \* what the engine was last given: Idle, or a source, the channels
             \* its chain was fitted to, and the chain
  pending    \* pending_plugin_update is Structural
vars == <<bench, live, rack, draft, base, edits, track, dialog, engine, pending>>

(* What each plugin of a chain does to the channels; one that is off or *)
(* suspended is left out of the engine and counts none.                 *)
LeftOut == [kind |-> "pass", size |-> <<2, 2>>]
Chain(g) ==
  LET stage(node) == IF Active(node) THEN [kind |-> node.kind, size |-> node.size] ELSE LeftOut
  IN [k \in DOMAIN Rack(g) |-> stage(g.nodes[Rack(g)[k]])]

Graph(g) ==
  /\ DOMAIN g.nodes \subseteq Plugins /\ g \in GraphsOn(DOMAIN g.nodes)
  /\ \A w \in g.wires : {w[1], w[3]} \subseteq Ids(g)

TypeOK ==
  /\ bench \in Benches
  /\ Graph(live)
  /\ rack \in Seq(Plugins)
  /\ draft = NoGraph \/ Graph(draft)
  /\ base = NoGraph <=> draft = NoGraph
  /\ edits \in 0..bench.edits
  /\ track \in Tracks
  /\ dialog = Idle \/ dialog \in Conflict
  /\ engine = Idle \/ engine \in Played
  /\ pending \in BOOLEAN

Init ==
  /\ bench \in Benches
  /\ live = DefaultRack /\ rack = Rack(live)
  /\ draft = NoGraph /\ base = NoGraph /\ edits = 0
  /\ track \in Tracks
  /\ dialog = Idle /\ engine = Idle /\ pending = FALSE

Shown == rack' = Rack(live')

(* The edits counter only bounds what happens while a draft is open. *)
CountsEdit ==
  /\ draft # NoGraph => edits < bench.edits
  /\ edits' = IF draft = NoGraph THEN 0 ELSE edits + 1

-----------------------------------------------------------------------------
(* Edits of the live rack: apply_linear_transaction keeps what fits. *)

EditRack(candidate) ==
  /\ dialog = Idle
  /\ LET updated == Updated(candidate) IN Fits(updated) /\ live' = updated
  /\ Shown
  /\ pending' = TRUE
  /\ CountsEdit
  /\ UNCHANGED <<bench, draft, base, track, dialog, engine>>

(* Faulty: behind the last plugin, matrix or not. *)
AddPluginLast == \E id \in Users \ DOMAIN live.nodes, kind \in bench.kinds :
  Linear(live) /\ EditRack(Inserted(live, id, kind, Before(live, "Output"), "Output"))

(* try_add_plugin: in front of the matrix, or behind the last plugin. *)
AddPlugin == \E id \in Users \ DOMAIN live.nodes, kind \in bench.kinds :
  /\ Linear(live)
  /\ LET to == IF "Matrix" \in DOMAIN live.nodes THEN "Matrix" ELSE "Output"
     IN EditRack(Inserted(live, id, kind, Before(live, to), to))

RemovePlugin == \E id \in Users \cap DOMAIN live.nodes :
  Linear(live) /\ EditRack(Removed(live, id))

(* move_plugin: one swap after another over the user's own plugins. *)
Moved(g, from, to) ==
  LET steps == IF from < to THEN to - from ELSE from - to
      after[k \in 0..steps] ==
        IF k = 0 THEN g
        ELSE LET acc == after[k - 1]
             IN Swapped(acc, Rack(acc)[IF from < to THEN from + k - 1 ELSE from - k])
  IN after[steps]
MovePlugin == \E from, to \in DOMAIN rack :
  /\ from # to
  /\ \A k \in DOMAIN rack : k \in from..to \/ k \in to..from => rack[k] \in Users
  /\ EditRack(Moved(live, from, to))

TogglePlugin == \E id \in bench.switched \cap DOMAIN live.nodes :
  Linear(live) /\ EditRack(Toggled(live, id))

Emptied(g) ==
  LET all == Rack(g)
      after[k \in 0..Len(all)] ==
        IF k = 0 THEN g
        ELSE LET acc == after[k - 1] IN IF all[k] \in Users THEN Removed(acc, all[k]) ELSE acc
  IN after[Len(all)]
ClearPlugins ==
  /\ Users \cap DOMAIN live.nodes # {} /\ Linear(live)
  /\ EditRack(Emptied(live))

-----------------------------------------------------------------------------
(* The graph editor works on a draft and does not keep it a chain. *)

OpenDraft ==
  /\ dialog = Idle /\ draft = NoGraph
  /\ draft' = live /\ base' = live /\ edits' = 0
  /\ UNCHANGED <<bench, live, rack, track, dialog, engine, pending>>

(* The keyboard follows an edit with update_channel_dependent_plugins, the menus do not. *)
EditDraft(candidate) ==
  /\ dialog = Idle /\ draft # NoGraph
  /\ draft' \in {candidate, Updated(candidate)}
  /\ CountsEdit
  /\ UNCHANGED <<bench, live, rack, base, track, dialog, engine, pending>>

Drawable(g, w) == w[2] < Outs(g, w[1]) /\ w[4] < Ins(g, w[3]) /\ CanConnect(g, w)

Connect == \E wire \in Editable : Drawable(draft, wire) /\ EditDraft(Connected(draft, wire))
Disconnect == \E wire \in Editable \cap draft.wires :
  EditDraft([draft EXCEPT !.wires = @ \ {wire}])
DropNode == \E id \in Erasable \cap DOMAIN draft.nodes : EditDraft(Without(draft, {id}))
PlaceNode == \E id \in Users \ (DOMAIN draft.nodes \cup DOMAIN live.nodes), kind \in bench.kinds :
  EditDraft(Placed(draft, id, kind))

(* toggle_plugin on the draft: a chain is changed by a transaction, a graph as it stands. *)
ToggleNode == \E id \in bench.switched \cap DOMAIN draft.nodes :
  IF Linear(draft)
  THEN Fits(Updated(Toggled(draft, id))) /\ EditDraft(Updated(Toggled(draft, id)))
  ELSE EditDraft(Toggled(draft, id))

DraftStep == draft # NoGraph /\ (Connect \/ Disconnect \/ DropNode \/ PlaceNode \/ ToggleNode)

(* Faulty: the graph the draft was taken from is kept. *)
ClosedKeepingBase == draft' = NoGraph /\ edits' = 0 /\ UNCHANGED base

Closed == draft' = NoGraph /\ base' = NoGraph /\ edits' = 0

(* apply_routing_draft: only a valid draft of the graph that is still live. *)
ApplyDraft ==
  /\ dialog = Idle
  /\ draft # NoGraph /\ draft # base /\ base = live
  /\ ValidRouting(draft)
  /\ live' = draft /\ Shown /\ pending' = TRUE
  /\ Closed /\ UNCHANGED <<bench, track, dialog, engine>>

DiscardDraft ==
  dialog = Idle /\ draft # NoGraph /\ Closed /\ UNCHANGED <<bench, live, rack, track, dialog, engine, pending>>

-----------------------------------------------------------------------------
(* Playing a track. *)

(* play_track_at_inner: fit the matrix to `channels`, set the replay gain  *)
(* of the queue's current track, load `source` (its channels stand for it).*)
Loaded(g, source, channels) ==
  LET fitted == AdaptedTo(g, channels)
  IN /\ live' = IF "ReplayGain" \in DOMAIN fitted.nodes
                THEN [fitted EXCEPT !.nodes["ReplayGain"].on = track' \in Gained] ELSE fitted
     /\ engine' = [source |-> source, channels |-> channels, chain |-> Chain(live')]

(* Faulty: looks for conflicts with the track before. *)
AskedOfLastTrack(g, source, channels) ==
  LET fresh == Updated(Resumed(g))
      refused == Conflicts(fresh, fresh.inputs)
  IN IF refused = {} THEN Loaded(fresh, source, channels) /\ dialog' = Idle
     ELSE /\ live' = fresh
          /\ dialog' = [source |-> source, channels |-> channels, refused |-> refused]
          /\ UNCHANGED engine

(* Faulty: suspensions are not cleared. *)
AskedOfAwake(g, source, channels) ==
  LET refused == Conflicts(g, channels)
  IN IF refused = {} THEN Loaded(g, source, channels) /\ dialog' = Idle
     ELSE /\ live' = g
          /\ dialog' = [source |-> source, channels |-> channels, refused |-> refused]
          /\ UNCHANGED engine

(* play_track_at_with_mode: a conflict stops here and asks. *)
Asked(g, source, channels) ==
  LET fresh == Updated(Resumed(g))
      refused == Conflicts(fresh, channels)
  IN IF refused = {} THEN Loaded(fresh, source, channels) /\ dialog' = Idle
     ELSE /\ live' = fresh
          /\ dialog' = [source |-> source, channels |-> channels, refused |-> refused]
          /\ UNCHANGED engine

Play == \E channels \in Tracks :
  /\ dialog = Idle
  /\ track' = channels
  /\ Asked(live, channels, channels)
  /\ CountsEdit /\ Shown /\ UNCHANGED <<bench, draft, base, pending>>

(* play_track_auto_advance, when the engine reaches the end of a track, dialog or not. *)
Advance == \E channels \in Tracks :
  /\ engine # Idle
  /\ track' = channels
  /\ LET fresh == Updated(Resumed(live))
         refused == Conflicts(fresh, channels)
     IN Loaded(IF refused = {} THEN fresh ELSE Updated(Suspended(fresh, refused)), channels, channels)
  /\ CountsEdit /\ Shown /\ UNCHANGED <<bench, draft, base, dialog, pending>>

(* Enter in the dialog: suspend what it listed and load what it asked about. *)
SuspendByKey ==
  /\ dialog # Idle /\ dialog' = Idle
  /\ UNCHANGED <<bench, draft, base, track, pending>>
  /\ Loaded(Updated(Suspended(live, dialog.refused)), dialog.source, dialog.channels)
  /\ CountsEdit /\ Shown

(* The button: the same, and then the whole of play_track for the source   *)
(* held back, which counts the channels of the queue's current track.      *)
SuspendByButton ==
  /\ dialog # Idle
  /\ UNCHANGED <<bench, draft, base, track, pending>>
  /\ Asked(Updated(Suspended(live, dialog.refused)), dialog.source, track)
  /\ CountsEdit /\ Shown

(* Remove: each listed plugin in a transaction of its own, the last first. *)
RemoveListed(g) ==
  LET all == Reverse(Rack(g))
      after[k \in 0..Len(all)] ==
        IF k = 0 THEN g
        ELSE LET acc == after[k - 1]
                 left == Updated(Removed(acc, all[k]))
             IN IF all[k] \in dialog.refused \cap Users /\ Fits(left) THEN left ELSE acc
  IN after[Len(all)]
RemoveByButton ==
  /\ dialog # Idle
  /\ UNCHANGED <<bench, draft, base, track, pending>>
  /\ Asked(RemoveListed(live), dialog.source, track)
  /\ CountsEdit /\ Shown

Cancel ==
  /\ dialog # Idle /\ dialog' = Idle
  /\ UNCHANGED <<bench, live, rack, draft, base, edits, track, engine, pending>>

(* The timer: a structural update gives the engine the live graph. *)
Tick ==
  /\ pending /\ pending' = FALSE
  /\ engine' = IF engine = Idle THEN Idle ELSE [engine EXCEPT !.chain = Chain(live)]
  /\ UNCHANGED <<bench, live, rack, draft, base, edits, track, dialog>>

Next ==
  \/ AddPlugin \/ RemovePlugin \/ MovePlugin \/ TogglePlugin \/ ClearPlugins
  \/ OpenDraft \/ DraftStep \/ ApplyDraft \/ DiscardDraft
  \/ Play \/ Advance \/ SuspendByKey \/ SuspendByButton \/ RemoveByButton \/ Cancel \/ Tick
Spec == Init /\ [][Next]_vars

-----------------------------------------------------------------------------
(* Properties. *)

(* The live graph could be applied as a routing at any time: every wire    *)
(* joins channels that exist, every input is fed and nothing loops, after  *)
(* any sequence of rack edits, suspensions and resized matrices.           *)
LiveRoutable == ValidRouting(live)

(* Does a plugin that counts channels follow a matrix?  Not covered:       *)
(* find_channel_conflicts counts with the width the matrix has before it   *)
(* is fitted to the track.                                                 *)
MatricesLast(g, list) == \A j, k \in DOMAIN list :
  j < k /\ g.nodes[list[j]].kind = "matrix" => Required(g.nodes[list[k]]) = 0

Load == engine' # engine /\ pending' = pending /\ MatricesLast(live', rack')

(* A track is never loaded with a chain in which a plugin refuses the      *)
(* channels the chain was fitted to, whichever way it is started and       *)
(* whatever happened while the dialog was open (play_track_at_with_mode,   *)
(* play_track_auto_advance, the dialog's keys and buttons).  Those are the *)
(* channels of the track itself, but for one case: the dialog's buttons    *)
(* fit what it held back to the track that the queue has reached meanwhile *)
(* (dialogs/player_view.rs:1831, 1873 and ui/player_view.rs:2090), or an   *)
(* earlier press of one did and asked again.                               *)
Clash(channels, chain) ==
  LET flow[k \in 1..Len(chain) + 1] ==
        IF k = 1 THEN channels ELSE OutputChannels(chain[k - 1], flow[k - 1])
  IN \E k \in DOMAIN chain : Required(chain[k]) \notin {0, flow[k]}
Overtaken == dialog # Idle /\ {track, dialog.channels} # {dialog.source}
LoadsFit ==
  [][Load => /\ ~Clash(engine'.channels, engine'.chain)
             /\ engine'.channels # engine'.source => Overtaken]_vars

(* A plugin stays suspended only for as long as a track needs it: after a  *)
(* load the suspended plugins are those that would refuse the channels it  *)
(* was fitted to (the track's own, but for what LoadsFit names), unless    *)
(* the dialog is answered after the engine went on to a track that         *)
(* suspended others.                                                       *)
Asleep(g) == {id \in DOMAIN g.nodes : g.nodes[id].suspended}
SuspendsOnlyConflicts ==
  [][Load /\ Linear(live') /\ (dialog' # dialog => Asleep(live) = {})
     => Asleep(live') = Conflicts(Resumed(live'), engine'.channels)]_vars

(* The rewiring of the graph amounts to editing a list of plugins. *)
List == INSTANCE RackList WITH open <- draft # NoGraph
ImplementsRackList == List!Spec
=============================================================================
