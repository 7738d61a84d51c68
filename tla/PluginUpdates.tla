---------------------------- MODULE PluginUpdates ----------------------------
(***************************************************************************)
(* How an edited plugin graph reaches the engine: the graph and its draft  *)
(* (PluginState in crates/app-gpui/app/state/plugin.rs), the one pending   *)
(* update, the timer that sends it and polls its acknowledgement           *)
(* (ui/player_view.rs, ui/plugin.rs), and the worker of PlayerHandle that  *)
(* runs commands in the order they were sent.                              *)
(*                                                                         *)
(* A graph is a value in every slot: Shape stands for what only a rebuild  *)
(* of the chain changes, the other slots for parameters that are sent one  *)
(* by one.  Whether a draft is valid is left to PluginRack: one that is    *)
(* not is refused without a change.  Headphone auditions, momentary        *)
(* profile actions and file pickers use the same acknowledgement and are   *)
(* left out.                                                               *)
(***************************************************************************)
EXTENDS Naturals, Sequences

CONSTANTS
  Slots, Shape, Values,
  MaxEdits,     \* bound: edits and loads
  MaxFaults,    \* bound: commands that fail, the end of the worker included
  None

Graphs == [Slots -> Values]
Params == Slots \ {Shape}
Receipts == [graph : Graphs, routing : BOOLEAN, outcome : {"waiting", "ok", "failed"}]
Commands == [slots : SUBSET Slots, graph : Graphs, receipt : BOOLEAN]

ASSUME PluginUpdatesAssumption ==
  /\ Shape \in Slots /\ MaxEdits \in Nat /\ MaxFaults \in Nat
  /\ None \notin Graphs \cup Receipts

VARIABLES
  live,        \* ctrl.graph, what the rack shows
  draft,       \* graph_state.draft
  base,        \* graph_state.draft_base
  original,    \* graph_state.applying_original
  pending,     \* pending_plugin_update: all Slots (Structural), one parameter, or none
  ack,         \* pending_ack: the graph that was sent, and its receipt
  sent,        \* commands in the channel to the worker
  engine,      \* what the engine runs
  polled,      \* the timer has polled and has yet to send
  alive,       \* the worker thread runs
  edits, faults,
  lost,        \* history: slots whose change was given up
  sends        \* history: commands since the routing was applied, 2 for more
draftVars == <<draft, base, original>>
bounds == <<edits, faults>>
history == <<lost, sends>>
vars == <<live, draftVars, pending, ack, sent, engine, polled, alive, bounds, history>>

TypeOK ==
  /\ live \in Graphs /\ engine \in Graphs
  /\ draft \in Graphs \cup {None} /\ base \in Graphs \cup {None}
  /\ original \in Graphs \cup {None}
  /\ pending \in SUBSET Slots
  /\ ack \in Receipts \cup {None}
  /\ sent \in Seq(Commands)
  /\ polled \in BOOLEAN /\ alive \in BOOLEAN
  /\ edits \in 0..MaxEdits /\ faults \in 0..MaxFaults
  /\ lost \in SUBSET Slots /\ sends \in 0..2

Init ==
  /\ live \in Graphs /\ engine = live
  /\ draft = None /\ base = None /\ original = None
  /\ pending = {} /\ ack = None /\ sent = <<>>
  /\ polled = FALSE /\ alive = TRUE
  /\ edits = 0 /\ faults = 0
  /\ lost = {} /\ sends = 0

(* The UI thread is free: handlers do not run inside the timer. *)
Free == ~polled
Edit == edits < MaxEdits /\ edits' = edits + 1 /\ UNCHANGED faults
OneMore == IF sends = 2 THEN 2 ELSE sends + 1

-----------------------------------------------------------------------------
(* The rack. *)

(* Faulty: a parameter replaces a rebuild that is due. *)
RecordedBlindly(p) == pending' = {p} /\ lost' = (lost \cup (pending \cap Params)) \ {p}

(* record_ab_test_effect: a rebuild that is due stays; one parameter replaces another. *)
Recorded(p) ==
  IF pending = Slots THEN UNCHANGED <<pending, lost>>
  ELSE pending' = {p} /\ lost' = (lost \cup pending) \ {p}

EditParameter == \E p \in Params, v \in Values :
  /\ Free /\ Edit
  /\ v # live[p] /\ live' = [live EXCEPT ![p] = v]
  /\ Recorded(p)
  /\ UNCHANGED <<draftVars, ack, sent, engine, polled, alive, sends>>

EditRack == \E v \in Values \ {live[Shape]} :
  /\ Free /\ Edit
  /\ live' = [live EXCEPT ![Shape] = v]
  /\ pending' = Slots /\ lost' = {}
  /\ UNCHANGED <<draftVars, ack, sent, engine, polled, alive, sends>>

(* A track is loaded with the graph fitted to it. *)
Load == \E v \in Values :
  /\ Free /\ Edit
  /\ live' = [live EXCEPT ![Shape] = v]
  /\ sent' = IF alive THEN Append(sent, [slots |-> Slots, graph |-> live', receipt |-> FALSE]) ELSE sent
  /\ lost' = IF alive THEN {} ELSE Slots
  /\ sends' = OneMore
  /\ UNCHANGED <<draftVars, pending, ack, engine, polled, alive>>

-----------------------------------------------------------------------------
(* The draft. *)

BeginDraft ==    \* ensure_workflow_canvas, whenever the graph screen is drawn
  /\ Free /\ draft = None
  /\ draft' = live /\ base' = live
  /\ UNCHANGED <<live, original, pending, ack, sent, engine, polled, alive, bounds, history>>

EditDraft == \E s \in Slots, v \in Values :
  /\ Free /\ Edit
  /\ draft # None /\ v # draft[s]
  /\ draft' = [draft EXCEPT ![s] = v]
  /\ UNCHANGED <<live, base, original, pending, ack, sent, engine, polled, alive, history>>

Discard ==
  /\ Free /\ draft # None
  /\ draft' = None /\ base' = None
  /\ UNCHANGED <<live, original, pending, ack, sent, engine, polled, alive, bounds, history>>

InStep == pending = {} /\ ack = None /\ sent = <<>> /\ lost = {}

Apply ==    \* apply_routing_draft
  /\ Free
  /\ draft # None /\ draft # base
  /\ original = None
  /\ base = live
  /\ original' = live /\ live' = draft
  /\ draft' = None /\ base' = None
  /\ pending' = Slots /\ lost' = {}
  /\ sends' = IF InStep THEN 0 ELSE 2
  /\ UNCHANGED <<ack, sent, engine, polled, alive, bounds>>

(* finish_routing_apply: a routing that failed becomes a draft again, *)
(* unless a newer one was begun.                                      *)
Finished(succeeded) ==
  IF original = None \/ succeeded
  THEN original' = None /\ UNCHANGED <<live, draft, base, lost>>
  ELSE /\ draft' = IF draft = None THEN live ELSE draft
       /\ live' = original /\ base' = original
       /\ original' = None
       /\ lost' = IF sends <= 1 THEN {} ELSE Slots

-----------------------------------------------------------------------------
(* The timer: poll the acknowledgement, then send what is pending. *)

Poll ==    \* poll_plugin_update_acknowledgement
  /\ Free /\ polled' = TRUE
  /\ IF ack = None \/ ack.outcome = "waiting"
     THEN UNCHANGED <<live, draftVars, pending, ack, lost>>
     ELSE /\ ack' = None
          /\ IF ack.graph # live
             THEN pending' = Slots /\ lost' = {} /\ UNCHANGED <<live, draftVars>>
             ELSE /\ IF ack.routing THEN Finished(ack.outcome = "ok")
                     ELSE UNCHANGED <<live, draftVars, lost>>
                  /\ UNCHANGED pending
  /\ UNCHANGED <<sent, engine, alive, bounds, sends>>

(* Faulty: what is pending while an acknowledgement is out is dropped. *)
KeptForgetting ==
  /\ ack # None \/ pending = {}
  /\ pending' = {}
  /\ UNCHANGED <<live, draftVars, ack, sent, history>>

Kept ==    \* what is pending while an acknowledgement is out becomes a rebuild
  /\ ack # None \/ pending = {}
  /\ pending' = IF pending = {} THEN {} ELSE Slots
  /\ lost' = IF pending = {} THEN lost ELSE {}
  /\ UNCHANGED <<live, draftVars, ack, sent, sends>>

SentWhole ==    \* apply_plugin_update, Structural
  /\ ack = None /\ pending = Slots /\ pending' = {}
  /\ alive
  /\ sent' = Append(sent, [slots |-> Slots, graph |-> live, receipt |-> TRUE])
  /\ ack' = [graph |-> live, routing |-> original # None, outcome |-> "waiting"]
  /\ lost' = {} /\ sends' = OneMore
  /\ UNCHANGED <<live, draftVars>>

SentParameter ==    \* one parameter, or a whole graph when it cannot be sent alone
  /\ ack = None /\ pending \notin {{}, Slots} /\ pending' = {}
  /\ alive
  /\ \E slots \in {pending, Slots} :
       sent' = Append(sent, [slots |-> slots, graph |-> live, receipt |-> FALSE])
  /\ sends' = OneMore
  /\ UNCHANGED <<live, draftVars, ack, lost>>

ParameterAbsent ==    \* the plugin is disabled, gone or not in the engine: nothing is sent
  /\ ack = None /\ pending \notin {{}, Slots} /\ pending' = {}
  /\ lost' = lost \cup pending
  /\ UNCHANGED <<live, draftVars, ack, sent, sends>>

NotSent ==    \* the worker is gone
  /\ ack = None /\ pending # {} /\ pending' = {}
  /\ ~alive
  /\ IF original = None THEN lost' = lost \cup pending /\ UNCHANGED <<live, draftVars>>
     ELSE Finished(FALSE)
  /\ sends' = OneMore
  /\ UNCHANGED <<ack, sent>>

Send ==
  /\ polled /\ polled' = FALSE
  /\ Kept \/ SentWhole \/ SentParameter \/ ParameterAbsent \/ NotSent
  /\ UNCHANGED <<engine, alive, bounds>>

-----------------------------------------------------------------------------
(* The worker. *)

Changed(graph, command) ==
  [s \in Slots |-> IF s \in command.slots THEN command.graph[s] ELSE graph[s]]

(* Faulty: an error leaves the receipt waiting. *)
SettledOnSuccess(outcome) ==
  ack' = IF ack # None /\ Head(sent).receipt /\ outcome = "ok"
         THEN [ack EXCEPT !.outcome = outcome] ELSE ack

Settled(outcome) ==
  ack' = IF ack # None /\ Head(sent).receipt THEN [ack EXCEPT !.outcome = outcome] ELSE ack

Run ==
  /\ alive /\ sent # <<>>
  /\ engine' = Changed(engine, Head(sent))
  /\ sent' = Tail(sent)
  /\ Settled("ok")
  /\ UNCHANGED <<live, draftVars, pending, polled, alive, bounds, history>>

Fail ==    \* the command answers an error
  /\ alive /\ sent # <<>>
  /\ faults < MaxFaults /\ faults' = faults + 1
  /\ sent' = Tail(sent)
  /\ Settled("failed")
  /\ lost' = lost \cup Head(sent).slots
  /\ UNCHANGED <<live, draftVars, pending, engine, polled, alive, edits, sends>>

Die ==    \* the command panics
  /\ alive /\ sent # <<>>
  /\ faults < MaxFaults /\ faults' = faults + 1
  /\ alive' = FALSE
  /\ sent' = <<>> /\ lost' = Slots
  /\ UNCHANGED <<live, draftVars, pending, ack, engine, polled, edits, sends>>

-----------------------------------------------------------------------------
Next ==
  \/ EditParameter \/ EditRack \/ Load
  \/ BeginDraft \/ EditDraft \/ Discard \/ Apply
  \/ Poll \/ Send
  \/ Run \/ Fail \/ Die

(* The timer keeps firing, and the worker runs what is sent while it lives. *)
Spec == Init /\ [][Next]_vars /\ WF_vars(Poll) /\ WF_vars(Send) /\ WF_vars(Run \/ Fail \/ Die)

-----------------------------------------------------------------------------
(* Properties. *)

(* A routing that is being applied is never forgotten: as long as its      *)
(* original is kept, a rebuild is due or the receipt of one that will      *)
(* settle it is out.  Otherwise every later routing would be refused as    *)
(* already pending (plugin.rs:1049).                                       *)
ApplyPursued ==
  original # None => pending = Slots \/ (ack # None /\ ack.routing)

(* When nothing is pending, sent or awaited, the engine runs what the rack *)
(* shows, but for the slots in lost: a parameter replaced by another       *)
(* before the timer sent it or set on a plugin the engine does not have, a *)
(* command that failed, and a routing that was taken back although         *)
(* something had been sent since it was applied.                           *)
EngineFollows ==
  pending = {} /\ ack = None /\ sent = <<>> => \A s \in Slots \ lost : engine[s] = live[s]

(* Every edit is settled, one way or the other, while the worker lives.    *)
Settles == <>[](~alive \/ (pending = {} /\ ack = None /\ original = None))
=============================================================================
