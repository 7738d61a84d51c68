---------------------------- MODULE PlayerHandle ----------------------------
(***************************************************************************)
(* crates/app-gpui/app/player_handle.rs: the handle through which the UI   *)
(* talks to the Player.  A worker thread owns the Player and runs boxed    *)
(* commands in the order of an mpsc channel.  The UI never waits for it:   *)
(* it asks for a snapshot, and reads the latest one published.  A snapshot *)
(* carries the number of transport commands (play, pause, seek, ...) that  *)
(* had run when it was taken, and is refused while more have been asked    *)
(* for.  One-shot engine events travel beside it, in `pending_events`,     *)
(* which holds one event of a kind: a flag (track_ended, engine_restarted, *)
(* engine_fatal) stays set, a slot (last_error, gapless_transition,        *)
(* stream_metadata) is overwritten by the next event of its kind.          *)
(*                                                                         *)
(* Three kinds of threads interleave here: the submitters (clones of the   *)
(* handle), the worker, and the UI timer that requests and reads.          *)
(* Receipt n, the nth transport accepted, is settled when player.ran >= n. *)
(***************************************************************************)
EXTENDS Integers, Sequences

CONSTANTS
  Submitters,     \* threads that submit commands through clones of the handle
  NoSubmitter,    \* nobody holds the last_transport lock
  NoSnapshot,     \* nothing was published yet
  FlagKinds,      \* kinds of one-shot events kept as a flag
  SlotKinds,      \* kinds of one-shot events kept as the newest payload
  MaxTransports,  \* bound: transports submitted
  MaxQueue,       \* bound: channel length at which other commands hold back
  MaxEvents       \* bound: events the engine raises of one kind

ASSUME SubmittersAssumption == NoSubmitter \notin Submitters
ASSUME SnapshotAssumption == NoSnapshot \notin [epoch : Nat, ran : Nat]
ASSUME KindsAssumption == FlagKinds \cap SlotKinds = {}
ASSUME BoundsAssumption == MaxTransports \in Nat /\ MaxQueue \in Nat /\ MaxEvents \in Nat

VARIABLES
  connected,      \* the receiver is alive: sends succeed
  channel,        \* the commands sent and not yet received
  lock,           \* who holds last_transport, between counting and sending
  requested,      \* TransportSnapshotEpoch.requested
  completed,      \* TransportSnapshotEpoch.completed
  lastTransport,  \* the latest receipt handed out, 0 before the first
  player,         \* [ran: latest transport executed, loaded: a source is loaded,
                  \*  count: events raised so far by kind, raised: those waiting]
  worker,         \* [pc, polled]: the worker inside a command, the events it polled
  latest,         \* latest_snapshot
  events,         \* pending_events: its epoch and the one-shot events in it
  snapshotRequested,
  ui,             \* [pc, snapshot]: the UI timer inside a tick
  handed          \* history: the latest event of each kind handed to the UI

submission == <<lock, requested, lastTransport>>
vars == <<connected, channel, submission, completed, player, worker, latest, events,
          snapshotRequested, ui, handed>>

Transport == [kind : {"load", "control"}, id : Nat \ {0}]
Plain == [kind |-> "plain"]
SnapshotRequest == [kind |-> "snapshot"]
Command == Transport \cup {Plain, SnapshotRequest}
IsTransport(c) == c.kind \in {"load", "control"}

Snapshot == [epoch : Nat, ran : Nat]
(* The nth event of a kind; once polled, it remembers the transport after  *)
(* which it was.                                                           *)
Kinds == FlagKinds \cup SlotKinds
Raised == [kind : Kinds, n : Nat \ {0}]
Event == [kind : Kinds, n : Nat \ {0}, ran : Nat]

TypeOK ==
  /\ connected \in BOOLEAN
  /\ channel \in Seq(Command)
  /\ lock \in Submitters \cup {NoSubmitter}
  /\ requested \in Nat /\ completed \in Nat /\ lastTransport \in Nat
  /\ player \in [ran : Nat, loaded : BOOLEAN, count : [Kinds -> Nat], raised : SUBSET Raised]
  /\ worker \in [pc : {"idle", "ran", "polled", "merged", "published"}, polled : SUBSET Event]
  /\ latest \in Snapshot \cup {NoSnapshot}
  /\ events \in [epoch : Nat, pending : SUBSET Event]
  /\ snapshotRequested \in BOOLEAN
  /\ ui \in [pc : {"idle", "send", "read", "check", "take"}, snapshot : Snapshot \cup {NoSnapshot}]
  /\ handed \in [Kinds -> Nat]

(* If the worker thread cannot be spawned the receiver is dropped at once. *)
Init ==
  /\ connected \in BOOLEAN
  /\ channel = <<>>
  /\ lock = NoSubmitter /\ requested = 0 /\ lastTransport = 0
  /\ completed = 0
  /\ player = [ran |-> 0, loaded |-> FALSE, count |-> [k \in Kinds |-> 0], raised |-> {}]
  /\ worker = [pc |-> "idle", polled |-> {}]
  /\ latest = NoSnapshot
  /\ events = [epoch |-> 0, pending |-> {}]
  /\ snapshotRequested = FALSE
  /\ ui = [pc |-> "idle", snapshot |-> NoSnapshot]
  /\ handed = [k \in Kinds |-> 0]

-----------------------------------------------------------------------------
(* Submitters: enqueue_transport_with_receipt, under the last_transport    *)
(* lock, and enqueue_result for every other command.                       *)

(* Faulty: counted only when the send succeeds, but taken back when it     *)
(* fails.                                                                  *)
CountTransportLate(s) ==
  /\ lock = NoSubmitter
  /\ requested < MaxTransports
  /\ lock' = s
  /\ requested' = IF connected THEN requested + 1 ELSE requested
  /\ UNCHANGED <<connected, channel, lastTransport, completed, player, worker, latest, events,
                 snapshotRequested, ui, handed>>

(* Faulty: numbers the command without taking the lock. *)
CountTransportUnlocked(s) ==
  /\ lock # s
  /\ requested < MaxTransports
  /\ lock' = s
  /\ requested' = requested + 1
  /\ UNCHANGED <<connected, channel, lastTransport, completed, player, worker, latest, events,
                 snapshotRequested, ui, handed>>

CountTransport(s) ==
  /\ lock = NoSubmitter
  /\ requested < MaxTransports
  /\ lock' = s
  /\ requested' = requested + 1
  /\ UNCHANGED <<connected, channel, lastTransport, completed, player, worker, latest, events,
                 snapshotRequested, ui, handed>>

SendTransport(s, kind) ==
  /\ lock = s
  /\ lock' = NoSubmitter
  /\ IF connected
     THEN /\ channel' = Append(channel, [kind |-> kind, id |-> requested])
          /\ lastTransport' = requested
          /\ UNCHANGED requested
     ELSE /\ requested' = requested - 1
          /\ UNCHANGED <<channel, lastTransport>>
  /\ UNCHANGED <<connected, completed, player, worker, latest, events, snapshotRequested, ui,
                 handed>>

SendPlain ==
  /\ connected
  /\ Len(channel) < MaxQueue
  /\ channel' = Append(channel, Plain)
  /\ UNCHANGED <<connected, submission, completed, player, worker, latest, events,
                 snapshotRequested, ui, handed>>

-----------------------------------------------------------------------------
(* The worker: recv, run, repeat. *)

Receives(kinds) ==
  /\ connected
  /\ worker.pc = "idle"
  /\ channel # <<>>
  /\ Head(channel).kind \in kinds
  /\ channel' = Tail(channel)

(* Faulty: drains the channel along with the command it received. *)
RunPlainDraining ==
  /\ connected /\ worker.pc = "idle"
  /\ channel # <<>> /\ Head(channel).kind = "plain"
  /\ channel' = <<>>
  /\ UNCHANGED <<connected, submission, completed, player, worker, latest, events,
                 snapshotRequested, ui, handed>>

RunPlain ==
  /\ Receives({"plain"})
  /\ UNCHANGED <<connected, submission, completed, player, worker, latest, events,
                 snapshotRequested, ui, handed>>

(* f(player), which also settles the receipt.  Which of the events not yet *)
(* handed over the engine discards is its own affair.                      *)
RunTransport ==
  /\ Receives({"load", "control"})
  /\ \E kept \in SUBSET player.raised :
       player' = [ran    |-> Head(channel).id,
                  loaded |-> player.loaded \/ Head(channel).kind = "load",
                  count  |-> player.count,
                  raised |-> kept]
  /\ worker' = [worker EXCEPT !.pc = "ran"]
  /\ UNCHANGED <<connected, submission, completed, latest, events, snapshotRequested, ui, handed>>

CompleteTransport ==
  /\ worker.pc = "ran"
  /\ completed' = completed + 1
  /\ worker' = [worker EXCEPT !.pc = "idle"]
  /\ UNCHANGED <<connected, channel, submission, player, latest, events, snapshotRequested, ui,
                 handed>>

(* The closure of request_snapshot, up to where other threads can look in. *)
PollPlayer ==
  /\ Receives({"snapshot"})
  /\ worker' = [pc     |-> "polled",
                polled |-> {[kind |-> e.kind, n |-> e.n, ran |-> player.ran] : e \in player.raised}]
  /\ player' = [player EXCEPT !.raised = {}]
  /\ UNCHANGED <<connected, submission, completed, latest, events, snapshotRequested, ui, handed>>

(* Faulty: every poll starts afresh, whether or not the UI has read. *)
KeptEventsNever(epoch) == {}

(* Faulty: a slot keeps the event it holds. *)
MergedFirst(old, new) ==
  old \cup {e \in new : \A f \in old : f.kind # e.kind}

(* The pending events as of `epoch`: those of an earlier one are dropped. *)
KeptEvents(epoch) == IF events.epoch = epoch THEN events.pending ELSE {}

(* merge: an event of a slot replaces the one there, one of a flag that is *)
(* already set adds nothing.                                               *)
Merged(old, new) ==
  LET SameKind(e, others) == \E f \in others : f.kind = e.kind
  IN  {e \in old : e.kind \in FlagKinds \/ ~SameKind(e, new)}
        \cup {e \in new : e.kind \in SlotKinds \/ ~SameKind(e, old)}

MergeEvents ==
  /\ worker.pc = "polled"
  /\ events' = [epoch   |-> completed,
                pending |-> Merged(KeptEvents(completed), worker.polled)]
  /\ worker' = [pc |-> "merged", polled |-> {}]
  /\ UNCHANGED <<connected, channel, submission, completed, player, latest, snapshotRequested, ui,
                 handed>>

PublishSnapshot ==
  /\ worker.pc = "merged"
  /\ latest' = [epoch |-> completed, ran |-> player.ran]
  /\ worker' = [worker EXCEPT !.pc = "published"]
  /\ UNCHANGED <<connected, channel, submission, completed, player, events, snapshotRequested, ui,
                 handed>>

(* Faulty: the flag is left set, so no request is ever sent again. *)
ReleaseRequestForgotten ==
  /\ worker.pc = "published"
  /\ worker' = [worker EXCEPT !.pc = "idle"]
  /\ UNCHANGED <<connected, channel, submission, completed, player, latest, events,
                 snapshotRequested, ui, handed>>

ReleaseRequest ==
  /\ worker.pc = "published"
  /\ snapshotRequested' = FALSE
  /\ worker' = [worker EXCEPT !.pc = "idle"]
  /\ UNCHANGED <<connected, channel, submission, completed, player, latest, events, ui, handed>>

Worker ==
  \/ RunPlain \/ RunTransport \/ CompleteTransport
  \/ PollPlayer \/ MergeEvents \/ PublishSnapshot \/ ReleaseRequest

(* A command that panics unwinds the worker thread (panic = "unwind"): the *)
(* receiver and every queued command are dropped, and nothing is settled.  *)
WorkerPanics ==
  /\ connected
  /\ worker.pc = "idle"
  /\ channel # <<>>
  /\ connected' = FALSE
  /\ channel' = <<>>
  /\ UNCHANGED <<submission, completed, player, worker, latest, events, snapshotRequested, ui,
                 handed>>

(* The engine ends a track, fails, or moves on gaplessly at any time.  Of  *)
(* the events it raises between two polls, get_playback_state returns the  *)
(* last of each kind.                                                      *)
EngineRaises(kind) ==
  /\ player.loaded
  /\ player.count[kind] < MaxEvents
  /\ LET n == player.count[kind] + 1
     IN  player' = [player EXCEPT !.count[kind] = n,
                                  !.raised = {e \in @ : e.kind # kind} \cup {[kind |-> kind, n |-> n]}]
  /\ UNCHANGED <<connected, channel, submission, completed, worker, latest, events,
                 snapshotRequested, ui, handed>>

-----------------------------------------------------------------------------
(* The UI tick: request_snapshot, then read_snapshot. *)

(* Faulty: sets the flag without looking at what it was. *)
SwapRequestedBlindly ==
  /\ ui.pc = "idle"
  /\ snapshotRequested' = TRUE
  /\ ui' = [ui EXCEPT !.pc = "send"]
  /\ UNCHANGED <<connected, channel, submission, completed, player, worker, latest, events, handed>>

SwapRequested ==
  /\ ui.pc = "idle"
  /\ snapshotRequested' = TRUE
  /\ ui' = [ui EXCEPT !.pc = IF snapshotRequested THEN "read" ELSE "send"]
  /\ UNCHANGED <<connected, channel, submission, completed, player, worker, latest, events, handed>>

SendRequest ==
  /\ ui.pc = "send"
  /\ IF connected
     THEN channel' = Append(channel, SnapshotRequest) /\ UNCHANGED snapshotRequested
     ELSE snapshotRequested' = FALSE /\ UNCHANGED channel
  /\ ui' = [ui EXCEPT !.pc = "read"]
  /\ UNCHANGED <<connected, submission, completed, player, worker, latest, events, handed>>

CloneSnapshot ==
  /\ ui.pc = "read"
  /\ ui' = IF latest = NoSnapshot THEN [ui EXCEPT !.pc = "idle"]
           ELSE [pc |-> "check", snapshot |-> latest]
  /\ UNCHANGED <<connected, channel, submission, completed, player, worker, latest, events,
                 snapshotRequested, handed>>

(* Faulty: compares with the commands run instead of those asked for. *)
AcceptsCompleted(epoch) == epoch = completed

Accepts(epoch) == epoch = requested

CheckEpoch ==
  /\ ui.pc = "check"
  /\ ui' = IF Accepts(ui.snapshot.epoch) THEN [ui EXCEPT !.pc = "take"]
           ELSE [pc |-> "idle", snapshot |-> NoSnapshot]
  /\ UNCHANGED <<connected, channel, submission, completed, player, worker, latest, events,
                 snapshotRequested, handed>>

(* The latest event of each kind, counting those in `taken`. *)
HandedWith(taken) ==
  [k \in Kinds |-> IF \E e \in taken : e.kind = k
                   THEN (CHOOSE e \in taken : e.kind = k).n ELSE handed[k]]

TakeEvents ==
  /\ ui.pc = "take"
  /\ IF events.epoch = ui.snapshot.epoch
     THEN /\ events' = [events EXCEPT !.pending = {}]
          /\ handed' = HandedWith(events.pending)
     ELSE UNCHANGED <<events, handed>>
  /\ ui' = [pc |-> "idle", snapshot |-> NoSnapshot]
  /\ UNCHANGED <<connected, channel, submission, completed, player, worker, latest,
                 snapshotRequested>>

Tick == SwapRequested \/ SendRequest \/ CloneSnapshot \/ CheckEpoch \/ TakeEvents

-----------------------------------------------------------------------------

Next ==
  \/ \E s \in Submitters : CountTransport(s) \/ SendTransport(s, "load") \/ SendTransport(s, "control")
  \/ SendPlain \/ Worker \/ WorkerPanics \/ Tick
  \/ \E k \in Kinds : EngineRaises(k)

(* The worker loop runs whenever it has work (commands return), the UI     *)
(* timer keeps ticking, and a submitter does not stop inside its lock.     *)
Fairness ==
  /\ WF_vars(Worker)
  /\ WF_vars(Tick)
  /\ \A s \in Submitters : WF_vars(SendTransport(s, "load") \/ SendTransport(s, "control"))

Spec == Init /\ [][Next]_vars
FairSpec == Spec /\ Fairness

-----------------------------------------------------------------------------
(* Properties *)

(* "At most one snapshot request can be queued at a time" (:225-229): the  *)
(* flag is cleared by the worker, the UI and a failed send, in any order.  *)
OneRequestQueued ==
  \A i, j \in DOMAIN channel :
    channel[i].kind = "snapshot" /\ channel[j].kind = "snapshot" => i = j

(* "Snapshots are usable only after every accepted transport command has   *)
(* run" (:172-174): the snapshot a read accepts shows the player as the    *)
(* last transport accepted by any handle left it, none is waiting, and no  *)
(* event handed out with it was polled before that transport.              *)
AcceptsRead == ui.pc = "check" /\ ui'.pc = "take"
HandsOut == ui.pc = "take" /\ events.epoch = ui.snapshot.epoch
ReadsAreFresh ==
  [][/\ AcceptsRead => /\ ui.snapshot.ran = lastTransport
                       /\ \A i \in DOMAIN channel : ~IsTransport(channel[i])
     /\ HandsOut => \A e \in events.pending : e.ran = ui.snapshot.ran]_vars

(* Receipts settle in the order they were handed out, whatever the order   *)
(* in which cloned handles race (:531-532).                                *)
ReceiptsInOrder ==
  [][player'.ran # player.ran => player'.ran = player.ran + 1 /\ player'.ran <= lastTransport]_vars

(* Every accepted transport is run, unless the worker dies. *)
ReceiptsSettle ==
  \A n \in 1..MaxTransports : lastTransport = n /\ connected ~> player.ran >= n \/ ~connected

(* The UI is never shut out: once no transport is submitted for a while    *)
(* the snapshots catch up and a read succeeds, unless the worker dies.     *)
ReadsResume ==
  \A n \in 0..MaxTransports :
    requested = n /\ connected ~>
      (ui.pc = "take" /\ events.epoch = n) \/ requested # n \/ ~connected

(* "A snapshot plus events consumed exactly once by the UI" (:102): a poll *)
(* consumes the engine's one-shot events, so however many polls run before *)
(* the UI reads, an event once published leaves the pending set only when  *)
(* the UI takes it, when a transport has run since, or, in a slot, for a   *)
(* newer event of its kind.  The UI is given no event twice and none older *)
(* than one it has seen of the same kind; what a slot gives it is the      *)
(* latest of its kind that a poll has brought, until a transport runs.     *)
Superseded(e) == e.kind \in SlotKinds /\ \E f \in events'.pending : f.kind = e.kind /\ f.n > e.n
LatestBrought(e) ==
  \/ e.n = player.count[e.kind]
  \/ \E f \in player.raised \cup worker.polled : f.kind = e.kind /\ f.n = player.count[e.kind]
EventsKept ==
  [][/\ \A e \in events.pending \ events'.pending :
          HandsOut \/ completed > e.ran \/ Superseded(e)
     /\ HandsOut => \A e \in events.pending :
          /\ e.n > handed[e.kind]
          /\ e.kind \in SlotKinds /\ player.ran = e.ran => LatestBrought(e)]_vars
=============================================================================
