----------------------------- MODULE RemoteView -----------------------------
(***************************************************************************)
(* The remote screen of the GPUI application following a server:           *)
(* crates/app-gpui/app/remote/consts.rs and app/state/app/remote_state.rs, *)
(* called from the UI timer (ui/tick.rs), over the event stream of         *)
(* server/stream.rs.  The screen shows a copy of the server's state, queue *)
(* and album page.  Frames of the stream mark parts of it as to be asked   *)
(* for again; a worker thread asks for them, one batch at a time.          *)
(***************************************************************************)
EXTENDS PlayerServer

CONSTANTS
  Stream,    \* the connection the event stream is served on
  Fetch,     \* the connection of the refresh worker
  MaxWire    \* bound: frames in flight when the server's writes block

ASSUME RemoteViewAssumption ==
  /\ Readers = {Stream, Fetch} /\ Stream # Fetch
  /\ MaxWire \in Nat \ {0}
  /\ \A s \in Settings : Readers \cap s.conns = {}

VARIABLES
  remote,   \* what the screen shows and what it has asked for
  worker,   \* the refresh worker and what it has got so far
  sse,      \* the event stream: off, connect, snapshot or live
  wire      \* frames sent and not yet handled by the UI
client == <<remote, worker, sse, wire>>
vars == <<server, client>>

Parts == {"state", "queue", "page"}
Missing == [kind |-> "none"]
NoWorker == [busy |-> FALSE, asked |-> {}, got |-> {}, failed |-> FALSE]
NewRemote ==
  [state |-> Missing, queue |-> Missing, page |-> Missing, requests |-> Parts,
   failures |-> 0, disabled |-> FALSE, listening |-> TRUE]
DisableThreshold == 3

Frame == Answer \cup Event \cup [kind : {"broken"}]

TypeOK ==
  /\ ServerTypeOK
  /\ remote.state \in Answer /\ remote.queue \in Answer /\ remote.page \in Answer
  /\ remote.requests \subseteq Parts /\ remote.failures \in 0..DisableThreshold
  /\ remote.disabled = (remote.failures = DisableThreshold) /\ remote.listening \in BOOLEAN
  /\ worker.asked \subseteq Parts /\ worker.got \subseteq Answer
  /\ worker.busy \in BOOLEAN /\ worker.failed \in BOOLEAN
  /\ sse \in {"off", "connect", "snapshot", "live"}
  /\ wire \in Seq(Frame)

(* A client that has followed the server for a while, or a new one. *)
Init ==
  /\ ServerInit
  /\ LET follows == setting.client = "following"
     IN /\ remote = [NewRemote EXCEPT
             !.state = IF follows THEN Status ELSE Missing,
             !.queue = IF follows THEN [kind |-> "queue", items |-> FlatTracks(queue)] ELSE Missing,
             !.page = IF follows THEN [kind |-> "page", copy |-> 1, swap |-> 1, version |-> 1] ELSE Missing,
             !.requests = IF follows THEN {} ELSE Parts,
             !.listening = setting.client # "none"]
        /\ sse = CASE setting.client = "none" -> "off" [] follows -> "live" [] OTHER -> "connect"
  /\ worker = NoWorker /\ wire = <<>>

-----------------------------------------------------------------------------
(* The server's end of the event stream. *)

Ask(c, cmd) == conn' = [conn EXCEPT ![c] = Asked(cmd, 0)]
Spends == budget > 0 /\ budget' = budget - 1
Lost(fault) == fault \in setting.faults /\ Spends
ServerElse == UNCHANGED <<setting, data, held, history>>

(* stream_api_events subscribes before it takes the first snapshot. *)
Subscribe ==
  /\ sse = "connect" /\ conn[Stream].pc = "idle"
  /\ feed' = [NoFeed EXCEPT !.open = TRUE]
  /\ Ask(Stream, "status") /\ sse' = "snapshot"
  /\ ServerElse /\ UNCHANGED <<budget, remote, worker, wire>>

SendState ==
  /\ conn[Stream].pc = "answered"
  /\ IF sse = "snapshot"
     THEN sse' = "live" /\ wire' = Append(wire, conn[Stream].answer)
     ELSE UNCHANGED <<sse, wire>>
  /\ Done(Stream)
  /\ ServerElse /\ UNCHANGED <<budget, feed, remote, worker>>

(* A subscriber that fell behind gets the whole state, then what is left.  *)
SendNext ==
  /\ sse = "live" /\ conn[Stream].pc = "idle" /\ Len(wire) < MaxWire
  /\ \/ /\ feed.lagged
        /\ feed' = [feed EXCEPT !.lagged = FALSE]
        /\ Ask(Stream, "status") /\ sse' = "snapshot" /\ UNCHANGED wire
     \/ /\ ~feed.lagged /\ feed.events # <<>>
        /\ wire' = Append(wire, Head(feed.events))
        /\ feed' = [feed EXCEPT !.events = Tail(@)]
        /\ UNCHANGED <<conn, sse>>
  /\ ServerElse /\ UNCHANGED <<budget, remote, worker>>

(* The connection ends, breaks or is refused.  The client's task connects  *)
(* again by itself; of an error it first tells the UI.                     *)
Disconnect ==
  /\ sse # "off"
  /\ \/ sse # "connect" /\ Lost("close") /\ UNCHANGED wire
     \/ Lost("break") /\ wire' = Append(wire, [kind |-> "broken"])
  /\ feed' = NoFeed /\ sse' = "connect"
  /\ ServerElse /\ UNCHANGED <<conn, remote, worker>>

-----------------------------------------------------------------------------
(* The refresh worker: what it was asked for, in order, or an error, which *)
(* names what was asked; or its thread dies, and nobody knows any more.    *)
Died == [NoWorker EXCEPT !.busy = TRUE, !.failed = TRUE]

Command(part) == CASE part = "state" -> "status" [] part = "queue" -> "items" [] part = "page" -> "albums"
Got == {a.kind : a \in worker.got}
Left == worker.asked \ Got
NextPart == CASE "state" \in Left -> "state" [] "queue" \in Left -> "queue" [] OTHER -> "page"

WorkerAsks ==
  /\ worker.busy /\ ~worker.failed /\ Left # {} /\ conn[Fetch].pc = "idle"
  /\ \/ Ask(Fetch, Command(NextPart)) /\ UNCHANGED <<worker, budget>>
     \/ Lost("fetch") /\ worker' = [worker EXCEPT !.failed = TRUE] /\ UNCHANGED conn
     \/ Lost("panic") /\ worker' = Died /\ UNCHANGED conn
  /\ ServerElse /\ UNCHANGED <<feed, remote, sse, wire>>

WorkerGets ==
  /\ conn[Fetch].pc = "answered"
  /\ worker' = IF worker.busy THEN [worker EXCEPT !.got = @ \cup {conn[Fetch].answer}] ELSE worker
  /\ Done(Fetch)
  /\ ServerElse /\ UNCHANGED <<budget, feed, remote, sse, wire>>

-----------------------------------------------------------------------------
(* One tick of the UI timer. *)

(* remote_visible_album_page_needs_refresh *)
PageStale(r) ==
  \/ r.page = Missing
  \/ r.state # Missing /\ r.state.library # 0 /\ r.page.version # r.state.library

Wants(r, part, when) == IF when THEN [r EXCEPT !.requests = @ \cup {part}] ELSE r

(* Faulty: a change announced during a refresh counts as covered by it. *)
HandledWhileBusy(r, frame) ==
  IF "event" \in DOMAIN frame /\ worker.busy THEN r
  ELSE Wants(r, "state", "event" \in DOMAIN frame /\ frame.event = "playback")

(* update_remote_event_stream *)
Handled(r, frame) ==
  IF "event" \in DOMAIN frame
  THEN CASE frame.event = "playback" -> Wants(r, "state", TRUE)
         [] frame.event = "queue"    -> Wants(r, "queue", r.state = Missing \/ r.state.version # frame.version)
         [] frame.event = "library"  -> Wants([r EXCEPT !.page = Missing], "page", TRUE)
  ELSE IF frame.kind = "broken" THEN [r EXCEPT !.listening = FALSE]
  ELSE LET shown == [r EXCEPT !.state = frame]
       IN Wants(shown, "page", PageStale(r) \/ PageStale(shown))

(* What the timer itself asks for while the library is on screen. *)
Browsed(r) == Wants(Wants(r, "state", r.state = Missing), "page", PageStale(r))

Finished == worker.busy /\ (worker.failed \/ (Left = {} /\ conn[Fetch].pc = "idle"))

(* Faulty: whatever arrives settles the wish for it. *)
AppliedSettling(r) ==
  LET part(p, old) == IF p \in Got THEN CHOOSE a \in worker.got : a.kind = p ELSE old
  IN [r EXCEPT !.state = part("state", @), !.queue = part("queue", @), !.page = part("page", @),
               !.requests = @ \ Got, !.failures = 0]

(* A page that arrives settles the wish for a page, a newer one included. *)
Applied(r) ==
  LET part(p, old) == IF p \in Got THEN CHOOSE a \in worker.got : a.kind = p ELSE old
  IN [r EXCEPT !.state = part("state", @), !.queue = part("queue", @), !.page = part("page", @),
               !.requests = @ \ (Got \cap {"page"}), !.failures = 0]

(* Faulty: gives up one failure too late. *)
FailedLate(r) ==
  [r EXCEPT !.failures = @ + 1, !.disabled = r.failures >= DisableThreshold,
            !.requests = IF r.failures >= DisableThreshold THEN {} ELSE @ \cup worker.asked]

(* record_remote_cache_refresh_failure: ask again, the third time give up. *)
Failed(r) ==
  LET failures == r.failures + 1
  IN IF failures >= DisableThreshold
     THEN [r EXCEPT !.failures = failures, !.disabled = TRUE, !.requests = {}]
     ELSE [r EXCEPT !.failures = failures, !.requests = @ \cup worker.asked]

(* update_remote_cache_refresh: take in a finished worker, start the next. *)
Refreshed(r) ==
  IF ~Finished THEN r ELSE IF worker.failed THEN Failed(r) ELSE Applied(r)
Launches(r) == (~worker.busy \/ Finished) /\ ~r.disabled /\ r.requests # {}

Tick(browsing) ==
  /\ setting.client # "none"
  /\ LET heard  == IF remote.listening /\ wire # <<>> THEN Handled(remote, Head(wire)) ELSE remote
         polled == Refreshed(IF browsing THEN Browsed(heard) ELSE heard)
     IN /\ remote' = IF Launches(polled) THEN [polled EXCEPT !.requests = {}] ELSE polled
        /\ worker' = CASE Launches(polled) -> [NoWorker EXCEPT !.busy = TRUE, !.asked = polled.requests]
                       [] Finished /\ ~Launches(polled) -> NoWorker
                       [] OTHER -> worker
        /\ IF remote.listening /\ ~heard.listening
           THEN wire' = <<>> /\ sse' = "off" /\ feed' = NoFeed
           ELSE /\ wire' = IF wire # <<>> THEN Tail(wire) ELSE wire
                /\ UNCHANGED <<sse, feed>>
  /\ ServerElse /\ UNCHANGED budget /\ UNCHANGED conn

(* Bound, of the next three: not while a connection is being served. *)
Unserved == conn[Stream].pc = "idle" /\ conn[Fetch].pc = "idle"

(* select_remote_server starts over. *)
SelectServer ==
  /\ setting.client # "none" /\ Lost("select") /\ Unserved
  /\ remote' = NewRemote /\ worker' = NoWorker /\ sse' = "connect" /\ wire' = <<>> /\ feed' = NoFeed
  /\ ServerElse /\ UNCHANGED conn

(* A new token resets the updater: the worker at work is let go. *)
SetToken ==
  /\ setting.client # "none" /\ Lost("reset") /\ Unserved
  /\ remote' = [remote EXCEPT !.failures = 0, !.disabled = FALSE] /\ worker' = NoWorker
  /\ ServerElse /\ UNCHANGED <<conn, feed, sse, wire>>

(* Removing another server does so too, and ends the event stream. *)
RemoveServer ==
  /\ setting.client # "none" /\ Lost("reset") /\ Unserved
  /\ remote' = [remote EXCEPT !.failures = 0, !.disabled = FALSE, !.listening = FALSE, !.page = Missing]
  /\ worker' = NoWorker /\ sse' = "off" /\ wire' = <<>> /\ feed' = NoFeed
  /\ ServerElse /\ UNCHANGED conn

Next ==
  \/ ServerNext /\ UNCHANGED client
  \/ Subscribe \/ SendState \/ SendNext \/ Disconnect
  \/ WorkerAsks \/ WorkerGets
  \/ \E browsing \in BOOLEAN : Tick(browsing)
  \/ SelectServer \/ SetToken \/ RemoveServer

Spec == Init /\ [][Next]_vars

-----------------------------------------------------------------------------
(* What the screen promises. *)

Quiet ==
  /\ \A c \in Conns : conn[c].pc = "idle"
  /\ feed.events = <<>> /\ ~feed.lagged /\ wire = <<>> /\ sse = "live"
  /\ ~worker.busy /\ remote.requests = {}
  /\ remote.listening /\ ~remote.disabled

(* Once everything has been delivered and refreshed, the screen shows what *)
(* the server plays: for a client that was following and has lost nothing. *)
InOrder ==
  /\ setting.client = "following" /\ setting.faults \subseteq {"database", "fetch"}
  /\ setting.capacity >= 2 * setting.budget
PlaybackFresh ==
  InOrder /\ setting.commands \cap {"add", "delete", "clear"} = {} /\ Quiet =>
    /\ remote.state.playing = (player.state = "playing")
    /\ remote.state.track = CurrentTrack(queue)

(* And the server's queue: what QueueChanged and the full refresh of a     *)
(* client that fell behind are there for.                                  *)
QueueFresh == Quiet => remote.queue.items = FlatTracks(queue)

(* A part to be refreshed stays wanted until refreshing is given up, or,   *)
(* once a worker was asked for it, until that worker delivers it or is     *)
(* lost: a wish that comes while a worker is at work outlives that worker, *)
(* whatever becomes of it.  Only a page may be taken from an older answer. *)
Wanted == remote.requests \cup worker.asked
WorkerLost == worker' \in {NoWorker, Died} /\ \E fault \in {"panic", "select", "reset"} : Lost(fault)
RequestsKept ==
  [][\A p \in {"state", "queue"} : p \notin Wanted' =>
       /\ p \in remote.requests => remote'.disabled
       /\ p \in worker.asked =>
            \/ \E a \in worker.got : a.kind = p /\ remote'[p] = a
            \/ remote'.disabled \/ WorkerLost]_vars

(* A page under the server's current library version, fetched or on the    *)
(* screen, shows the albums the server has.                                *)
PagesCurrent ==
  /\ IndexCurrent
  /\ remote.page # Missing => Current(remote.page)
  /\ \A a \in worker.got : a.kind = "page" => Current(a)
=============================================================================
