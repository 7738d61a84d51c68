---------------------------- MODULE PlayerServer ----------------------------
(***************************************************************************)
(* The headless server: crates/sotf-player/src/server/.  Connections, each *)
(* served by a thread of its own, run MPD and HTTP commands against shared *)
(* state behind separate mutexes (server_state.rs): the queue, the player  *)
(* and the library.  An MPD command holds all the locks it needs at once;  *)
(* an HTTP queue command changes the queue under its lock, lets go of it   *)
(* and takes the player afterwards.  What a command changed is broadcast   *)
(* after its locks are free, so events of two commands can change order.   *)
(*                                                                         *)
(* One step is what a thread does between two moments at which another     *)
(* thread can see a difference: taking a lock that is kept, everything     *)
(* done under the last lock together with its release, or one broadcast.   *)
(***************************************************************************)
EXTENDS QueueOps, FiniteSets

CONSTANTS
  Conns,      \* the connections
  Readers,    \* those whose answers a modelled client reads
  Nobody,     \* the owner of a free lock
  Albums,     \* the albums of the library, sequences of tracks
  MaxPosition, \* bound: the highest queue position a command names
  Settings    \* how the server is used, see IsSetting

Locks == {"queue", "player", "library"}
MpdMoves == {"play", "next", "previous"}
PlayerOnly == {"pause", "resume", "stop"}
MpdEdits == {"add", "delete", "clear"}
HttpEdits == {"http_add", "http_play", "http_delete", "http_clear", "http_jump"}
Reads == {"status", "items", "albums"}
Commands == MpdMoves \cup PlayerOnly \cup MpdEdits \cup HttpEdits \cup Reads \cup {"reload", "media"}

(* A setting names the commands in use, what can go wrong, the capacity of *)
(* the broadcast channel and, as bounds, the albums queued at the start,   *)
(* the number of commands begun and the connections that begin them.       *)
AllFaults == {"engine", "ends", "database", "fetch", "panic", "close", "break", "select", "reset"}
IsSetting(s) ==
  /\ s.commands \subseteq Commands /\ s.faults \subseteq AllFaults /\ s.conns \subseteq Conns
  /\ s.capacity \in Nat \ {0} /\ s.start \in Seq(Albums) /\ s.budget \in Nat
  /\ s.client \in {"none", "following", "new"}

ASSUME PlayerServerAssumption ==
  /\ IsFiniteSet(Conns) /\ Readers \subseteq Conns /\ Nobody \notin Conns
  /\ Albums \subseteq Seq(Tracks) \ {<<>>}
  /\ MaxPosition \in Nat \ {0}
  /\ \A s \in Settings : IsSetting(s)

VARIABLES
  setting,   \* the setting of this behaviour
  queue,     \* the queue
  version,   \* playlist_version
  player,    \* [state, track] of the engine behind the player
  library,   \* copy: the reading of the database whose albums are in memory, swap: how
             \* often they were replaced, version: library_version, reads: readings so far
  index,     \* the media source index: what it held of these at its last rebuild
  held,      \* the owner of each lock
  conn,      \* what each connection is doing
  budget,    \* commands still to begin
  feed,      \* the broadcast channel as its one subscriber sees it
  told,      \* the playlist versions broadcast so far
  unsaid     \* the playlist versions whose command failed before its broadcast
data == <<queue, version, player, library, index>>
history == <<told, unsaid>>
server == <<setting, data, held, conn, budget, feed, history>>

PlaybackChanged == [event |-> "playback"]
QueueChanged(v) == [event |-> "queue", version |-> v]
LibraryChanged == [event |-> "library"]
Event == [event : {"playback", "library"}] \cup [event : {"queue"}, version : Nat]

Versioned == [copy : Nat, swap : Nat, version : Nat]
Library == [copy : Nat, swap : Nat, version : Nat, reads : Nat]
AlbumsHeld(v) == [copy |-> library.copy, swap |-> library.swap, version |-> v]

NoAnswer == [kind |-> "none"]
Answer ==
  {NoAnswer}
  \cup [kind : {"state"}, playing : BOOLEAN, track : Tracks \cup {NoTrack}, version : Nat, library : Nat]
  \cup [kind : {"queue"}, items : Seq(Tracks)]
  \cup [kind : {"page"}, copy : Nat, swap : Nat, version : Nat]

Pcs == {"idle", "first", "found", "second", "player", "song", "count", "swap", "mark", "tell", "answered"}
Idle == [pc |-> "idle", cmd |-> "status", arg |-> 0, source |-> NoTrack,
         version |-> 0, tells |-> <<>>, answer |-> NoAnswer]
Conn == [pc : Pcs, cmd : Commands, arg : Nat, source : Tracks \cup {NoTrack},
         version : Nat, tells : Seq(Event), answer : Answer]

Off == [state |-> "stopped", track |-> NoTrack]

ServerTypeOK ==
  /\ setting \in Settings
  /\ queue \in Controller /\ version \in Nat
  /\ player \in {Off} \cup [state : {"playing", "paused"}, track : Tracks]
  /\ library \in Library /\ index \in Versioned
  /\ held \in [Locks -> Conns \cup {Nobody}]
  /\ conn \in [Conns -> Conn]
  /\ budget \in Nat
  /\ feed \in [open : BOOLEAN, events : Seq(Event), lagged : BOOLEAN]
  /\ told \subseteq Nat /\ unsaid \subseteq Nat

NoFeed == [open |-> FALSE, events |-> <<>>, lagged |-> FALSE]

ServerInit ==
  /\ setting \in Settings
  /\ queue = [EmptyController EXCEPT !.items = [i \in DOMAIN setting.start |-> NewItem(setting.start[i])]]
  /\ version = 0 /\ player = Off
  /\ library = [copy |-> 1, swap |-> 1, version |-> 1, reads |-> 1]
  /\ index = [copy |-> 0, swap |-> 0, version |-> 0]
  /\ held = [l \in Locks |-> Nobody]
  /\ conn = [c \in Conns |-> Idle]
  /\ budget = setting.budget
  /\ feed = [NoFeed EXCEPT !.open = setting.client = "following"]
  /\ told = {} /\ unsaid = {}

-----------------------------------------------------------------------------
(* Requests, locks and answers. *)

First(cmd) ==
  CASE cmd \in PlayerOnly \cup {"status"} -> "player"
    [] cmd \in {"add", "http_add", "http_play", "albums", "media", "reload"} -> "library"
    [] OTHER -> "queue"
(* Faulty: a move looks its track up in the library, the queue still held. *)
SecondLookingUp(cmd) == IF cmd = "status" \/ cmd = "add" THEN "queue" ELSE "library"
Second(cmd) == IF cmd = "status" \/ cmd = "add" THEN "queue" ELSE "player"
KeepsFirst(cmd) == cmd \in MpdMoves \cup {"status", "add"}

At(c, pc, cmds) == conn[c].pc = pc /\ conn[c].cmd \in cmds
Free(l) == held[l] = Nobody
Done(c) == conn' = [conn EXCEPT ![c] = Idle]

(* What is left of a command that changed something: its broadcasts. *)
Announce(c, v, events) ==
  conn' = [conn EXCEPT ![c] = [Idle EXCEPT !.pc = "tell", !.version = v, !.tells = events]]

Reply(c, answer) ==
  IF c \in Readers THEN conn' = [conn EXCEPT ![c] = [Idle EXCEPT !.pc = "answered", !.answer = answer]]
  ELSE Done(c)

(* api_media_source reads the library version before it takes the lock. *)
Asked(cmd, arg) ==
  [Idle EXCEPT !.pc = "first", !.cmd = cmd, !.arg = arg,
               !.version = IF cmd = "media" THEN library.version ELSE 0]

(* The queue positions a command can name; play also comes without one.  *)
Args(cmd) ==
  CASE cmd = "play"                                      -> 0..MaxPosition
    [] cmd \in {"delete", "http_delete", "http_jump"}    -> 1..MaxPosition
    [] OTHER                                             -> {0}

Begin(c, cmd, arg) ==
  /\ c \in setting.conns /\ cmd \in setting.commands /\ arg \in Args(cmd)
  /\ budget > 0 /\ budget' = budget - 1
  /\ conn[c].pc = "idle"
  /\ conn' = [conn EXCEPT ![c] = Asked(cmd, arg)]
  /\ UNCHANGED <<setting, data, held, feed, history>>

TakeFirst(c) ==
  /\ conn[c].pc = "first" /\ KeepsFirst(conn[c].cmd)
  /\ Free(First(conn[c].cmd))
  /\ held' = [held EXCEPT ![First(conn[c].cmd)] = c]
  /\ conn' = [conn EXCEPT ![c].pc = "second"]
  /\ UNCHANGED <<setting, data, budget, feed, history>>

(* The second lock is taken, and both are let go, within the step. *)
UnderBoth(c, cmds) ==
  /\ At(c, "second", cmds) /\ Free(Second(conn[c].cmd))
  /\ held' = [held EXCEPT ![First(conn[c].cmd)] = Nobody]
  /\ UNCHANGED <<setting, budget, feed>>

(* One lock, free again at the end of the step. *)
Briefly(c, pc, cmds, lock) ==
  /\ At(c, pc, cmds) /\ Free(lock)
  /\ UNCHANGED <<setting, held, budget, feed>>

UnderFirst(c, cmds) == Briefly(c, "first", cmds, First(conn[c].cmd))

(* An error of the player ends a command before its broadcast.  A load may *)
(* fail after it has stopped the engine, or because it cannot.             *)
Loads(t) == player' = [state |-> "playing", track |-> t]
Refuses == "engine" \in setting.faults /\ player' \in {player, Off}
Resumed == [player EXCEPT !.state = IF @ = "paused" THEN "playing" ELSE @]
Paused == [player EXCEPT !.state = IF @ = "playing" THEN "paused" ELSE @]

-----------------------------------------------------------------------------
(* Commands of the player adapter. *)

(* What play, next and previous do to the queue; `some` says whether they  *)
(* come back with a track.                                                 *)
Moved(cmd, arg) ==
  CASE cmd = "play" /\ arg # 0 ->
         IF arg \in DOMAIN queue.items THEN [queue |-> JumpTo(queue, arg), some |-> TRUE]
         ELSE [queue |-> queue, some |-> FALSE]
    [] cmd = "play" /\ arg = 0 ->
         IF queue.items # <<>> THEN [queue |-> JumpTo(queue, 1), some |-> TRUE]
         ELSE [queue |-> queue, some |-> FALSE]
    [] cmd = "next"     -> [queue |-> NextTrack(queue), some |-> ~AtEnd(queue)]
    [] cmd = "previous" -> [queue |-> PreviousTrack(queue), some |-> ~AtStart(queue)]

Move(c) ==
  /\ UnderBoth(c, MpdMoves)
  /\ LET m == Moved(conn[c].cmd, conn[c].arg)
         resumes == conn[c].cmd = "play" /\ conn[c].arg = 0 /\ queue.current # 0
     IN \/ /\ resumes /\ UNCHANGED queue
           /\ \/ player' = Resumed /\ Announce(c, 0, <<PlaybackChanged>>)
              \/ Refuses /\ Done(c)
        \/ /\ ~resumes /\ m.some
           /\ queue' = m.queue
           /\ \/ Loads(CurrentTrack(m.queue)) /\ Announce(c, 0, <<PlaybackChanged>>)
              \/ Refuses /\ Done(c)
        \/ /\ ~resumes /\ ~m.some /\ conn[c].cmd = "next"
           /\ queue' = m.queue
           /\ \/ player' = Off /\ Announce(c, 0, <<PlaybackChanged>>)
              \/ Refuses /\ Done(c)
        \/ /\ ~resumes /\ ~m.some /\ conn[c].cmd # "next"
           /\ UNCHANGED <<queue, player>> /\ Done(c)
  /\ UNCHANGED <<version, library, index, history>>

PauseResumeStop(c) ==
  /\ UnderFirst(c, PlayerOnly)
  /\ \/ /\ player' = CASE conn[c].cmd = "pause"  -> Paused
                       [] conn[c].cmd = "resume" -> Resumed
                       [] conn[c].cmd = "stop"   -> Off
        /\ Announce(c, 0, <<PlaybackChanged>>)
     \/ Refuses /\ Done(c)
  /\ UNCHANGED <<queue, version, library, index, history>>

(* The queue gets the next version while its lock is held. *)
Edits(c, q) ==
  /\ queue' = q /\ version' = version + 1
  /\ UNCHANGED <<player, library, index, history>>

(* Faulty: announces the version from before the edit. *)
AnnouncedBefore(c) == Announce(c, version, <<QueueChanged(version)>>)
Announced(c) == Announce(c, version', <<QueueChanged(version')>>)

(* The album is looked up in the library, which add keeps for the queue.   *)
(* One that is not found ends the command.                                 *)
LookUp(c) ==
  /\ UnderFirst(c, {"add", "http_add", "http_play"})
  /\ \/ Done(c)
     \/ conn[c].cmd # "add" /\ conn' = [conn EXCEPT ![c].pc = "found"]
  /\ UNCHANGED <<data, history>>

Add(c) ==
  /\ UnderBoth(c, {"add"})
  /\ \E album \in Albums : Edits(c, AddAlbum(queue, album))
  /\ Announced(c)

(* Queue::remove answers whether the current album went; the adapter takes *)
(* anything else, an album that was removed included, for a bad position.  *)
Delete(c) ==
  /\ UnderFirst(c, {"delete"})
  /\ IF conn[c].arg \in DOMAIN queue.items /\ conn[c].arg = queue.current
     THEN Edits(c, RemoveAlbum(queue, conn[c].arg)) /\ Announced(c)
     ELSE /\ queue' = IF conn[c].arg \in DOMAIN queue.items THEN RemoveAlbum(queue, conn[c].arg) ELSE queue
          /\ Done(c) /\ UNCHANGED <<version, player, library, index, history>>

Clear(c) ==
  /\ UnderFirst(c, {"clear"})
  /\ Edits(c, EmptyController) /\ Announced(c)

-----------------------------------------------------------------------------
(* HTTP queue commands: the queue first, the player in a step of its own. *)

ThenPlayer(c, source, v, events) ==
  conn' = [conn EXCEPT ![c].pc = "player", ![c].source = source, ![c].version = v, ![c].tells = events]

HttpAdd(c) ==
  /\ Briefly(c, "found", {"http_add", "http_play"}, "queue")
  /\ \E album \in Albums :
       LET added == AddAlbum(queue, album)
           plays == conn[c].cmd = "http_play"
       IN /\ Edits(c, IF plays THEN JumpTo(added, Len(added.items)) ELSE added)
          /\ IF plays
             THEN ThenPlayer(c, CurrentTrack(queue'), version', <<PlaybackChanged, QueueChanged(version')>>)
             ELSE Announced(c)

HttpClear(c) ==
  /\ UnderFirst(c, {"http_clear"})
  /\ Edits(c, EmptyController)
  /\ ThenPlayer(c, NoTrack, version', <<PlaybackChanged, QueueChanged(version')>>)

HttpDelete(c) ==
  /\ UnderFirst(c, {"http_delete"})
  /\ IF conn[c].arg \in DOMAIN queue.items
     THEN /\ Edits(c, RemoveAlbum(queue, conn[c].arg))
          /\ IF conn[c].arg = queue.current
             THEN ThenPlayer(c, CurrentTrack(queue'), version', <<PlaybackChanged, QueueChanged(version')>>)
             ELSE Announced(c)
     ELSE Done(c) /\ UNCHANGED <<data, history>>

HttpJump(c) ==
  /\ UnderFirst(c, {"http_jump"})
  /\ IF conn[c].arg \in DOMAIN queue.items
     THEN /\ queue' = JumpTo(queue, conn[c].arg)
          /\ ThenPlayer(c, CurrentTrack(queue'), 0, <<PlaybackChanged>>)
     ELSE Done(c) /\ UNCHANGED queue
  /\ UNCHANGED <<version, player, library, index, history>>

(* An error of the player ends the command: nothing it did is broadcast. *)
UsePlayer(c) ==
  /\ Briefly(c, "player", HttpEdits, "player")
  /\ \/ /\ IF conn[c].source = NoTrack THEN player' = Off ELSE Loads(conn[c].source)
        /\ Announce(c, conn[c].version, conn[c].tells)
        /\ UNCHANGED unsaid
     \/ /\ Refuses /\ Done(c)
        /\ unsaid' = unsaid \cup ({conn[c].version} \ {0})
  /\ UNCHANGED <<queue, version, library, index, told>>

-----------------------------------------------------------------------------
(* Reading. *)

Status ==
  [kind |-> "state", playing |-> player.state = "playing", track |-> CurrentTrack(queue),
   version |-> version, library |-> library.version]

(* status() holds the player while it waits for the queue. *)
ReadStatus(c) ==
  /\ UnderBoth(c, {"status"})
  /\ conn' = [conn EXCEPT ![c].pc = "song", ![c].answer = Status]
  /\ UNCHANGED <<data, history>>

(* current_song() takes the queue anew. *)
ReadSong(c) ==
  /\ Briefly(c, "song", {"status"}, "queue")
  /\ conn' = [conn EXCEPT ![c].pc = "count", ![c].answer = [@ EXCEPT !.track = CurrentTrack(queue)]]
  /\ UNCHANGED <<data, history>>

(* api_state_json counts the albums and reads the library version last. *)
CountLibrary(c) ==
  /\ Briefly(c, "count", {"status"}, "library")
  /\ Reply(c, [conn[c].answer EXCEPT !.library = library.version])
  /\ UNCHANGED <<data, history>>

ReadItems(c) ==
  /\ UnderFirst(c, {"items"})
  /\ Reply(c, [kind |-> "queue", items |-> FlatTracks(queue)])
  /\ UNCHANGED <<data, history>>

ReadAlbums(c) ==
  /\ UnderFirst(c, {"albums"})
  /\ Reply(c, [kind |-> "page", copy |-> library.copy, swap |-> library.swap, version |-> library.version])
  /\ UNCHANGED <<data, history>>

(* MediaSourceIndex::lookup, with the version read before the lock. *)
LookupMedia(c) ==
  /\ UnderFirst(c, {"media"})
  /\ index' = IF index.version = conn[c].version THEN index
              ELSE AlbumsHeld(conn[c].version)
  /\ Done(c)
  /\ UNCHANGED <<queue, version, player, library, history>>

-----------------------------------------------------------------------------
(* Reloading the library: read the database, without any lock, swap the    *)
(* albums in under the lock, then mark them changed.  Reloads may overlap: *)
(* a request to reload does not ask whether a scan is about to.            *)

ReadDatabase(c) ==
  /\ At(c, "first", {"reload"})
  /\ \/ /\ library' = [library EXCEPT !.reads = @ + 1]
        /\ conn' = [conn EXCEPT ![c] = [@ EXCEPT !.pc = "swap", !.version = library'.reads]]
     \/ "database" \in setting.faults /\ Done(c) /\ UNCHANGED library
  /\ UNCHANGED <<setting, queue, version, player, index, held, budget, feed, history>>

(* Faulty: the change is not marked. *)
SwapUnmarked(c) ==
  /\ Briefly(c, "swap", {"reload"}, "library")
  /\ library' = [library EXCEPT !.copy = conn[c].version, !.swap = @ + 1]
  /\ Done(c)
  /\ UNCHANGED <<queue, version, player, index, history>>

Swap(c) ==
  /\ Briefly(c, "swap", {"reload"}, "library")
  /\ library' = [library EXCEPT !.copy = conn[c].version, !.swap = @ + 1]
  /\ conn' = [conn EXCEPT ![c].pc = "mark"]
  /\ UNCHANGED <<queue, version, player, index, history>>

Mark(c) ==
  /\ At(c, "mark", {"reload"})
  /\ library' = [library EXCEPT !.version = @ + 1]
  /\ Announce(c, 0, <<LibraryChanged>>)
  /\ UNCHANGED <<setting, queue, version, player, index, held, budget, feed, history>>

-----------------------------------------------------------------------------
(* The broadcast channel: nobody subscribed, nothing kept; full, the       *)
(* oldest event makes room and the subscriber is told it fell behind.      *)

Sent(f, e) ==
  CASE ~f.open -> f
    [] f.open /\ Len(f.events) < setting.capacity -> [f EXCEPT !.events = Append(@, e)]
    [] OTHER -> [f EXCEPT !.events = Append(Tail(@), e), !.lagged = TRUE]

Tell(c) ==
  /\ conn[c].pc = "tell"
  /\ LET e == Head(conn[c].tells)
         rest == Tail(conn[c].tells)
     IN /\ feed' = Sent(feed, e)
        /\ told' = IF e.event = "queue" THEN told \cup {e.version} ELSE told
        /\ IF rest = <<>> THEN Done(c) ELSE conn' = [conn EXCEPT ![c].tells = rest]
  /\ UNCHANGED <<setting, data, held, budget, unsaid>>

(* The engine reaches the end of its track; the server notices nothing. *)
TrackEnds ==
  /\ "ends" \in setting.faults /\ player.state = "playing"
  /\ player' = Off
  /\ UNCHANGED <<setting, queue, version, library, index, held, conn, budget, feed, history>>

Serve(c) ==
  \/ TakeFirst(c) \/ Move(c) \/ PauseResumeStop(c)
  \/ LookUp(c) \/ Add(c) \/ Delete(c) \/ Clear(c)
  \/ HttpAdd(c) \/ HttpClear(c) \/ HttpDelete(c) \/ HttpJump(c) \/ UsePlayer(c)
  \/ ReadStatus(c) \/ ReadSong(c) \/ CountLibrary(c) \/ ReadItems(c) \/ ReadAlbums(c) \/ LookupMedia(c)
  \/ ReadDatabase(c) \/ Swap(c) \/ Mark(c) \/ Tell(c)

ServerNext ==
  \/ \E c \in Conns, cmd \in Commands, arg \in 0..MaxPosition : Begin(c, cmd, arg)
  \/ \E c \in Conns : Serve(c)
  \/ TrackEnds

(* parking_lot hands a contended lock over now and then, so a thread that  *)
(* waits for a lock that keeps coming free gets it.                        *)
ServerSpec == ServerInit /\ [][ServerNext]_server /\ \A c \in Conns : SF_server(Serve(c))

-----------------------------------------------------------------------------
(* What the server promises. *)

(* play, next and previous hold the queue and wait for the player; status  *)
(* holds the player and waits for the queue.                               *)
CircularWait == held["queue"] # Nobody /\ held["player"] # Nobody

(* Every command is answered, unless a queue-first and a player-first      *)
(* command wait for each other: there is no other way to get stuck.        *)
Waiting(c) == conn[c].pc \notin {"idle", "answered"}
Answered == \A c \in Conns : Waiting(c) ~> (~Waiting(c) \/ CircularWait)

(* Every playlist version is broadcast, about to be, or belongs to a       *)
(* command the player refused: an edit is never silently unannounced.      *)
Untold ==
  {conn[c].version : c \in {d \in Conns : /\ conn[d].pc \in {"player", "tell"}
                                          /\ QueueChanged(conn[d].version) \in Range(conn[d].tells)}}
VersionsAccounted ==
  /\ told \cup unsaid \cup Untold = 1..version
  /\ unsaid # {} => "engine" \in setting.faults

(* A cached answer under the current library version has the albums that   *)
(* are in memory: the media index, which takes the version before the lock *)
(* and the albums after it, and every page sent out.  Not while a reload   *)
(* is between its swap and its mark, and which reading of the database is  *)
(* in memory depends on the order of the swaps alone.                      *)
Marking == {c \in Conns : conn[c].pc = "mark"}
Current(x) == Marking = {} /\ x.version = library.version => x.copy = library.copy
IndexCurrent ==
  /\ Current(index)
  /\ \A c \in Conns : conn[c].answer.kind = "page" => Current(conn[c].answer)
=============================================================================
