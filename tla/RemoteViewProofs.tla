-------------------------- MODULE RemoteViewProofs --------------------------
(***************************************************************************)
(* Proofs about PlayerServer, alone and with the remote screen of          *)
(* RemoteView attached, for any number of connections, any library, any    *)
(* settings and any number of commands and reloads.                        *)
(*                                                                         *)
(* First the playlist versions of the server.  Shape says what a           *)
(* connection's record looks like, Broadcasting what a command has still   *)
(* to say, and Accounted where every version is.  Then cached copies, what *)
(* the screen holds and wishes, the types of server and screen, with what  *)
(* each command does to the queue, and last that the screen shows what     *)
(* plays.                                                                  *)
(***************************************************************************)
EXTENDS RemoteView, QueueLemmas, FiniteSetTheorems, SequenceTheorems, TLAPS

Fields == {"pc", "cmd", "arg", "source", "version", "tells", "answer"}

Shape ==
  /\ DOMAIN conn = Conns
  /\ held \in [Locks -> Conns \cup {Nobody}]
  /\ version \in Nat /\ library \in Library
  /\ \A c \in Conns : /\ DOMAIN conn[c] = Fields
                      /\ conn[c].pc \in Pcs /\ conn[c].cmd \in Commands /\ conn[c].version \in Nat

Speaking(c) == conn[c].pc \in {"player", "tell"}

(* What a command can have to say, and under which version. *)
MaySay(pc, v, tells) ==
  \/ tells = <<PlaybackChanged>> /\ v = 0
  \/ tells = <<LibraryChanged>> /\ v = 0 /\ pc = "tell"
  \/ tells = <<QueueChanged(v)>> /\ v > 0 /\ pc = "tell"
  \/ tells = <<PlaybackChanged, QueueChanged(v)>> /\ v > 0

Broadcasting == \A c \in Conns : Speaking(c) => MaySay(conn[c].pc, conn[c].version, conn[c].tells)

Accounted == told \cup unsaid \cup Untold = 1..version
Excused == unsaid # {} => "engine" \in setting.faults

IInv == Shape /\ Broadcasting /\ Accounted /\ Excused

-----------------------------------------------------------------------------
(* The connections with a version to announce, read off their versions. *)

LEMMA Saying ==
  ASSUME NEW v \in Nat, NEW pc, NEW tells, MaySay(pc, v, tells)
  PROVE  QueueChanged(v) \in Range(tells) <=> v > 0
<1>1. \A x, y : Range(<<x>>) = {x} /\ Range(<<x, y>>) = {x, y}
  BY DEF Range
<1>2. QueueChanged(v).event = "queue" /\ PlaybackChanged.event = "playback" /\ LibraryChanged.event = "library"
  BY DEF QueueChanged, PlaybackChanged, LibraryChanged
<1>3. QED
  BY <1>1, <1>2, "playback" # "queue", "library" # "queue" DEF MaySay

UntoldRead == Untold = {conn[c].version : c \in {d \in Conns : Speaking(d) /\ conn[d].version > 0}}

LEMMA UntoldIs == Shape /\ Broadcasting => UntoldRead
<1> SUFFICES ASSUME Shape, Broadcasting PROVE UntoldRead
  OBVIOUS
<1>1. \A d \in Conns : Speaking(d) =>
         (QueueChanged(conn[d].version) \in Range(conn[d].tells) <=> conn[d].version > 0)
  BY Saying DEF Shape, Broadcasting
<1>2. QED
  BY <1>1 DEF Untold, Speaking, UntoldRead

-----------------------------------------------------------------------------
(* The three ways a step can change one connection c and nobody else's:    *)
(* it has nothing to say, it has committed a new playlist version, or it   *)
(* has something to say that is no playlist version.                       *)

Changes(c) ==
  /\ DOMAIN conn' = Conns /\ \A d \in Conns \ {c} : conn'[d] = conn[d]
  /\ DOMAIN conn'[c] = Fields
  /\ conn'[c].pc \in Pcs \ {"second"} /\ conn'[c].cmd \in Commands /\ conn'[c].version \in Nat
  /\ library' \in Library /\ setting' = setting

Releases(c) ==
  held' = IF conn[c].pc = "second" THEN [held EXCEPT ![First(conn[c].cmd)] = Nobody] ELSE held

Silent(c) ==
  /\ Changes(c) /\ Releases(c) /\ ~Speaking(c)
  /\ conn'[c].pc \notin {"player", "tell"}
  /\ UNCHANGED <<version, told, unsaid>>

Commits(c) ==
  /\ Changes(c) /\ Releases(c) /\ ~Speaking(c)
  /\ version' = version + 1 /\ conn'[c].version = version'
  /\ conn'[c].pc \in {"player", "tell"} /\ MaySay(conn'[c].pc, conn'[c].version, conn'[c].tells)
  /\ UNCHANGED <<told, unsaid>>

Says(c) ==
  /\ Changes(c) /\ Releases(c) /\ ~Speaking(c)
  /\ conn'[c].pc \in {"player", "tell"} /\ MaySay(conn'[c].pc, 0, conn'[c].tells)
  /\ conn'[c].version = 0
  /\ UNCHANGED <<version, told, unsaid>>

Own(c) == IF Speaking(c) /\ conn[c].version > 0 THEN {conn[c].version} ELSE {}

LEMMA UntoldMoves ==
  ASSUME NEW c \in Conns, Shape, Shape', Broadcasting, Broadcasting',
         \A d \in Conns \ {c} : conn'[d] = conn[d]
  PROVE  /\ Untold \subseteq Untold' \cup Own(c) /\ Untold' \subseteq Untold \cup Own(c)'
         /\ Own(c) \subseteq Untold /\ Own(c)' \subseteq Untold'
<1>1. UntoldRead
  BY UntoldIs
<1>2. UntoldRead'
  <2>1. (Shape /\ Broadcasting => UntoldRead)'
    BY UntoldIs, PTL
  <2>2. QED
    BY <2>1
<1>3. QED
  BY <1>1, <1>2 DEF UntoldRead, Own, Speaking

LEMMA ShapeKeeps ==
  ASSUME NEW c \in Conns, IInv, Changes(c), Releases(c), version' \in Nat
  PROVE  Shape'
BY DEF IInv, Shape, Changes, Releases

LEMMA SilentKeeps ==
  ASSUME NEW c \in Conns, IInv, Silent(c)
  PROVE  IInv'
<1>1. Shape'
  BY ShapeKeeps DEF Silent, IInv, Shape
<1>2. Broadcasting'
  BY DEF IInv, Silent, Changes, Broadcasting, Speaking
<1>3. Own(c) = {} /\ Own(c)' = {}
  BY DEF Own, Silent, Speaking
<1>4. Untold' = Untold
  BY <1>1, <1>2, <1>3, UntoldMoves DEF IInv, Silent, Changes
<1>5. Accounted' /\ Excused'
  BY <1>4 DEF IInv, Accounted, Excused, Silent, Changes
<1>6. QED
  BY <1>1, <1>2, <1>5 DEF IInv

LEMMA CommitsKeeps ==
  ASSUME NEW c \in Conns, IInv, Commits(c)
  PROVE  IInv'
<1>1. version \in Nat /\ version' = version + 1
  BY DEF IInv, Shape, Commits
<1>2. Shape'
  BY <1>1, ShapeKeeps DEF Commits
<1>3. Broadcasting'
  BY DEF IInv, Commits, Changes, Broadcasting, Speaking
<1>4. Own(c) = {} /\ Own(c)' = {version + 1}
  BY <1>1 DEF Own, Commits, Speaking
<1>5. Untold' = Untold \cup {version + 1}
  BY <1>2, <1>3, <1>4, UntoldMoves DEF IInv, Commits, Changes
<1>6. 1..version' = (1..version) \cup {version + 1}
  BY <1>1
<1>7. Accounted' /\ Excused'
  BY <1>5, <1>6 DEF IInv, Accounted, Excused, Commits, Changes
<1>8. QED
  BY <1>2, <1>3, <1>7 DEF IInv

LEMMA SaysKeeps ==
  ASSUME NEW c \in Conns, IInv, Says(c)
  PROVE  IInv'
<1>1. Shape'
  BY ShapeKeeps DEF Says, IInv, Shape
<1>2. Broadcasting'
  BY DEF IInv, Says, Changes, Broadcasting, Speaking
<1>3. Own(c) = {} /\ Own(c)' = {}
  BY DEF Own, Says, Speaking
<1>4. Untold' = Untold
  BY <1>1, <1>2, <1>3, UntoldMoves DEF IInv, Says, Changes
<1>5. Accounted' /\ Excused'
  BY <1>4 DEF IInv, Accounted, Excused, Says, Changes
<1>6. QED
  BY <1>1, <1>2, <1>5 DEF IInv
-----------------------------------------------------------------------------
(* Each action is one of the three, but for taking a first lock, using the *)
(* player after the queue, and broadcasting.                               *)

LEMMA IdleFacts ==
  /\ DOMAIN Idle = Fields /\ Idle.pc = "idle" /\ Idle.cmd = "status" /\ Idle.version = 0
  /\ Idle.cmd \in Commands
BY DEF Idle, Fields, Commands, Reads

LEMMA DoneIsSilent ==
  ASSUME NEW c \in Conns, IInv, Done(c), Releases(c), ~Speaking(c),
         UNCHANGED <<setting, version, told, unsaid>>, library' \in Library
  PROVE  Silent(c)
<1>1. DOMAIN conn' = Conns /\ conn'[c] = Idle /\ \A d \in Conns \ {c} : conn'[d] = conn[d]
  BY DEF Done, IInv, Shape
<1>2. QED
  BY <1>1, IdleFacts DEF Silent, Changes, Pcs

LEMMA ReplyIsSilent ==
  ASSUME NEW c \in Conns, NEW a, IInv, Reply(c, a), Releases(c), ~Speaking(c),
         UNCHANGED <<setting, version, told, unsaid, library>>
  PROVE  Silent(c)
<1> DEFINE r == [Idle EXCEPT !.pc = "answered", !.answer = a]
<1>1. CASE c \in Readers
  <2>1. conn' = [conn EXCEPT ![c] = r]
    BY <1>1 DEF Reply
  <2>2. DOMAIN r = Fields /\ r.pc = "answered" /\ r.cmd = "status" /\ r.version = 0
    BY DEF Idle, Fields
  <2> HIDE DEF r
  <2>3. DOMAIN conn' = Conns /\ conn'[c] = r /\ \A d \in Conns \ {c} : conn'[d] = conn[d]
    BY <2>1 DEF IInv, Shape
  <2>4. QED
    BY <2>2, <2>3, IdleFacts DEF Silent, Changes, Pcs, IInv, Shape
<1>2. CASE c \notin Readers
  BY <1>2, DoneIsSilent DEF Reply, IInv, Shape
<1>3. QED
  BY <1>1, <1>2

LEMMA AnnounceIsSaying ==
  ASSUME NEW c \in Conns, NEW events, IInv, Announce(c, 0, events), Releases(c), ~Speaking(c),
         events \in {<<PlaybackChanged>>, <<LibraryChanged>>},
         UNCHANGED <<setting, version, told, unsaid>>, library' \in Library
  PROVE  Says(c)
<1> DEFINE r == [Idle EXCEPT !.pc = "tell", !.version = 0, !.tells = events]
<1>1. conn' = [conn EXCEPT ![c] = r]
  BY DEF Announce
<1>2. DOMAIN r = Fields /\ r.pc = "tell" /\ r.cmd = "status" /\ r.version = 0 /\ r.tells = events
  BY DEF Idle, Fields
<1> HIDE DEF r
<1>3. MaySay("tell", 0, events)
  BY DEF MaySay
<1>4. DOMAIN conn' = Conns /\ conn'[c] = r /\ \A d \in Conns \ {c} : conn'[d] = conn[d]
  BY <1>1 DEF IInv, Shape
<1>5. QED
  BY <1>2, <1>3, <1>4, IdleFacts DEF Says, Changes, Pcs

LEMMA AnnouncedIsCommit ==
  ASSUME NEW c \in Conns, NEW q, IInv, Edits(c, q), Announced(c), Releases(c), ~Speaking(c),
         UNCHANGED setting
  PROVE  Commits(c)
<1> DEFINE r == [Idle EXCEPT !.pc = "tell", !.version = version', !.tells = <<QueueChanged(version')>>]
<1>0. version \in Nat /\ version' = version + 1 /\ library' = library /\ told' = told /\ unsaid' = unsaid
  BY DEF Edits, IInv, Shape, history
<1>1. conn' = [conn EXCEPT ![c] = r]
  BY DEF Announced, Announce
<1>2. DOMAIN r = Fields /\ r.pc = "tell" /\ r.cmd = "status" /\ r.version = version'
        /\ r.tells = <<QueueChanged(version')>>
  BY DEF Idle, Fields
<1> HIDE DEF r
<1>3. MaySay("tell", version', r.tells)
  BY <1>0, <1>2 DEF MaySay
<1>4. DOMAIN conn' = Conns /\ conn'[c] = r /\ \A d \in Conns \ {c} : conn'[d] = conn[d]
  BY <1>1 DEF IInv, Shape
<1>5. QED
  BY <1>0, <1>2, <1>3, <1>4, IdleFacts DEF Commits, Changes, Pcs, IInv, Shape

(* The record of a command that goes on with the player. *)
LEMMA ThenPlayerFacts ==
  ASSUME NEW c \in Conns, NEW source, NEW v, NEW events, IInv, ThenPlayer(c, source, v, events)
  PROVE  /\ DOMAIN conn' = Conns /\ \A d \in Conns \ {c} : conn'[d] = conn[d]
         /\ DOMAIN conn'[c] = Fields /\ conn'[c].pc = "player" /\ conn'[c].cmd = conn[c].cmd
         /\ conn'[c].version = v /\ conn'[c].tells = events
<1> DEFINE r == [conn[c] EXCEPT !.pc = "player", !.source = source, !.version = v, !.tells = events]
<1>1. conn' = [conn EXCEPT ![c] = r]
  BY DEF ThenPlayer, IInv, Shape
<1>2. DOMAIN conn[c] = Fields
  BY DEF IInv, Shape
<1>3. DOMAIN r = Fields /\ r.pc = "player" /\ r.cmd = conn[c].cmd /\ r.version = v /\ r.tells = events
  BY <1>2 DEF Fields
<1> HIDE DEF r
<1>4. QED
  BY <1>1, <1>3 DEF IInv, Shape

LEMMA ThenPlayerIsCommit ==
  ASSUME NEW c \in Conns, NEW q, NEW source, IInv, Edits(c, q), Releases(c), ~Speaking(c),
         ThenPlayer(c, source, version', <<PlaybackChanged, QueueChanged(version')>>),
         UNCHANGED setting
  PROVE  Commits(c)
<1>1. version \in Nat /\ version' = version + 1 /\ library' = library /\ told' = told /\ unsaid' = unsaid
  BY DEF Edits, IInv, Shape, history
<1>2. MaySay("player", version', <<PlaybackChanged, QueueChanged(version')>>)
  BY <1>1 DEF MaySay
<1>3. QED
  BY <1>1, <1>2, ThenPlayerFacts DEF Commits, Changes, Pcs, IInv, Shape
-----------------------------------------------------------------------------
(* The actions. *)

LEMMA LockUse ==
  ASSUME NEW c \in Conns, NEW cmds, NEW pc \in {"first", "found", "player", "song", "count", "swap"}, NEW l,
         UnderBoth(c, cmds) \/ UnderFirst(c, cmds) \/ Briefly(c, pc, cmds, l)
  PROVE  /\ Releases(c) /\ UNCHANGED setting /\ conn[c].cmd \in cmds
         /\ UnderBoth(c, cmds) \/ UnderFirst(c, cmds) => ~Speaking(c)
         /\ Briefly(c, pc, cmds, l) /\ pc # "player" => ~Speaking(c)
BY DEF UnderBoth, UnderFirst, Briefly, At, Releases, Speaking

(* A command goes on with nothing to say. *)
LEMMA GoesOnIsSilent ==
  ASSUME NEW c \in Conns, NEW r, IInv, conn' = [conn EXCEPT ![c] = r], Releases(c), ~Speaking(c),
         DOMAIN r = Fields, r.pc \in Pcs \ {"second", "player", "tell"}, r.cmd \in Commands, r.version \in Nat,
         UNCHANGED <<setting, version, told, unsaid>>, library' \in Library
  PROVE  IInv'
<1>1. DOMAIN conn' = Conns /\ conn'[c] = r /\ \A d \in Conns \ {c} : conn'[d] = conn[d]
  BY DEF IInv, Shape
<1>2. Silent(c)
  BY <1>1 DEF Silent, Changes
<1>3. QED
  BY <1>2, SilentKeeps

LEMMA MoveKeeps ==
  ASSUME NEW c \in Conns, IInv, Move(c)
  PROVE  IInv'
<1>1. Releases(c) /\ ~Speaking(c) /\ UNCHANGED <<setting, version, library, told, unsaid>>
  BY LockUse DEF Move, history
<1>2. Announce(c, 0, <<PlaybackChanged>>) \/ Done(c)
  BY DEF Move
<1>3. library' \in Library
  BY <1>1 DEF IInv, Shape
<1>4. CASE Announce(c, 0, <<PlaybackChanged>>)
  BY <1>1, <1>3, <1>4, AnnounceIsSaying, SaysKeeps
<1>5. CASE Done(c)
  BY <1>1, <1>3, <1>5, DoneIsSilent, SilentKeeps
<1>6. QED
  BY <1>2, <1>4, <1>5

LEMMA PauseResumeStopKeeps ==
  ASSUME NEW c \in Conns, IInv, PauseResumeStop(c)
  PROVE  IInv'
<1>1. Releases(c) /\ ~Speaking(c) /\ UNCHANGED <<setting, version, library, told, unsaid>>
  BY LockUse DEF PauseResumeStop, history
<1>2. (Announce(c, 0, <<PlaybackChanged>>) \/ Done(c)) /\ library' \in Library
  BY <1>1 DEF PauseResumeStop, IInv, Shape
<1>3. CASE Announce(c, 0, <<PlaybackChanged>>)
  BY <1>1, <1>2, <1>3, AnnounceIsSaying, SaysKeeps
<1>4. CASE Done(c)
  BY <1>1, <1>2, <1>4, DoneIsSilent, SilentKeeps
<1>5. QED
  BY <1>2, <1>3, <1>4

LEMMA LookUpKeeps ==
  ASSUME NEW c \in Conns, IInv, LookUp(c)
  PROVE  IInv'
<1> DEFINE r == [conn[c] EXCEPT !.pc = "found"]
<1>1. Releases(c) /\ ~Speaking(c) /\ UNCHANGED <<setting, version, library, told, unsaid>>
  BY LockUse DEF LookUp, data, history
<1>2. library' \in Library
  BY <1>1 DEF IInv, Shape
<1>3. CASE Done(c)
  BY <1>1, <1>2, <1>3, DoneIsSilent, SilentKeeps
<1>4. CASE conn' = [conn EXCEPT ![c].pc = "found"]
  <2>1. conn' = [conn EXCEPT ![c] = r]
    BY <1>4 DEF IInv, Shape
  <2>2. /\ DOMAIN r = Fields /\ r.pc = "found" /\ r.cmd = conn[c].cmd /\ r.version = conn[c].version
        /\ conn[c].cmd \in Commands /\ conn[c].version \in Nat
    BY DEF IInv, Shape, Fields
  <2> HIDE DEF r
  <2>3. QED
    BY <1>1, <1>2, <2>1, <2>2, GoesOnIsSilent DEF Pcs
<1>5. QED
  BY <1>3, <1>4 DEF LookUp

LEMMA AddKeeps ==
  ASSUME NEW c \in Conns, IInv, Add(c)
  PROVE  IInv'
<1>1. PICK album \in Albums : Edits(c, AddAlbum(queue, album))
  BY DEF Add
<1>2. Releases(c) /\ ~Speaking(c) /\ UNCHANGED setting /\ Announced(c)
  BY LockUse DEF Add
<1>3. QED
  BY <1>1, <1>2, AnnouncedIsCommit, CommitsKeeps

LEMMA DeleteKeeps ==
  ASSUME NEW c \in Conns, IInv, Delete(c)
  PROVE  IInv'
<1>1. Releases(c) /\ ~Speaking(c) /\ UNCHANGED setting
  BY LockUse DEF Delete
<1>2. \/ Edits(c, RemoveAlbum(queue, conn[c].arg)) /\ Announced(c)
      \/ Done(c) /\ UNCHANGED <<version, library, told, unsaid>>
  BY DEF Delete, history
<1>3. CASE Edits(c, RemoveAlbum(queue, conn[c].arg)) /\ Announced(c)
  BY <1>1, <1>3, AnnouncedIsCommit, CommitsKeeps
<1>4. CASE Done(c) /\ UNCHANGED <<version, library, told, unsaid>>
  <2>1. library' \in Library
    BY <1>4 DEF IInv, Shape
  <2>2. QED
    BY <1>1, <1>4, <2>1, DoneIsSilent, SilentKeeps
<1>5. QED
  BY <1>2, <1>3, <1>4

LEMMA ClearKeeps ==
  ASSUME NEW c \in Conns, IInv, Clear(c)
  PROVE  IInv'
<1>1. Releases(c) /\ ~Speaking(c) /\ UNCHANGED setting /\ Edits(c, EmptyController) /\ Announced(c)
  BY LockUse DEF Clear
<1>2. QED
  BY <1>1, AnnouncedIsCommit, CommitsKeeps

LEMMA HttpAddKeeps ==
  ASSUME NEW c \in Conns, IInv, HttpAdd(c)
  PROVE  IInv'
<1>1. Releases(c) /\ ~Speaking(c) /\ UNCHANGED setting
  BY LockUse DEF HttpAdd
<1>2. PICK q : /\ Edits(c, q)
               /\ \/ ThenPlayer(c, CurrentTrack(queue'), version', <<PlaybackChanged, QueueChanged(version')>>)
                  \/ Announced(c)
  BY DEF HttpAdd
<1>3. CASE Announced(c)
  BY <1>1, <1>2, <1>3, AnnouncedIsCommit, CommitsKeeps
<1>4. CASE ThenPlayer(c, CurrentTrack(queue'), version', <<PlaybackChanged, QueueChanged(version')>>)
  BY <1>1, <1>2, <1>4, ThenPlayerIsCommit, CommitsKeeps
<1>5. QED
  BY <1>2, <1>3, <1>4

LEMMA HttpClearKeeps ==
  ASSUME NEW c \in Conns, IInv, HttpClear(c)
  PROVE  IInv'
<1>1. /\ Releases(c) /\ ~Speaking(c) /\ UNCHANGED setting /\ Edits(c, EmptyController)
      /\ ThenPlayer(c, NoTrack, version', <<PlaybackChanged, QueueChanged(version')>>)
  BY LockUse DEF HttpClear
<1>2. QED
  BY <1>1, ThenPlayerIsCommit, CommitsKeeps

LEMMA HttpDeleteKeeps ==
  ASSUME NEW c \in Conns, IInv, HttpDelete(c)
  PROVE  IInv'
<1> DEFINE q == RemoveAlbum(queue, conn[c].arg)
<1>1. Releases(c) /\ ~Speaking(c) /\ UNCHANGED setting
  BY LockUse DEF HttpDelete
<1>2. \/ Edits(c, q) /\ ThenPlayer(c, CurrentTrack(queue'), version', <<PlaybackChanged, QueueChanged(version')>>)
      \/ Edits(c, q) /\ Announced(c)
      \/ Done(c) /\ UNCHANGED <<version, library, told, unsaid>>
  BY DEF HttpDelete, history, data
<1>3. CASE Edits(c, q) /\ Announced(c)
  BY <1>1, <1>3, AnnouncedIsCommit, CommitsKeeps
<1>4. CASE Edits(c, q) /\ ThenPlayer(c, CurrentTrack(queue'), version', <<PlaybackChanged, QueueChanged(version')>>)
  BY <1>1, <1>4, ThenPlayerIsCommit, CommitsKeeps
<1>5. CASE Done(c) /\ UNCHANGED <<version, library, told, unsaid>>
  <2>1. library' \in Library
    BY <1>5 DEF IInv, Shape
  <2>2. QED
    BY <1>1, <1>5, <2>1, DoneIsSilent, SilentKeeps
<1>6. QED
  BY <1>2, <1>3, <1>4, <1>5

LEMMA HttpJumpKeeps ==
  ASSUME NEW c \in Conns, IInv, HttpJump(c)
  PROVE  IInv'
<1>1. Releases(c) /\ ~Speaking(c) /\ UNCHANGED <<setting, version, library, told, unsaid>>
  BY LockUse DEF HttpJump, history
<1>2. library' \in Library
  BY <1>1 DEF IInv, Shape
<1>3. CASE Done(c)
  BY <1>1, <1>2, <1>3, DoneIsSilent, SilentKeeps
<1>4. CASE ThenPlayer(c, CurrentTrack(queue'), 0, <<PlaybackChanged>>)
  <2>1. MaySay("player", 0, <<PlaybackChanged>>)
    BY DEF MaySay
  <2>2. Says(c)
    BY <1>1, <1>2, <1>4, <2>1, ThenPlayerFacts DEF Says, Changes, Pcs, IInv, Shape
  <2>3. QED
    BY <2>2, SaysKeeps
<1>5. QED
  BY <1>3, <1>4 DEF HttpJump
LEMMA TakeFirstKeeps ==
  ASSUME NEW c \in Conns, IInv, TakeFirst(c)
  PROVE  IInv'
<1> DEFINE r == [conn[c] EXCEPT !.pc = "second"]
           f == First(conn[c].cmd)
<1>1. /\ DOMAIN r = Fields /\ r.pc = "second" /\ r.cmd = conn[c].cmd /\ r.version = conn[c].version
      /\ conn[c].pc = "first" /\ held[f] = Nobody /\ f \in Locks
      /\ held' = [held EXCEPT ![f] = c]
      /\ UNCHANGED <<setting, version, library, told, unsaid>>
  BY DEF TakeFirst, Free, IInv, Shape, Fields, First, Locks, data, history
<1>2. conn' = [conn EXCEPT ![c] = r]
  BY DEF TakeFirst, IInv, Shape
<1> HIDE DEF r, f
<1>3. DOMAIN conn' = Conns /\ conn'[c] = r /\ \A d \in Conns \ {c} : conn'[d] = conn[d]
  BY <1>2 DEF IInv, Shape
<1>4. Shape'
  BY <1>1, <1>3 DEF IInv, Shape, Pcs
<1>6. Broadcasting'
  BY <1>1, <1>3 DEF IInv, Broadcasting, Speaking
<1>7. Own(c) = {} /\ Own(c)' = {}
  BY <1>1, <1>3 DEF Own, Speaking
<1>8. Untold' = Untold
  BY <1>3, <1>4, <1>6, <1>7, UntoldMoves DEF IInv
<1>9. QED
  BY <1>1, <1>4, <1>6, <1>8 DEF IInv, Accounted, Excused

LEMMA TellKeeps ==
  ASSUME NEW c \in Conns, IInv, Tell(c)
  PROVE  IInv'
<1> DEFINE v == conn[c].version
           rest == Tail(conn[c].tells)
           r == IF rest = <<>> THEN Idle ELSE [conn[c] EXCEPT !.tells = rest]
<1>1. /\ conn[c].pc = "tell" /\ v \in Nat /\ MaySay("tell", v, conn[c].tells)
      /\ DOMAIN conn[c] = Fields /\ conn[c].cmd \in Commands
      /\ UNCHANGED <<setting, version, library, held, unsaid>>
  BY DEF Tell, IInv, Shape, Broadcasting, Speaking, data
<1>2. told' = IF Head(conn[c].tells).event = "queue" THEN told \cup {Head(conn[c].tells).version} ELSE told
  BY DEF Tell
<1>3. conn' = [conn EXCEPT ![c] = r]
  BY DEF Tell, Done, IInv, Shape
<1>4. DOMAIN r = Fields /\ r.pc \in {"tell", "idle"} /\ r.cmd \in Commands /\ r.version \in Nat
  BY <1>1, IdleFacts DEF Fields
<1>5. DOMAIN conn' = Conns /\ conn'[c] = r /\ \A d \in Conns \ {c} : conn'[d] = conn[d]
  BY <1>3 DEF IInv, Shape
<1>6. Shape'
  BY <1>1, <1>4, <1>5 DEF IInv, Shape, Pcs
<1>8. \/ /\ conn[c].tells = <<PlaybackChanged, QueueChanged(v)>> /\ v > 0
         /\ r.pc = "tell" /\ r.version = v /\ r.tells = <<QueueChanged(v)>> /\ told' = told
      \/ conn[c].tells = <<QueueChanged(v)>> /\ v > 0 /\ r.pc = "idle" /\ told' = told \cup {v}
      \/ v = 0 /\ r.pc = "idle" /\ told' = told
  <2>1. \A x, y : /\ Head(<<x>>) = x /\ Head(<<x, y>>) = x
                  /\ Tail(<<x>>) = <<>> /\ Tail(<<x, y>>) = <<y>> /\ <<y>> # <<>>
    OBVIOUS
  <2>2. /\ PlaybackChanged.event # "queue" /\ LibraryChanged.event # "queue"
        /\ QueueChanged(v).event = "queue" /\ QueueChanged(v).version = v
    BY DEF PlaybackChanged, LibraryChanged, QueueChanged
  <2>3. CASE conn[c].tells = <<PlaybackChanged, QueueChanged(v)>> /\ v > 0
    <3>1. rest = <<QueueChanged(v)>> /\ rest # <<>>
      BY <2>1, <2>3
    <3>2. r.pc = "tell" /\ r.version = v /\ r.tells = rest
      BY <1>1, <3>1 DEF Fields
    <3>3. QED
      BY <1>2, <2>1, <2>2, <2>3, <3>1, <3>2
  <2>4. CASE \/ conn[c].tells = <<QueueChanged(v)>> /\ v > 0
             \/ conn[c].tells = <<PlaybackChanged>> /\ v = 0
             \/ conn[c].tells = <<LibraryChanged>> /\ v = 0
    <3>1. rest = <<>>
      BY <2>1, <2>4
    <3>2. r.pc = "idle"
      BY <3>1, IdleFacts
    <3>3. QED
      BY <1>2, <2>1, <2>2, <2>4, <3>2
  <2>5. QED
    BY <1>1, <2>3, <2>4 DEF MaySay
<1> HIDE DEF r, rest
<1>9. Broadcasting'
  BY <1>1, <1>4, <1>5, <1>8 DEF IInv, Broadcasting, Speaking, MaySay
<1>10. /\ Own(c) = IF v > 0 THEN {v} ELSE {}
       /\ Own(c)' = IF r.pc = "tell" /\ r.version > 0 THEN {r.version} ELSE {}
  BY <1>1, <1>4, <1>5 DEF Own, Speaking
<1>11. /\ Untold \subseteq Untold' \cup Own(c) /\ Untold' \subseteq Untold \cup Own(c)'
       /\ Own(c) \subseteq Untold /\ Own(c)' \subseteq Untold'
  BY <1>5, <1>6, <1>9, UntoldMoves DEF IInv
<1>12. told' \cup Untold' = told \cup Untold
  BY <1>8, <1>10, <1>11
<1>13. Accounted' /\ Excused'
  BY <1>1, <1>12 DEF IInv, Accounted, Excused
<1>14. QED
  BY <1>6, <1>9, <1>13 DEF IInv
(* UsePlayer goes on with what the queue step left it, or gives it up. *)
LEMMA UsePlayerKeeps ==
  ASSUME NEW c \in Conns, IInv, UsePlayer(c)
  PROVE  IInv'
<1> DEFINE v == conn[c].version
           goesOn == /\ conn' = [conn EXCEPT ![c] = [Idle EXCEPT !.pc = "tell", !.version = v, !.tells = conn[c].tells]]
                     /\ unsaid' = unsaid
           gaveUp == /\ conn' = [conn EXCEPT ![c] = Idle]
                     /\ unsaid' = unsaid \cup ({v} \ {0}) /\ "engine" \in setting.faults
<1>1. /\ conn[c].pc = "player" /\ v \in Nat /\ MaySay("player", v, conn[c].tells)
      /\ UNCHANGED <<setting, version, library, held, told>>
  BY DEF UsePlayer, Briefly, At, IInv, Shape, Broadcasting, Speaking
<1>2. goesOn \/ gaveUp
  BY DEF UsePlayer, Announce, Done, Refuses
<1>3. Changes(c) /\ Releases(c)
  <2>1. CASE goesOn
    <3>1. \A t : LET r == [Idle EXCEPT !.pc = "tell", !.version = v, !.tells = t]
                 IN DOMAIN r = Fields /\ r.pc = "tell" /\ r.cmd = "status" /\ r.version = v
      BY DEF Idle, Fields
    <3>2. QED
      BY <1>1, <2>1, <3>1, IdleFacts DEF Changes, Releases, IInv, Shape, Pcs
  <2>2. CASE gaveUp
    BY <1>1, <2>2, IdleFacts DEF Changes, Releases, IInv, Shape, Pcs
  <2>3. QED
    BY <1>2, <2>1, <2>2
<1>4. Shape'
  BY <1>1, <1>3, ShapeKeeps DEF IInv, Shape
<1>5. conn'[c] = [Idle EXCEPT !.pc = "tell", !.version = v, !.tells = conn[c].tells] \/ conn'[c] = Idle
  BY <1>2 DEF IInv, Shape
<1>6. goesOn => /\ conn'[c].pc = "tell" /\ conn'[c].version = v /\ conn'[c].tells = conn[c].tells
  BY DEF IInv, Shape, Idle
<1>7. gaveUp => conn'[c].pc = "idle"
  BY IdleFacts DEF IInv, Shape
<1> HIDE DEF goesOn, gaveUp
<1>8. Broadcasting'
  BY <1>1, <1>2, <1>3, <1>6, <1>7 DEF IInv, Broadcasting, Changes, Speaking, MaySay
<1>9. /\ Own(c) = IF v > 0 THEN {v} ELSE {}
      /\ goesOn => Own(c)' = Own(c)
      /\ gaveUp => Own(c)' = {}
  BY <1>1, <1>6, <1>7 DEF Own, Speaking
<1>10. /\ Untold \subseteq Untold' \cup Own(c) /\ Untold' \subseteq Untold \cup Own(c)'
       /\ Own(c) \subseteq Untold /\ Own(c)' \subseteq Untold'
  BY <1>3, <1>4, <1>8, UntoldMoves DEF IInv, Changes
<1>11. unsaid' \cup Untold' = unsaid \cup Untold
  <2>1. CASE goesOn
    BY <1>9, <1>10, <2>1 DEF goesOn
  <2>2. CASE gaveUp
    <3>1. unsaid' = unsaid \cup Own(c)
      BY <1>1, <1>9, <2>2 DEF gaveUp
    <3>2. QED
      BY <1>9, <1>10, <2>2, <3>1
  <2>3. QED
    BY <1>2, <2>1, <2>2
<1>12. Accounted' /\ Excused'
  BY <1>1, <1>2, <1>11 DEF IInv, Accounted, Excused, goesOn, gaveUp
<1>13. QED
  BY <1>4, <1>8, <1>12 DEF IInv

LEMMA ReadStatusKeeps ==
  ASSUME NEW c \in Conns, IInv, ReadStatus(c)
  PROVE  IInv'
<1> DEFINE r == [conn[c] EXCEPT !.pc = "song", !.answer = Status]
<1>1. Releases(c) /\ ~Speaking(c) /\ UNCHANGED <<setting, version, library, told, unsaid>>
  BY LockUse DEF ReadStatus, data, history
<1>2. conn' = [conn EXCEPT ![c] = r]
  BY DEF ReadStatus, IInv, Shape
<1>3. /\ DOMAIN r = Fields /\ r.pc = "song" /\ r.cmd = conn[c].cmd /\ r.version = conn[c].version
      /\ conn[c].cmd \in Commands /\ conn[c].version \in Nat
  BY DEF IInv, Shape, Fields
<1>4. library' \in Library
  BY <1>1 DEF IInv, Shape
<1> HIDE DEF r
<1>5. QED
  BY <1>1, <1>2, <1>3, <1>4, GoesOnIsSilent DEF Pcs

LEMMA ReadSongKeeps ==
  ASSUME NEW c \in Conns, IInv, ReadSong(c)
  PROVE  IInv'
<1> DEFINE r == [conn[c] EXCEPT !.pc = "count", !.answer = [@ EXCEPT !.track = CurrentTrack(queue)]]
<1>1. Releases(c) /\ ~Speaking(c) /\ UNCHANGED <<setting, version, library, told, unsaid>>
  BY LockUse DEF ReadSong, data, history
<1>2. conn' = [conn EXCEPT ![c] = r]
  BY DEF ReadSong, IInv, Shape, Fields
<1>3. /\ DOMAIN r = Fields /\ r.pc = "count" /\ r.cmd = conn[c].cmd /\ r.version = conn[c].version
      /\ conn[c].cmd \in Commands /\ conn[c].version \in Nat
  BY DEF IInv, Shape, Fields
<1>4. library' \in Library
  BY <1>1 DEF IInv, Shape
<1> HIDE DEF r
<1>5. QED
  BY <1>1, <1>2, <1>3, <1>4, GoesOnIsSilent DEF Pcs

LEMMA ReadsKeep ==
  ASSUME NEW c \in Conns, IInv,
         CountLibrary(c) \/ ReadItems(c) \/ ReadAlbums(c) \/ LookupMedia(c)
  PROVE  IInv'
<1>1. Releases(c) /\ ~Speaking(c) /\ UNCHANGED <<setting, version, library, told, unsaid>>
  BY DEF CountLibrary, ReadItems, ReadAlbums, LookupMedia, UnderFirst, Briefly, At, Releases, Speaking,
         data, history
<1>2. (\E a : Reply(c, a)) \/ Done(c)
  BY DEF CountLibrary, ReadItems, ReadAlbums, LookupMedia
<1>3. library' \in Library
  BY <1>1 DEF IInv, Shape
<1>4. Silent(c)
  BY <1>1, <1>2, <1>3, ReplyIsSilent, DoneIsSilent
<1>5. QED
  BY <1>4, SilentKeeps

LEMMA ReadDatabaseKeeps ==
  ASSUME NEW c \in Conns, IInv, ReadDatabase(c)
  PROVE  IInv'
<1>1. Releases(c) /\ ~Speaking(c) /\ UNCHANGED <<setting, version, told, unsaid>>
  BY DEF ReadDatabase, At, Releases, Speaking, history
<1>2. CASE Done(c) /\ UNCHANGED library
  BY <1>1, <1>2, DoneIsSilent, SilentKeeps DEF IInv, Shape
<1>3. CASE /\ library' = [library EXCEPT !.reads = @ + 1]
           /\ conn' = [conn EXCEPT ![c] = [@ EXCEPT !.pc = "swap", !.version = library'.reads]]
  <2> DEFINE q == conn[c]
             r == [q EXCEPT !.pc = "swap", !.version = library'.reads]
  <2>1. library' \in Library /\ library'.reads \in Nat
    BY <1>3 DEF IInv, Shape, Library
  <2>2. conn' = [conn EXCEPT ![c] = r]
    BY <1>3, Zenon
  <2>3. /\ DOMAIN r = Fields /\ r.pc = "swap" /\ r.cmd = conn[c].cmd /\ r.version = library'.reads
        /\ conn[c].cmd \in Commands
    BY DEF IInv, Shape, Fields
  <2> HIDE DEF r
  <2>4. QED
    BY <1>1, <2>1, <2>2, <2>3, GoesOnIsSilent DEF Pcs
<1>4. QED
  BY <1>2, <1>3 DEF ReadDatabase

LEMMA SwappedTyped ==
  ASSUME NEW l \in Library, NEW v \in Nat
  PROVE  [l EXCEPT !.copy = v, !.swap = @ + 1] \in Library
<1> DEFINE m == [l EXCEPT !.copy = v]
<1>1. m \in Library
  BY DEF Library
<1> HIDE DEF m
<1>2. [m EXCEPT !.swap = @ + 1] \in Library
  BY <1>1 DEF Library
<1>3. QED
  BY <1>2 DEF m

LEMMA SwapKeeps ==
  ASSUME NEW c \in Conns, IInv, Swap(c)
  PROVE  IInv'
<1>0. conn[c].version \in Nat /\ library \in Library
  BY DEF IInv, Shape
<1>6. library' \in Library
  BY <1>0, SwappedTyped, Zenon DEF Swap
<1> DEFINE r == [conn[c] EXCEPT !.pc = "mark"]
<1>1. Releases(c) /\ ~Speaking(c) /\ UNCHANGED <<setting, version, told, unsaid>>
  BY LockUse DEF Swap, history
<1>2. conn' = [conn EXCEPT ![c] = r] /\ library' \in Library
  BY <1>6, Zenon DEF Swap
<1>3. /\ DOMAIN r = Fields /\ r.pc = "mark" /\ r.cmd = conn[c].cmd /\ r.version = conn[c].version
      /\ conn[c].cmd \in Commands /\ conn[c].version \in Nat
  BY DEF IInv, Shape, Fields
<1> HIDE DEF r
<1>4. QED
  BY <1>1, <1>2, <1>3, GoesOnIsSilent DEF Pcs

LEMMA MarkKeeps ==
  ASSUME NEW c \in Conns, IInv, Mark(c)
  PROVE  IInv'
<1>1. Releases(c) /\ ~Speaking(c) /\ UNCHANGED <<setting, version, told, unsaid>>
  BY DEF Mark, At, Releases, Speaking, history
<1>2. Announce(c, 0, <<LibraryChanged>>) /\ library' \in Library
  BY DEF Mark, IInv, Shape, Library
<1>3. QED
  BY <1>1, <1>2, AnnounceIsSaying, SaysKeeps

LEMMA ServeKeeps ==
  ASSUME NEW c \in Conns, IInv, Serve(c)
  PROVE  IInv'
BY TakeFirstKeeps, MoveKeeps, PauseResumeStopKeeps, LookUpKeeps, AddKeeps, DeleteKeeps, ClearKeeps,
   HttpAddKeeps, HttpClearKeeps, HttpDeleteKeeps, HttpJumpKeeps, UsePlayerKeeps, ReadStatusKeeps,
   ReadSongKeeps, ReadsKeep, ReadDatabaseKeeps, SwapKeeps, MarkKeeps, TellKeeps
   DEF Serve

(* A request comes in on a free connection, or an answer is taken off one. *)
LEMMA AskKeeps ==
  ASSUME NEW c \in Conns, NEW cmd \in Commands, NEW arg, IInv, conn[c].pc = "idle",
         conn' = [conn EXCEPT ![c] = Asked(cmd, arg)],
         UNCHANGED <<setting, version, library, held, told, unsaid>>
  PROVE  IInv'
<1> DEFINE r == Asked(cmd, arg)
<1>1. library.version \in Nat
  BY DEF IInv, Shape, Library
<1>2. DOMAIN r = Fields /\ r.pc = "first" /\ r.cmd = cmd /\ r.version \in Nat
  BY <1>1 DEF Asked, Idle, Fields
<1> HIDE DEF r
<1>3. DOMAIN conn' = Conns /\ conn'[c] = r /\ \A d \in Conns \ {c} : conn'[d] = conn[d]
  BY DEF IInv, Shape, r
<1>4. Silent(c)
  BY <1>2, <1>3 DEF Silent, Changes, Releases, Speaking, IInv, Shape, Pcs
<1>5. QED
  BY <1>4, SilentKeeps

LEMMA TakenKeeps ==
  ASSUME NEW c \in Conns, IInv, conn[c].pc = "answered", Done(c),
         UNCHANGED <<setting, version, library, held, told, unsaid>>
  PROVE  IInv'
<1>1. Releases(c) /\ ~Speaking(c) /\ library' \in Library
  BY DEF Releases, Speaking, IInv, Shape
<1>2. QED
  BY <1>1, DoneIsSilent, SilentKeeps

LEMMA StutterKeeps ==
  ASSUME IInv, UNCHANGED <<setting, version, library, held, conn, told, unsaid>>
  PROVE  IInv'
BY DEF IInv, Shape, Broadcasting, Speaking, Accounted, Untold, Excused

LEMMA ServerStep ==
  ASSUME IInv, [ServerNext]_server
  PROVE  IInv'
<1>1. CASE UNCHANGED server
  BY <1>1, StutterKeeps DEF server, data, history
<1>2. ASSUME NEW c \in Conns, NEW cmd \in Commands, NEW arg \in 0..MaxPosition, Begin(c, cmd, arg)
      PROVE  IInv'
  BY <1>2, AskKeeps DEF Begin, data, history
<1>3. ASSUME NEW c \in Conns, Serve(c)
      PROVE  IInv'
  BY <1>3, ServeKeeps
<1>4. CASE TrackEnds
  BY <1>4, StutterKeeps DEF TrackEnds, history
<1>5. QED
  BY <1>1, <1>2, <1>3, <1>4 DEF ServerNext

LEMMA ServerStart == ServerInit => IInv
<1> SUFFICES ASSUME ServerInit PROVE IInv
  OBVIOUS
<1>1. /\ version = 0 /\ library = [copy |-> 1, swap |-> 1, version |-> 1, reads |-> 1] /\ told = {} /\ unsaid = {}
      /\ held = [l \in Locks |-> Nobody] /\ conn = [c \in Conns |-> Idle]
  BY DEF ServerInit
<1>2. Shape
  BY <1>1, IdleFacts DEF Shape, Pcs, Library
<1>3. \A c \in Conns : conn[c].pc = "idle"
  BY <1>1, IdleFacts
<1>4. Broadcasting /\ Untold = {}
  BY <1>1, <1>3, PlayerServerAssumption DEF Broadcasting, Speaking, Untold
<1>5. QED
  BY <1>1, <1>2, <1>4 DEF IInv, Accounted, Excused

LEMMA IInvImplies == IInv => VersionsAccounted
BY DEF IInv, VersionsAccounted, Accounted, Excused

-----------------------------------------------------------------------------
(* Of the server by itself. *)

(* However commands interleave, each playlist version is broadcast, about  *)
(* to be, or belongs to a command the player refused.                     *)
THEOREM ServerVersions == ServerSpec => []VersionsAccounted
<1>1. IInv /\ [ServerNext]_server => IInv'
  BY ServerStep
<1>2. QED
  BY <1>1, ServerStart, IInvImplies, PTL DEF ServerSpec

-----------------------------------------------------------------------------
(* And with the remote screen reading it over two connections of its own.  *)

LEMMA ScreenStep ==
  ASSUME IInv, [Next]_vars
  PROVE  IInv'
<1>0. Stream \in Conns /\ Fetch \in Conns
  BY PlayerServerAssumption, RemoteViewAssumption
<1>1. CASE UNCHANGED vars
  BY <1>1, StutterKeeps DEF vars, server, data, history
<1>2. CASE ServerNext
  BY <1>2, ServerStep
<1>3. CASE Subscribe
  BY <1>0, <1>3, AskKeeps DEF Subscribe, Ask, ServerElse, data, history, Commands, Reads
<1>4. CASE SendState
  BY <1>0, <1>4, TakenKeeps DEF SendState, ServerElse, data, history
<1>5. CASE SendNext
  <2>1. /\ UNCHANGED <<setting, version, library, held, told, unsaid>>
        /\ UNCHANGED conn \/ Ask(Stream, "status")
    BY <1>5 DEF SendNext, ServerElse, data, history
  <2>2. QED
    BY <1>0, <1>5, <2>1, AskKeeps, StutterKeeps DEF SendNext, Ask, Commands, Reads
<1>6. CASE Disconnect
  BY <1>6, StutterKeeps DEF Disconnect, ServerElse, data, history
<1>7. CASE WorkerAsks
  <2>1. NextPart \in Parts /\ \A p \in Parts : Command(p) \in Commands
    BY DEF NextPart, Parts, Command, Commands, Reads
  <2>2. QED
    BY <1>0, <1>7, <2>1, AskKeeps, StutterKeeps DEF WorkerAsks, Ask, ServerElse, data, history
<1>8. CASE WorkerGets
  BY <1>0, <1>8, TakenKeeps DEF WorkerGets, ServerElse, data, history
<1>9. CASE \E browsing \in BOOLEAN : Tick(browsing)
  BY <1>9, StutterKeeps DEF Tick, ServerElse, data, history
<1>10. CASE SelectServer \/ SetToken \/ RemoveServer
  BY <1>10, StutterKeeps DEF SelectServer, SetToken, RemoveServer, ServerElse, data, history
<1>11. QED
  BY <1>1, <1>2, <1>3, <1>4, <1>5, <1>6, <1>7, <1>8, <1>9, <1>10 DEF Next

(* The same with the remote screen connected: the event stream, its        *)
(* reconnections and the refresh worker only read.                         *)
THEOREM ScreenVersions == Spec => []VersionsAccounted
<1>1. IInv /\ [Next]_vars => IInv'
  BY ScreenStep
<1>2. Init => IInv
  BY ServerStart DEF Init
<1>3. QED
  BY <1>1, <1>2, IInvImplies, PTL DEF Spec

-----------------------------------------------------------------------------
(* What is cached under a library version has the albums of that version:  *)
(* in the server, on its way, and on the remote screen; and the screen     *)
(* loses no wish for a refresh.                                            *)

(* x was taken from the library, which is now l, when it had been swapped  *)
(* at least as often as the version x goes under says.                     *)
Remembers(x, l) ==
  /\ x.version \in Nat /\ x.swap \in Nat /\ x.version <= x.swap /\ x.swap <= l.swap
  /\ x.swap = l.swap => x.copy = l.copy

(* What a connection's record may hold while the library is l. *)
Good(r, l) ==
  /\ r.pc = "first" /\ r.cmd = "media" => r.version <= l.version
  /\ r.answer.kind = "page" => Remembers(r.answer, l)
  /\ r.pc \in {"song", "count"} => r.answer.kind = "state" /\ "kind" \in DOMAIN r.answer
  /\ "event" \notin DOMAIN r.answer

(* Each swap but those of the reloads that still have to mark it counts.   *)
Cached ==
  /\ index \in Versioned /\ Remembers(index, library)
  /\ library.swap = library.version + Cardinality(Marking)

Copies == Cached /\ \A c \in Conns : Good(conn[c], library)

(* Of two states of the library, the later one. *)
Later(l, m) ==
  /\ l.swap \in Nat /\ l.version \in Nat /\ m.version \in Nat /\ l.version <= m.version
  /\ m.swap = l.swap + 1 \/ (m.swap = l.swap /\ m.copy = l.copy)

-----------------------------------------------------------------------------
(* A connection's record after each way a command can go on. *)

LEMMA MarkingFinite == IsFiniteSet(Marking) /\ Cardinality(Marking) \in Nat
<1>1. IsFiniteSet(Conns) /\ Marking \subseteq Conns
  BY PlayerServerAssumption DEF Marking
<1>2. QED
  BY <1>1, FS_Subset, FS_CardinalityType

LEMMA RemembersCurrent ==
  ASSUME IInv, Cached, NEW x, Remembers(x, library)
  PROVE  Current(x)
<1> SUFFICES ASSUME Marking = {}, x.version = library.version PROVE x.copy = library.copy
  BY DEF Current
<1>1. Cardinality(Marking) = 0
  BY FS_EmptySet
<1>2. library.swap \in Nat /\ library.version \in Nat /\ library.swap = library.version
  BY <1>1 DEF IInv, Shape, Library, Cached
<1>3. QED
  BY <1>2 DEF Remembers

LEMMA CopiesImply == IInv /\ Copies => IndexCurrent
<1> SUFFICES ASSUME IInv, Copies PROVE IndexCurrent
  OBVIOUS
<1>1. Current(index)
  BY RemembersCurrent DEF Copies, Cached
<1>2. ASSUME NEW c \in Conns, conn[c].answer.kind = "page" PROVE Current(conn[c].answer)
  <2>1. Remembers(conn[c].answer, library) /\ Cached
    BY <1>2 DEF Copies, Good
  <2>2. QED
    BY <2>1, RemembersCurrent
<1>3. QED
  BY <1>1, <1>2 DEF IndexCurrent

LEMMA LibraryAhead ==
  IInv /\ Copies =>
    /\ library.swap \in Nat /\ library.version \in Nat /\ library.copy \in Nat
    /\ library.version <= library.swap
BY MarkingFinite DEF IInv, Shape, Library, Copies, Cached

LEMMA RemembersLater ==
  ASSUME NEW l, NEW m, Later(l, m), NEW x, Remembers(x, l)
  PROVE  Remembers(x, m)
<1>1. CASE m.swap = l.swap + 1
  BY <1>1 DEF Later, Remembers
<1>2. CASE m.swap = l.swap /\ m.copy = l.copy
  BY <1>2 DEF Later, Remembers
<1>3. QED
  BY <1>1, <1>2 DEF Later

LEMMA GoodLater ==
  ASSUME NEW l, NEW m, Later(l, m), NEW r, r.version \in Nat, Good(r, l)
  PROVE  Good(r, m)
<1>1. r.pc = "first" /\ r.cmd = "media" => r.version <= m.version
  BY DEF Good, Later
<1>2. r.answer.kind = "page" => Remembers(r.answer, m)
  BY RemembersLater DEF Good
<1>3. QED
  BY <1>1, <1>2 DEF Good

LEMMA RestGood ==
  ASSUME NEW r, NEW l, r.pc \notin {"first", "song", "count"}, r.answer.kind # "page", "event" \notin DOMAIN r.answer
  PROVE  Good(r, l)
BY DEF Good

LEMMA IdleGood == \A l : Good(Idle, l) /\ Idle.pc # "mark" /\ Idle.answer = NoAnswer
                       /\ NoAnswer.kind = "none" /\ "event" \notin DOMAIN NoAnswer
BY DEF Good, Idle, NoAnswer

(* All but reloads leave the library; media look-ups change the index. *)
LEMMA PlainKeeps ==
  ASSUME NEW c \in Conns, IInv, Copies,
         \A d \in Conns \ {c} : conn'[d] = conn[d],
         conn[c].pc # "mark", conn'[c].pc # "mark", Good(conn'[c], library),
         library' = library, index' \in Versioned, Remembers(index', library)
  PROVE  Copies'
<1>1. Marking' = Marking
  BY DEF Marking
<1>2. \A d \in Conns : Good(conn'[d], library')
  BY DEF Copies
<1>3. Cached'
  BY <1>1 DEF Copies, Cached
<1>4. QED
  BY <1>2, <1>3 DEF Copies

LEMMA DoneGood ==
  ASSUME NEW c \in Conns, IInv, Copies, Done(c), conn[c].pc # "mark",
         library' = library, index' \in Versioned, Remembers(index', library)
  PROVE  Copies'
<1>1. conn'[c] = Idle /\ \A d \in Conns \ {c} : conn'[d] = conn[d]
  BY DEF Done, IInv, Shape
<1>2. QED
  BY <1>1, IdleGood, PlainKeeps

LEMMA AnnounceGood ==
  ASSUME NEW c \in Conns, NEW v, NEW events, IInv, Announce(c, v, events)
  PROVE  /\ \A d \in Conns \ {c} : conn'[d] = conn[d]
         /\ conn'[c].pc = "tell" /\ \A w : Good(conn'[c], w)
<1> DEFINE r == [Idle EXCEPT !.pc = "tell", !.version = v, !.tells = events]
<1>1. conn'[c] = r /\ \A d \in Conns \ {c} : conn'[d] = conn[d]
  BY DEF Announce, IInv, Shape
<1>2. r.pc = "tell" /\ r.answer = NoAnswer
  BY DEF Idle
<1> HIDE DEF r
<1>3. \A w : Good(r, w)
  BY <1>2, RestGood, IdleGood
<1>4. QED
  BY <1>1, <1>2, <1>3

LEMMA AnnounceKeeps ==
  ASSUME NEW c \in Conns, NEW v, NEW events, IInv, Copies, Announce(c, v, events), conn[c].pc # "mark",
         UNCHANGED <<library, index>>
  PROVE  Copies'
BY AnnounceGood, PlainKeeps DEF Copies, Cached

(* A record that only goes on keeps what it may hold. *)
LEMMA GoesOnKeeps ==
  ASSUME NEW c \in Conns, NEW r, IInv, Copies, conn' = [conn EXCEPT ![c] = r],
         r.pc \notin {"first", "song", "count", "mark"}, r.answer = conn[c].answer, conn[c].pc # "mark",
         UNCHANGED <<library, index>>
  PROVE  Copies'
<1>1. conn'[c] = r /\ \A d \in Conns \ {c} : conn'[d] = conn[d]
  BY DEF IInv, Shape
<1>2. Good(r, library)
  BY DEF Copies, Good
<1>3. QED
  BY <1>1, <1>2, PlainKeeps DEF Copies, Cached

LEMMA ReplyKeeps ==
  ASSUME NEW c \in Conns, NEW a, IInv, Copies, Reply(c, a), conn[c].pc # "mark",
         a.kind = "page" => Remembers(a, library), "event" \notin DOMAIN a,
         UNCHANGED <<library, index>>
  PROVE  Copies'
<1> DEFINE r == [Idle EXCEPT !.pc = "answered", !.answer = a]
<1>1. CASE c \in Readers
  <2>1. conn'[c] = r /\ \A d \in Conns \ {c} : conn'[d] = conn[d]
    BY <1>1 DEF Reply, IInv, Shape
  <2>2. r.pc = "answered" /\ r.answer = a
    BY DEF Idle
  <2> HIDE DEF r
  <2>3. Good(r, library)
    BY <2>2 DEF Good
  <2>4. QED
    BY <2>1, <2>2, <2>3, PlainKeeps DEF Copies, Cached
<1>2. CASE c \notin Readers
  BY <1>2, DoneGood DEF Reply, Copies, Cached
<1>3. QED
  BY <1>1, <1>2

-----------------------------------------------------------------------------
(* The actions. *)

LEMMA QueueCommandsKeep ==
  ASSUME NEW c \in Conns, IInv, Copies,
         \/ Move(c) \/ PauseResumeStop(c) \/ Add(c) \/ Delete(c) \/ Clear(c)
         \/ HttpAdd(c) \/ HttpClear(c) \/ HttpDelete(c) \/ HttpJump(c)
  PROVE  Copies'
<1>1. conn[c].pc # "mark" /\ UNCHANGED <<library, index>>
  BY DEF Move, PauseResumeStop, Add, Delete, Clear, HttpAdd, HttpClear, HttpDelete, HttpJump,
         UnderFirst, UnderBoth, Briefly, At, Edits, data
<1>2. \/ Done(c) \/ (\E v, events : Announce(c, v, events))
      \/ \E source, v, events : ThenPlayer(c, source, v, events)
  BY DEF Move, PauseResumeStop, Add, Delete, Clear, HttpAdd, HttpClear, HttpDelete, HttpJump, Announced
<1>3. CASE Done(c)
  BY <1>1, <1>3, DoneGood DEF Copies, Cached
<1>4. CASE \E v, events : Announce(c, v, events)
  BY <1>1, <1>4, AnnounceKeeps
<1>5. ASSUME NEW source, NEW v, NEW events, ThenPlayer(c, source, v, events) PROVE Copies'
  <2> DEFINE r == [conn[c] EXCEPT !.pc = "player", !.source = source, !.version = v, !.tells = events]
  <2>1. conn' = [conn EXCEPT ![c] = r]
    BY <1>5 DEF ThenPlayer, IInv, Shape
  <2>2. r.pc = "player" /\ r.answer = conn[c].answer
    BY DEF IInv, Shape, Fields
  <2> HIDE DEF r
  <2>3. QED
    BY <1>1, <2>1, <2>2, GoesOnKeeps
<1>6. QED
  BY <1>2, <1>3, <1>4, <1>5

LEMMA PassingKeeps ==
  ASSUME NEW c \in Conns, IInv, Copies, TakeFirst(c) \/ LookUp(c) \/ UsePlayer(c) \/ Tell(c)
  PROVE  Copies'
<1>1. conn[c].pc # "mark" /\ UNCHANGED <<library, index>>
  BY DEF TakeFirst, LookUp, UsePlayer, UnderFirst, Briefly, Tell, At, data
<1>2. ASSUME NEW pc \in {"second", "found"}, conn' = [conn EXCEPT ![c].pc = pc] PROVE Copies'
  <2> DEFINE r == [conn[c] EXCEPT !.pc = pc]
  <2>1. conn' = [conn EXCEPT ![c] = r]
    BY <1>2 DEF IInv, Shape
  <2>2. r.pc = pc /\ r.answer = conn[c].answer
    BY DEF IInv, Shape, Fields
  <2> HIDE DEF r
  <2>3. QED
    BY <1>1, <2>1, <2>2, GoesOnKeeps
<1>3. CASE UsePlayer(c)
  <2>1. Announce(c, conn[c].version, conn[c].tells) \/ Done(c)
    BY <1>3 DEF UsePlayer
  <2>2. QED
    BY <1>1, <2>1, AnnounceKeeps, DoneGood DEF Copies, Cached
<1>4. CASE Tell(c)
  <2> DEFINE r == [conn[c] EXCEPT !.tells = Tail(conn[c].tells)]
  <2>1. Done(c) \/ conn' = [conn EXCEPT ![c] = r]
    BY <1>4 DEF Tell, IInv, Shape
  <2>2. r.pc = "tell" /\ r.answer = conn[c].answer
    BY <1>4 DEF Tell, IInv, Shape, Fields
  <2> HIDE DEF r
  <2>3. QED
    BY <1>1, <2>1, <2>2, GoesOnKeeps, DoneGood DEF Copies, Cached
<1>5. CASE TakeFirst(c)
  BY <1>2, <1>5 DEF TakeFirst
<1>6. CASE LookUp(c)
  <2>1. Done(c) \/ conn' = [conn EXCEPT ![c].pc = "found"]
    BY <1>6 DEF LookUp
  <2>2. CASE Done(c)
    BY <1>1, <2>2, DoneGood DEF Copies, Cached
  <2>3. QED
    BY <1>2, <2>1, <2>2
<1>7. QED
  BY <1>3, <1>4, <1>5, <1>6

LEMMA ReadStatusGood ==
  ASSUME NEW c \in Conns, IInv, Copies, ReadStatus(c)
  PROVE  Copies'
<1> DEFINE r == [conn[c] EXCEPT !.pc = "song", !.answer = Status]
<1>1. conn[c].pc # "mark" /\ UNCHANGED <<library, index>>
  BY DEF ReadStatus, UnderBoth, At, data
<1>2. conn'[c] = r /\ \A d \in Conns \ {c} : conn'[d] = conn[d]
  BY DEF ReadStatus, IInv, Shape
<1>3. r.pc = "song" /\ r.answer = Status
  BY DEF IInv, Shape, Fields
<1>4. Status.kind = "state" /\ "kind" \in DOMAIN Status /\ "event" \notin DOMAIN Status
  BY DEF Status
<1> HIDE DEF r
<1>5. Good(r, library)
  BY <1>3, <1>4 DEF Good
<1>6. QED
  BY <1>1, <1>2, <1>3, <1>5, PlainKeeps DEF Copies, Cached

LEMMA ReadSongGood ==
  ASSUME NEW c \in Conns, IInv, Copies, ReadSong(c)
  PROVE  Copies'
<1> DEFINE a == [conn[c].answer EXCEPT !.track = CurrentTrack(queue)]
           r == [conn[c] EXCEPT !.pc = "count", !.answer = a]
<1>1. conn[c].pc = "song" /\ UNCHANGED <<library, index>>
  BY DEF ReadSong, Briefly, At, data
<1>2. conn'[c] = r /\ \A d \in Conns \ {c} : conn'[d] = conn[d]
  BY DEF ReadSong, IInv, Shape, Fields
<1>3. r.pc = "count" /\ r.answer = a
  BY DEF IInv, Shape, Fields
<1>4. /\ conn[c].answer.kind = "state" /\ "kind" \in DOMAIN conn[c].answer
      /\ "event" \notin DOMAIN conn[c].answer
  BY <1>1 DEF Copies, Good
<1>5. a.kind = "state" /\ "kind" \in DOMAIN a /\ "event" \notin DOMAIN a
  BY <1>4
<1> HIDE DEF a, r
<1>6. Good(r, library)
  BY <1>3, <1>5 DEF Good
<1>7. QED
  BY <1>1, <1>2, <1>3, <1>6, PlainKeeps DEF Copies, Cached

LEMMA ReadsGood ==
  ASSUME NEW c \in Conns, IInv, Copies, CountLibrary(c) \/ ReadItems(c) \/ ReadAlbums(c)
  PROVE  Copies'
<1>1. conn[c].pc # "mark" /\ UNCHANGED <<library, index>>
  BY DEF CountLibrary, ReadItems, ReadAlbums, UnderFirst, Briefly, At, data
<1>2. CASE CountLibrary(c)
  <2> DEFINE a == [conn[c].answer EXCEPT !.library = library.version]
  <2>1. /\ conn[c].answer.kind = "state" /\ "kind" \in DOMAIN conn[c].answer
        /\ "event" \notin DOMAIN conn[c].answer
    BY <1>2 DEF CountLibrary, Briefly, At, Copies, Good
  <2>2. a.kind = "state" /\ "event" \notin DOMAIN a /\ Reply(c, a)
    BY <1>2, <2>1 DEF CountLibrary
  <2> HIDE DEF a
  <2>3. QED
    BY <1>1, <2>2, ReplyKeeps
<1>3. CASE ReadItems(c)
  <2> DEFINE a == [kind |-> "queue", items |-> FlatTracks(queue)]
  <2>1. a.kind = "queue" /\ "event" \notin DOMAIN a /\ Reply(c, a)
    BY <1>3 DEF ReadItems
  <2> HIDE DEF a
  <2>2. QED
    BY <1>1, <2>1, ReplyKeeps
<1>4. CASE ReadAlbums(c)
  <2> DEFINE a == [kind |-> "page", copy |-> library.copy, swap |-> library.swap, version |-> library.version]
  <2>1. /\ a.copy = library.copy /\ a.swap = library.swap /\ a.version = library.version
        /\ "event" \notin DOMAIN a /\ Reply(c, a)
    BY <1>4 DEF ReadAlbums
  <2> HIDE DEF a
  <2>2. Remembers(a, library)
    BY <2>1, LibraryAhead DEF Remembers
  <2>3. QED
    BY <1>1, <2>1, <2>2, ReplyKeeps
<1>5. QED
  BY <1>2, <1>3, <1>4

(* The index may be filled under a version that is no longer the last one, *)
(* but never under one that the library had not yet reached.               *)
LEMMA LookupMediaGood ==
  ASSUME NEW c \in Conns, IInv, Copies, LookupMedia(c)
  PROVE  Copies'
<1>1. conn[c].pc = "first" /\ conn[c].cmd = "media" /\ library' = library /\ Done(c)
  BY DEF LookupMedia, UnderFirst, Briefly, At
<1>2. conn[c].version \in Nat /\ conn[c].version <= library.version
  BY <1>1 DEF IInv, Shape, Copies, Good
<1>3. \/ index' = index
      \/ index' = [copy |-> library.copy, swap |-> library.swap, version |-> conn[c].version]
  BY DEF LookupMedia, AlbumsHeld
<1>4. index' \in Versioned /\ Remembers(index', library)
  BY <1>2, <1>3, LibraryAhead DEF Copies, Cached, Versioned, Remembers
<1>5. QED
  BY <1>1, <1>4, DoneGood

(* A reading changes nothing that is shown to anybody. *)
LEMMA ReadDatabaseGood ==
  ASSUME NEW c \in Conns, IInv, Copies, ReadDatabase(c)
  PROVE  Copies'
<1>1. conn[c].pc = "first" /\ index' = index
  BY DEF ReadDatabase, At
<1>2. CASE Done(c) /\ UNCHANGED library
  BY <1>1, <1>2, DoneGood DEF Copies, Cached
<1>3. CASE /\ library' = [library EXCEPT !.reads = @ + 1]
           /\ conn' = [conn EXCEPT ![c] = [@ EXCEPT !.pc = "swap", !.version = library'.reads]]
  <2> DEFINE q == conn[c]
             r == [q EXCEPT !.pc = "swap", !.version = library'.reads]
  <2>1. conn'[c] = r /\ \A d \in Conns \ {c} : conn'[d] = conn[d]
    BY <1>3 DEF IInv, Shape, Fields
  <2>2. r.pc = "swap" /\ r.answer = conn[c].answer
    BY DEF IInv, Shape, Fields
  <2> HIDE DEF r
  <2>3. UNCHANGED <<library.swap, library.version, library.copy>>
    BY <1>3 DEF IInv, Shape, Library
  <2>4. Marking' = Marking
    BY <1>1, <2>1, <2>2 DEF Marking
  <2>5. Cached'
    BY <1>1, <2>3, <2>4 DEF Copies, Cached, Remembers
  <2>6. ASSUME NEW d \in Conns PROVE Good(conn'[d], library')
    <3>1. Good(conn[d], library)
      BY DEF Copies
    <3>2. QED
      BY <2>1, <2>2, <2>3, <3>1 DEF Good, Remembers
  <2>7. QED
    BY <2>5, <2>6 DEF Copies
<1>4. QED
  BY <1>2, <1>3 DEF ReadDatabase

LEMMA SwapGood ==
  ASSUME NEW c \in Conns, IInv, Copies, Swap(c)
  PROVE  Copies'
<1> DEFINE r == [conn[c] EXCEPT !.pc = "mark"]
<1>1. conn[c].pc = "swap" /\ index' = index /\ library' = [library EXCEPT !.copy = conn[c].version, !.swap = @ + 1]
  BY DEF Swap, Briefly, At
<1>2. conn'[c] = r /\ \A d \in Conns \ {c} : conn'[d] = conn[d]
  BY DEF Swap, IInv, Shape
<1>3. r.pc = "mark" /\ r.answer = conn[c].answer /\ r.version \in Nat
  BY DEF IInv, Shape, Fields
<1> HIDE DEF r
<1>4. library'.version = library.version /\ library'.swap = library.swap + 1 /\ Later(library, library')
  BY <1>1 DEF IInv, Shape, Library, Later
<1>5. Marking' = Marking \cup {c} /\ c \notin Marking
  BY <1>1, <1>2, <1>3 DEF Marking
<1>6. Cardinality(Marking') = Cardinality(Marking) + 1
  BY <1>5, MarkingFinite, FS_AddElement
<1>7. Remembers(index, library')
  BY <1>4, RemembersLater DEF Copies, Cached
<1>8. library.swap \in Nat /\ library.version \in Nat /\ library.swap = library.version + Cardinality(Marking)
  BY DEF IInv, Shape, Library, Copies, Cached
<1>9. Cached'
  BY <1>1, <1>4, <1>6, <1>7, <1>8, MarkingFinite DEF Copies, Cached
<1>10. \A d \in Conns : Good(conn[d], library) /\ conn[d].version \in Nat
  BY DEF Copies, IInv, Shape
<1>11. Good(r, library)
  BY <1>3, <1>10 DEF Good
<1>12. \A d \in Conns : Good(conn'[d], library) /\ conn'[d].version \in Nat
  BY <1>2, <1>3, <1>10, <1>11
<1>13. \A d \in Conns : Good(conn'[d], library')
  BY <1>4, <1>12, GoodLater
<1>14. QED
  BY <1>9, <1>13 DEF Copies

LEMMA MarkGood ==
  ASSUME NEW c \in Conns, IInv, Copies, Mark(c)
  PROVE  Copies'
<1>1. /\ conn[c].pc = "mark" /\ index' = index /\ library' = [library EXCEPT !.version = @ + 1]
      /\ Announce(c, 0, <<LibraryChanged>>)
  BY DEF Mark, At
<1>2. /\ \A d \in Conns \ {c} : conn'[d] = conn[d]
      /\ conn'[c].pc = "tell" /\ \A l : Good(conn'[c], l)
  BY <1>1, AnnounceGood
<1>3. library'.version = library.version + 1 /\ library'.swap = library.swap /\ Later(library, library')
  BY <1>1 DEF IInv, Shape, Library, Later
<1>4. Marking' = Marking \ {c} /\ c \in Marking
  BY <1>1, <1>2 DEF Marking
<1>5. Cardinality(Marking') = Cardinality(Marking) - 1
  BY <1>4, MarkingFinite, FS_RemoveElement
<1>6. Remembers(index, library')
  BY <1>3, RemembersLater DEF Copies, Cached
<1>7. library.swap \in Nat /\ library.version \in Nat /\ library.swap = library.version + Cardinality(Marking)
  BY DEF IInv, Shape, Library, Copies, Cached
<1>8. Cached'
  BY <1>1, <1>3, <1>5, <1>6, <1>7, MarkingFinite DEF Copies, Cached
<1>9. ASSUME NEW d \in Conns \ {c} PROVE Good(conn'[d], library')
  <2>1. Good(conn[d], library) /\ conn[d].version \in Nat
    BY DEF Copies, IInv, Shape
  <2>2. QED
    BY <1>2, <1>3, <2>1, GoodLater
<1>10. \A d \in Conns : Good(conn'[d], library')
  BY <1>2, <1>9
<1>11. QED
  BY <1>8, <1>10 DEF Copies

LEMMA AskGood ==
  ASSUME NEW c \in Conns, NEW cmd, NEW arg, IInv, Copies, conn[c].pc = "idle",
         conn' = [conn EXCEPT ![c] = Asked(cmd, arg)], UNCHANGED <<library, index>>
  PROVE  Copies'
<1> DEFINE r == Asked(cmd, arg)
<1>1. /\ r.pc = "first" /\ r.answer.kind = "none" /\ "event" \notin DOMAIN r.answer
      /\ (r.cmd = "media" => r.version = library.version)
  BY DEF Asked, Idle, NoAnswer
<1> HIDE DEF r
<1>2. conn'[c] = r /\ \A d \in Conns \ {c} : conn'[d] = conn[d]
  BY DEF IInv, Shape, r
<1>3. Good(r, library)
  BY <1>1 DEF Good, IInv, Shape, Library
<1>4. QED
  BY <1>1, <1>2, <1>3, PlainKeeps DEF Copies, Cached

LEMMA StutterGood ==
  ASSUME Copies, UNCHANGED <<library, index, conn>>
  PROVE  Copies'
BY DEF Copies, Cached, Marking, Good, Remembers

LEMMA ServerCopies ==
  ASSUME IInv, Copies, [ServerNext]_server
  PROVE  Copies'
<1>1. CASE UNCHANGED server
  BY <1>1, StutterGood DEF server, data
<1>2. ASSUME NEW c \in Conns, NEW cmd \in Commands, NEW arg \in 0..MaxPosition, Begin(c, cmd, arg)
      PROVE  Copies'
  BY <1>2, AskGood DEF Begin, data
<1>3. ASSUME NEW c \in Conns, Serve(c) PROVE Copies'
  BY <1>3, QueueCommandsKeep, PassingKeeps, ReadStatusGood, ReadSongGood, ReadsGood, LookupMediaGood,
     ReadDatabaseGood, SwapGood, MarkGood DEF Serve
<1>4. CASE TrackEnds
  BY <1>4, StutterGood DEF TrackEnds
<1>5. QED
  BY <1>1, <1>2, <1>3, <1>4 DEF ServerNext

LEMMA ServerCopiesStart == ServerInit => Copies
<1> SUFFICES ASSUME ServerInit PROVE Copies
  OBVIOUS
<1>1. /\ library = [copy |-> 1, swap |-> 1, version |-> 1, reads |-> 1]
      /\ index = [copy |-> 0, swap |-> 0, version |-> 0]
      /\ conn = [c \in Conns |-> Idle]
  BY DEF ServerInit
<1>2. Marking = {} /\ \A c \in Conns : conn[c] = Idle
  BY <1>1, IdleFacts DEF Marking
<1>3. Cardinality(Marking) = 0
  BY <1>2, FS_EmptySet
<1>4. QED
  BY <1>1, <1>2, <1>3, IdleGood DEF Copies, Cached, Versioned, Remembers

(* However reloads, look-ups and pages interleave, and in whatever order   *)
(* overlapping reloads swap what they read, the media index and every page *)
(* that was answered have, under the current library version, the albums   *)
(* in memory (server_state.rs:69-77, api.rs:24, media_index.rs).           *)
THEOREM IndexAlwaysCurrent == ServerSpec => []IndexCurrent
<1>1. IInv /\ Copies /\ [ServerNext]_server => (IInv /\ Copies)'
  BY ServerStep, ServerCopies
<1>2. ServerInit => IInv /\ Copies
  BY ServerStart, ServerCopiesStart
<1>3. QED
  BY <1>1, <1>2, CopiesImply, PTL DEF ServerSpec

-----------------------------------------------------------------------------
(* The screen. *)

(* What comes over the stream is a known event or no event.                *)
Known(f) == "event" \in DOMAIN f => f.event \in {"playback", "queue", "library"}
KnownAll(w) == \E S : w \in Seq(S) /\ \A f \in S : Known(f)

LEMMA KnownFrames ==
  ASSUME NEW w, KnownAll(w)
  PROVE  /\ \A f : Known(f) => KnownAll(Append(w, f))
         /\ w # <<>> => Known(Head(w)) /\ KnownAll(Tail(w))
<1>1. PICK S : w \in Seq(S) /\ \A f \in S : Known(f)
  BY DEF KnownAll
<1> HIDE DEF Known
<1>2. ASSUME NEW f, Known(f) PROVE KnownAll(Append(w, f))
  <2> DEFINE T == S \cup {f}
  <2>1. \A g \in T : Known(g)
    BY <1>1, <1>2
  <2>2. w \in Seq(T)
    <3>1. Len(w) \in Nat /\ w \in [1..Len(w) -> S]
      BY <1>1, LenProperties
    <3>2. w \in [1..Len(w) -> T]
      BY <3>1
    <3>3. QED
      BY <3>1, <3>2
  <2>3. Append(w, f) \in Seq(T)
    BY <2>2
  <2> HIDE DEF T
  <2>4. QED
    BY <2>1, <2>3 DEF KnownAll
<1>3. ASSUME w # <<>> PROVE Known(Head(w)) /\ KnownAll(Tail(w))
  <2>1. Head(w) \in S /\ Tail(w) \in Seq(S)
    BY <1>1, <1>3
  <2>2. QED
    BY <1>1, <2>1 DEF KnownAll
<1>4. QED
  BY <1>2, <1>3

LEMMA KnownNone == KnownAll(<<>>)
<1> DEFINE S == {}
<1>1. <<>> \in Seq(S)
  OBVIOUS
<1>2. \A f \in S : Known(f)
  OBVIOUS
<1> HIDE DEF S
<1>3. QED
  BY <1>1, <1>2 DEF KnownAll

RemoteFields == {"state", "queue", "page", "requests", "failures", "disabled", "listening"}

Remembered(page, l) == page # Missing => Remembers(page, l)

RemoteShape(r, l) == DOMAIN r = RemoteFields /\ Remembered(r.page, l)

WorkerShape(w, l) ==
  /\ DOMAIN w = {"busy", "asked", "got", "failed"}
  /\ ~w.busy => w.asked = {}
  /\ \A a \in w.got : a.kind = "page" => Remembers(a, l)

Screen == RemoteShape(remote, library) /\ WorkerShape(worker, library)

LEMMA ScreenImplies ==
  ASSUME IInv, Copies, Screen
  PROVE  PagesCurrent
<1>1. IndexCurrent
  BY CopiesImply
<1>2. ASSUME NEW x, Remembers(x, library) PROVE Current(x)
  BY <1>2, RemembersCurrent DEF Copies
<1>3. remote.page # Missing => Current(remote.page)
  BY <1>2 DEF Screen, RemoteShape, Remembered
<1>4. \A a \in worker.got : a.kind = "page" => Current(a)
  BY <1>2 DEF Screen, WorkerShape
<1>5. QED
  BY <1>1, <1>3, <1>4 DEF PagesCurrent

LEMMA ScreenLater ==
  ASSUME Screen, NEW l, Later(library, l)
  PROVE  RemoteShape(remote, l) /\ WorkerShape(worker, l)
<1>1. \A x : Remembers(x, library) => Remembers(x, l)
  BY RemembersLater
<1>2. QED
  BY <1>1 DEF Screen, RemoteShape, Remembered, WorkerShape

LEMMA NewShapes ==
  /\ RemoteShape(NewRemote, library) /\ WorkerShape(NoWorker, library) /\ WorkerShape(Died, library)
  /\ \A asked : LET w == [NoWorker EXCEPT !.busy = TRUE, !.asked = asked]
                IN WorkerShape(w, library) /\ w.asked = asked
<1>1. RemoteShape(NewRemote, library)
  BY DEF RemoteShape, RemoteFields, Remembered, NewRemote
<1>2. WorkerShape(NoWorker, library) /\ WorkerShape(Died, library)
  BY DEF WorkerShape, NoWorker, Died
<1>3. ASSUME NEW asked
      PROVE  WorkerShape([NoWorker EXCEPT !.busy = TRUE, !.asked = asked], library)
             /\ [NoWorker EXCEPT !.busy = TRUE, !.asked = asked].asked = asked
  <2> DEFINE w == [NoWorker EXCEPT !.busy = TRUE, !.asked = asked]
  <2>1. DOMAIN w = {"busy", "asked", "got", "failed"} /\ w.busy = TRUE /\ w.got = {} /\ w.asked = asked
    BY DEF NoWorker
  <2> HIDE DEF w
  <2>2. WorkerShape(w, library)
    BY <2>1 DEF WorkerShape
  <2>3. QED
    BY <2>1, <2>2 DEF w
<1>4. QED
  BY <1>1, <1>2, <1>3

(* A wish is added or not; nothing else of the screen changes. *)
LEMMA WantsKeeps ==
  ASSUME NEW r, DOMAIN r = RemoteFields, NEW part, NEW when
  PROVE  /\ DOMAIN Wants(r, part, when) = RemoteFields
         /\ Wants(r, part, when).page = r.page
         /\ r.requests \subseteq Wants(r, part, when).requests
<1>1. CASE when
  <2>1. Wants(r, part, when) = [r EXCEPT !.requests = r.requests \cup {part}]
    BY <1>1 DEF Wants
  <2>2. QED
    BY <2>1 DEF RemoteFields
<1>2. CASE ~when
  BY <1>2 DEF Wants
<1>3. QED
  BY <1>1, <1>2

LEMMA HandledKeeps ==
  ASSUME NEW r, RemoteShape(r, library), NEW frame, Known(frame)
  PROVE  RemoteShape(Handled(r, frame), library) /\ r.requests \subseteq Handled(r, frame).requests
<1>1. DOMAIN r = RemoteFields
  BY DEF RemoteShape
<1> DEFINE blank == [r EXCEPT !.page = Missing]
           deaf  == [r EXCEPT !.listening = FALSE]
           shown == [r EXCEPT !.state = frame]
<1>2. /\ DOMAIN blank = RemoteFields /\ blank.page = Missing /\ blank.requests = r.requests
      /\ DOMAIN deaf = RemoteFields /\ deaf.page = r.page /\ deaf.requests = r.requests
      /\ DOMAIN shown = RemoteFields /\ shown.page = r.page /\ shown.requests = r.requests
  BY <1>1 DEF RemoteFields
<1>3. CASE "event" \in DOMAIN frame
  <2>1. CASE frame.event = "playback"
    <3>1. Handled(r, frame) = Wants(r, "state", TRUE)
      BY <1>3, <2>1 DEF Handled
    <3>2. QED
      BY <1>1, <3>1, WantsKeeps DEF RemoteShape
  <2>2. CASE frame.event = "queue"
    <3>1. Handled(r, frame) = Wants(r, "queue", r.state = Missing \/ r.state.version # frame.version)
      BY <1>3, <2>2 DEF Handled
    <3>2. QED
      BY <1>1, <3>1, WantsKeeps DEF RemoteShape
  <2>3. CASE frame.event = "library"
    <3>1. Handled(r, frame) = Wants(blank, "page", TRUE)
      BY <1>3, <2>3 DEF Handled
    <3> HIDE DEF blank
    <3>2. /\ DOMAIN Wants(blank, "page", TRUE) = RemoteFields
          /\ Wants(blank, "page", TRUE).page = Missing
          /\ r.requests \subseteq Wants(blank, "page", TRUE).requests
      BY <1>2, WantsKeeps
    <3>3. QED
      BY <3>1, <3>2 DEF RemoteShape, Remembered
  <2>4. QED
    BY <1>3, <2>1, <2>2, <2>3 DEF Known
<1>4. CASE "event" \notin DOMAIN frame /\ frame.kind = "broken"
  <2>1. Handled(r, frame) = deaf
    BY <1>4 DEF Handled
  <2> HIDE DEF deaf
  <2>2. QED
    BY <1>2, <2>1 DEF RemoteShape
<1>5. CASE "event" \notin DOMAIN frame /\ frame.kind # "broken"
  <2>1. Handled(r, frame) = Wants(shown, "page", PageStale(r) \/ PageStale(shown))
    BY <1>5 DEF Handled
  <2> DEFINE when == PageStale(r) \/ PageStale(shown)
  <2> HIDE DEF shown, when
  <2>2. /\ DOMAIN Wants(shown, "page", when) = RemoteFields
        /\ Wants(shown, "page", when).page = r.page
        /\ r.requests \subseteq Wants(shown, "page", when).requests
    BY <1>2, WantsKeeps
  <2>3. Handled(r, frame) = Wants(shown, "page", when)
    BY <2>1 DEF when
  <2>4. QED
    BY <2>2, <2>3 DEF RemoteShape
<1>6. QED
  BY <1>3, <1>4, <1>5

LEMMA BrowsedKeeps ==
  ASSUME NEW r, RemoteShape(r, library)
  PROVE  RemoteShape(Browsed(r), library) /\ r.requests \subseteq Browsed(r).requests
<1> DEFINE q == Wants(r, "state", r.state = Missing)
<1>1. DOMAIN q = RemoteFields /\ q.page = r.page /\ r.requests \subseteq q.requests
  BY WantsKeeps DEF RemoteShape
<1>2. Browsed(r) = Wants(q, "page", PageStale(r))
  BY DEF Browsed
<1> HIDE DEF q
<1>3. /\ DOMAIN Browsed(r) = RemoteFields /\ Browsed(r).page = q.page
      /\ q.requests \subseteq Browsed(r).requests
  BY <1>1, <1>2, WantsKeeps
<1>4. QED
  BY <1>1, <1>3 DEF RemoteShape

(* A wish for p that is in r stays there or is given up with everything    *)
(* else; one with a worker that has finished comes back or is granted.     *)
Settled(p, r, s) ==
  /\ p \in r.requests => p \in s.requests \/ s.disabled
  /\ Finished /\ p \in worker.asked =>
       p \in s.requests \/ s.disabled \/ \E a \in worker.got : a.kind = p /\ s[p] = a

LEMMA FailedKeeps ==
  ASSUME NEW r, RemoteShape(r, library), NEW p
  PROVE  RemoteShape(Failed(r), library) /\ Settled(p, r, Failed(r))
<1> DEFINE n == r.failures + 1
           over  == [r EXCEPT !.failures = n, !.disabled = TRUE, !.requests = {}]
           again == [r EXCEPT !.failures = n, !.requests = r.requests \cup worker.asked]
<1>1. DOMAIN r = RemoteFields
  BY DEF RemoteShape
<1>2. DOMAIN over = RemoteFields /\ over.page = r.page /\ over.disabled = TRUE
  BY <1>1 DEF RemoteFields
<1>3. DOMAIN again = RemoteFields /\ again.page = r.page /\ again.requests = r.requests \cup worker.asked
  BY <1>1 DEF RemoteFields
<1>4. Failed(r) = over \/ Failed(r) = again
  BY DEF Failed
<1> HIDE DEF over, again
<1>5. QED
  BY <1>2, <1>3, <1>4 DEF RemoteShape, Settled

LEMMA AppliedKeeps ==
  ASSUME NEW r, RemoteShape(r, library), WorkerShape(worker, library), Finished, ~worker.failed, NEW p \in {"state", "queue"}
  PROVE  RemoteShape(Applied(r), library) /\ Settled(p, r, Applied(r))
<1> DEFINE part(q, old) == IF q \in Got THEN CHOOSE a \in worker.got : a.kind = q ELSE old
           st == part("state", r.state)
           qu == part("queue", r.queue)
           pg == part("page", r.page)
           rq == r.requests \ (Got \cap {"page"})
           s == [r EXCEPT !.state = st, !.queue = qu, !.page = pg, !.requests = rq, !.failures = 0]
<1>1. Applied(r) = s
  BY DEF Applied
<1>2. \A q \in Got : (CHOOSE a \in worker.got : a.kind = q) \in {a \in worker.got : a.kind = q}
  BY DEF Got
<1>3. Remembered(pg, library)
  <2>1. CASE "page" \in Got
    BY <1>2, <2>1 DEF WorkerShape, Remembered
  <2>2. CASE "page" \notin Got
    BY <2>2 DEF RemoteShape
  <2>3. QED
    BY <2>1, <2>2
<1>4. /\ "state" \in Got => \E a \in worker.got : a.kind = "state" /\ st = a
      /\ "queue" \in Got => \E a \in worker.got : a.kind = "queue" /\ qu = a
  BY <1>2
<1>5. worker.asked \subseteq Got
  BY DEF Finished, Left
<1> HIDE DEF part, st, qu, pg
<1>6. /\ DOMAIN s = RemoteFields /\ s.state = st /\ s.queue = qu /\ s.page = pg /\ s.requests = rq
  BY DEF RemoteShape, RemoteFields
<1> HIDE DEF s
<1>7. RemoteShape(s, library)
  BY <1>3, <1>6 DEF RemoteShape
<1>8. Settled(p, r, s)
  BY <1>4, <1>5, <1>6 DEF Settled
<1>9. QED
  BY <1>1, <1>7, <1>8

LEMMA RefreshedKeeps ==
  ASSUME NEW r, RemoteShape(r, library), WorkerShape(worker, library), NEW p \in {"state", "queue"}
  PROVE  RemoteShape(Refreshed(r), library) /\ Settled(p, r, Refreshed(r))
<1>1. CASE ~Finished
  BY <1>1 DEF Refreshed, Settled
<1>2. CASE Finished /\ worker.failed
  BY <1>2, FailedKeeps DEF Refreshed
<1>3. CASE Finished /\ ~worker.failed
  BY <1>3, AppliedKeeps DEF Refreshed
<1>4. QED
  BY <1>1, <1>2, <1>3

KeptOrSettled(p) ==
  p \notin Wanted' =>
    /\ p \in remote.requests => remote'.disabled
    /\ p \in worker.asked =>
         \/ \E a \in worker.got : a.kind = p /\ remote'[p] = a
         \/ remote'.disabled \/ WorkerLost

LEMMA TickKeepsScreen ==
  ASSUME Screen, KnownAll(wire), NEW browsing \in BOOLEAN, Tick(browsing), NEW p \in {"state", "queue"}
  PROVE  Screen' /\ KeptOrSettled(p)
<1> DEFINE heard  == IF remote.listening /\ wire # <<>> THEN Handled(remote, Head(wire)) ELSE remote
           asked  == IF browsing THEN Browsed(heard) ELSE heard
           polled == Refreshed(asked)
           bare   == [polled EXCEPT !.requests = {}]
           fresh  == [NoWorker EXCEPT !.busy = TRUE, !.asked = polled.requests]
<1>0. library' = library
  BY DEF Tick, ServerElse, data
<1>1. /\ remote' = IF Launches(polled) THEN bare ELSE polled
      /\ worker' = CASE Launches(polled) -> fresh
                     [] Finished /\ ~Launches(polled) -> NoWorker
                     [] OTHER -> worker
  BY DEF Tick
<1>2. RemoteShape(remote, library) /\ WorkerShape(worker, library)
  BY DEF Screen
<1>3. RemoteShape(heard, library) /\ remote.requests \subseteq heard.requests
  BY <1>2, HandledKeeps, KnownFrames
<1> HIDE DEF heard
<1>4. RemoteShape(asked, library) /\ remote.requests \subseteq asked.requests
  BY <1>3, BrowsedKeeps
<1> HIDE DEF asked
<1>5. RemoteShape(polled, library) /\ Settled(p, asked, polled)
  BY <1>2, <1>4, RefreshedKeeps
<1> HIDE DEF polled
<1>6. /\ RemoteShape(bare, library) /\ bare.requests = {} /\ bare.disabled = polled.disabled
      /\ bare.state = polled.state /\ bare.queue = polled.queue
  <2>1. /\ DOMAIN bare = RemoteFields /\ bare.page = polled.page /\ bare.requests = {}
        /\ bare.disabled = polled.disabled /\ bare.state = polled.state /\ bare.queue = polled.queue
    BY <1>5 DEF RemoteShape, RemoteFields
  <2>2. QED
    BY <1>5, <2>1 DEF RemoteShape
<1>7. WorkerShape(fresh, library) /\ fresh.asked = polled.requests /\ WorkerShape(NoWorker, library) /\ NoWorker.asked = {}
  BY NewShapes DEF NoWorker
<1> HIDE DEF bare, fresh
<1>8. CASE Launches(polled)
  <2>1. remote' = bare /\ worker' = fresh
    BY <1>1, <1>8
  <2>2. p \in worker.asked => Finished
    BY <1>2, <1>8 DEF Launches, WorkerShape
  <2>3. p \notin polled.requests =>
          /\ p \in remote.requests => polled.disabled
          /\ p \in worker.asked => polled.disabled \/ \E a \in worker.got : a.kind = p /\ polled[p] = a
    BY <1>4, <1>5, <2>2 DEF Settled
  <2>4. KeptOrSettled(p)
    BY <1>6, <1>7, <2>1, <2>3 DEF KeptOrSettled, Wanted
  <2>5. QED
    BY <1>0, <1>6, <1>7, <2>1, <2>4 DEF Screen
<1>9. CASE ~Launches(polled) /\ Finished
  <2>1. remote' = polled /\ worker' = NoWorker
    BY <1>1, <1>9
  <2>2. KeptOrSettled(p)
    BY <1>4, <1>5, <1>9, <2>1 DEF KeptOrSettled, Wanted, Settled
  <2>3. QED
    BY <1>0, <1>5, <1>7, <2>1, <2>2 DEF Screen
<1>10. CASE ~Launches(polled) /\ ~Finished
  <2>1. remote' = polled /\ worker' = worker
    BY <1>1, <1>10
  <2>2. KeptOrSettled(p)
    BY <1>4, <1>5, <1>10, <2>1 DEF KeptOrSettled, Wanted, Settled
  <2>3. QED
    BY <1>0, <1>2, <1>5, <2>1, <2>2 DEF Screen
<1>11. QED
  BY <1>8, <1>9, <1>10

-----------------------------------------------------------------------------
(* The broadcast channel and the stream. *)

FeedShape(f) == DOMAIN f = {"open", "events", "lagged"} /\ KnownAll(f.events)
Streams == setting \in Settings /\ FeedShape(feed) /\ KnownAll(wire)

LEMMA NoFeedShape == FeedShape(NoFeed) /\ FeedShape([NoFeed EXCEPT !.open = TRUE])
<1>1. DOMAIN NoFeed = {"open", "events", "lagged"} /\ NoFeed.events = <<>>
  BY DEF NoFeed
<1> DEFINE f == [NoFeed EXCEPT !.open = TRUE]
<1>2. DOMAIN f = {"open", "events", "lagged"} /\ f.events = <<>>
  BY <1>1
<1> HIDE DEF f
<1>3. FeedShape(NoFeed) /\ FeedShape(f)
  BY <1>1, <1>2, KnownNone DEF FeedShape
<1>4. QED
  BY <1>3 DEF f

LEMMA SentShape ==
  ASSUME setting \in Settings, NEW f, FeedShape(f), NEW e, Known(e)
  PROVE  FeedShape(Sent(f, e))
<1> DEFINE longer == [f EXCEPT !.events = Append(f.events, e)]
           slid == [f EXCEPT !.events = Append(Tail(f.events), e), !.lagged = TRUE]
<1>1. \/ Sent(f, e) = f \/ Sent(f, e) = longer
      \/ Sent(f, e) = slid /\ ~(Len(f.events) < setting.capacity)
  BY DEF Sent
<1>2. DOMAIN longer = DOMAIN f /\ longer.events = Append(f.events, e)
  BY DEF FeedShape
<1>3. DOMAIN slid = DOMAIN f /\ slid.events = Append(Tail(f.events), e)
  BY DEF FeedShape
<1> HIDE DEF longer, slid
<1>4. KnownAll(Append(f.events, e))
  BY KnownFrames DEF FeedShape
<1>5. CASE Sent(f, e) = f \/ Sent(f, e) = longer
  BY <1>2, <1>4, <1>5 DEF FeedShape
<1>6. CASE Sent(f, e) = slid /\ f.events # <<>>
  <2>1. KnownAll(Tail(f.events))
    BY <1>6, KnownFrames DEF FeedShape
  <2>2. KnownAll(Append(Tail(f.events), e))
    BY <2>1, KnownFrames
  <2>3. QED
    BY <1>3, <1>6, <2>2 DEF FeedShape
<1>7. CASE ~(Len(f.events) < setting.capacity) /\ f.events = <<>>
  <2>1. IsSetting(setting)
    BY PlayerServerAssumption
  <2>2. setting.capacity \in Nat \ {0}
    BY <2>1 DEF IsSetting
  <2>3. Len(<<>>) = 0
    OBVIOUS
  <2>4. QED
    BY <1>7, <2>2, <2>3
<1>8. QED
  BY <1>1, <1>5, <1>6, <1>7

LEMMA ServerStreams ==
  ASSUME IInv, Streams, [ServerNext]_server, UNCHANGED wire
  PROVE  Streams'
<1>1. setting' = setting
  BY ZenonT(60) DEF ServerNext, server, Begin, TrackEnds, Serve, TakeFirst, Move, PauseResumeStop, LookUp, Add,
         Delete, Clear, HttpAdd, HttpClear, HttpDelete, HttpJump, UsePlayer, ReadStatus, ReadSong, CountLibrary,
         ReadItems, ReadAlbums, LookupMedia, ReadDatabase, Swap, Mark, Tell, UnderBoth, UnderFirst, Briefly
<1>2. feed' = feed \/ \E c \in Conns : Tell(c)
  BY ZenonT(60) DEF ServerNext, server, Begin, TrackEnds, Serve, TakeFirst, Move, PauseResumeStop, LookUp, Add,
         Delete, Clear, HttpAdd, HttpClear, HttpDelete, HttpJump, UsePlayer, ReadStatus, ReadSong, CountLibrary,
         ReadItems, ReadAlbums, LookupMedia, ReadDatabase, Swap, Mark, UnderBoth, UnderFirst, Briefly
<1>3. ASSUME NEW c \in Conns, Tell(c) PROVE FeedShape(feed')
  <2> DEFINE e == Head(conn[c].tells)
  <2>1. feed' = Sent(feed, e) /\ MaySay("tell", conn[c].version, conn[c].tells)
    BY <1>3 DEF Tell, IInv, Broadcasting, Speaking
  <2>2. \A x, y : Head(<<x>>) = x /\ Head(<<x, y>>) = x
    OBVIOUS
  <2>3. e \in {PlaybackChanged, LibraryChanged, QueueChanged(conn[c].version)}
    BY <2>1, <2>2 DEF MaySay
  <2>4. \A v : Known(PlaybackChanged) /\ Known(LibraryChanged) /\ Known(QueueChanged(v))
    BY DEF Known, PlaybackChanged, LibraryChanged, QueueChanged
  <2>5. Known(e)
    BY <2>3, <2>4
  <2> HIDE DEF e
  <2>6. QED
    BY <2>1, <2>5, SentShape DEF Streams
<1>4. FeedShape(feed')
  BY <1>2, <1>3 DEF Streams
<1>5. QED
  BY <1>1, <1>4 DEF Streams, FeedShape, KnownAll

LEMMA ScreenStreams ==
  ASSUME IInv, Copies, Streams, [Next]_vars
  PROVE  Streams'
<1>0. Stream \in Conns
  BY PlayerServerAssumption, RemoteViewAssumption
<1>1. CASE UNCHANGED vars
  BY <1>1 DEF vars, server, client, Streams, FeedShape, KnownAll
<1>2. CASE ServerNext /\ UNCHANGED client
  BY <1>2, ServerStreams DEF client
<1>3. SUFFICES ASSUME ~UNCHANGED vars, ~(ServerNext /\ UNCHANGED client)
               PROVE  setting' = setting /\ FeedShape(feed') /\ KnownAll(wire')
  BY <1>1, <1>2 DEF Streams, FeedShape, KnownAll
<1>4. setting' = setting
  BY <1>3, ZenonT(60) DEF Next, Subscribe, SendState, SendNext, Disconnect, WorkerAsks,
                    WorkerGets, Tick, SelectServer, SetToken, RemoveServer, ServerElse
<1>5. FeedShape(feed')
  <2>1. CASE SendNext
    <3> DEFINE calm == [feed EXCEPT !.lagged = FALSE]
               rest == [feed EXCEPT !.events = Tail(feed.events)]
    <3>1. /\ DOMAIN calm = DOMAIN feed /\ calm.events = feed.events
          /\ DOMAIN rest = DOMAIN feed /\ rest.events = Tail(feed.events)
      BY DEF Streams, FeedShape
    <3>2. feed' = calm \/ (feed.events # <<>> /\ feed' = rest)
      BY <2>1 DEF SendNext
    <3> HIDE DEF calm, rest
    <3>3. QED
      BY <3>1, <3>2, KnownFrames DEF Streams, FeedShape
  <2>2. CASE ~SendNext
    <3>1. feed' \in {feed, NoFeed, [NoFeed EXCEPT !.open = TRUE]}
      BY <1>3, <2>2, ZenonT(60) DEF Next, Subscribe, SendState, Disconnect, WorkerAsks, WorkerGets, Tick,
                                    SelectServer, SetToken, RemoveServer
    <3>2. QED
      BY <3>1, NoFeedShape DEF Streams
  <2>3. QED
    BY <2>1, <2>2
<1>6. KnownAll(wire')
  <2>1. \/ wire' = wire \/ wire' = <<>> \/ (wire # <<>> /\ wire' = Tail(wire))
        \/ wire' = Append(wire, conn[Stream].answer)
        \/ feed.events # <<>> /\ wire' = Append(wire, Head(feed.events))
        \/ wire' = Append(wire, [kind |-> "broken"])
    BY <1>3, ZenonT(60) DEF Next, Subscribe, SendState, SendNext, Disconnect, WorkerAsks, WorkerGets, Tick,
                            SelectServer, SetToken, RemoveServer
  <2>2. Known(conn[Stream].answer)
    BY <1>0 DEF Copies, Good, Known
  <2>3. Known([kind |-> "broken"])
    BY DEF Known
  <2>4. feed.events # <<>> => Known(Head(feed.events))
    BY KnownFrames DEF Streams, FeedShape
  <2>5. KnownAll(wire)
    BY DEF Streams
  <2> DEFINE broken == [kind |-> "broken"]
  <2> HIDE DEF Known, broken
  <2>6. QED
    BY <2>1, <2>2, <2>3, <2>4, <2>5, KnownFrames, KnownNone DEF broken
<1>7. QED
  BY <1>4, <1>5, <1>6

-----------------------------------------------------------------------------
(* The screen with its server. *)

ViewInv == IInv /\ Copies /\ Screen /\ Streams

LEMMA ScreenCopies ==
  ASSUME IInv, Copies, [Next]_vars
  PROVE  Copies'
<1>0. Stream \in Conns /\ Fetch \in Conns
  BY PlayerServerAssumption, RemoteViewAssumption
<1>1. CASE UNCHANGED vars
  BY <1>1, StutterGood DEF vars, server, data
<1>2. CASE ServerNext
  BY <1>2, ServerCopies
<1>3. CASE Subscribe
  BY <1>0, <1>3, AskGood DEF Subscribe, Ask, ServerElse, data
<1>4. ASSUME NEW c \in Conns, conn[c].pc = "answered", Done(c), UNCHANGED <<library, index>>
      PROVE  Copies'
  BY <1>4, DoneGood DEF Copies, Cached
<1>5. CASE SendState
  BY <1>0, <1>4, <1>5 DEF SendState, ServerElse, data
<1>6. CASE SendNext
  <2>1. /\ UNCHANGED <<library, index>>
        /\ UNCHANGED conn \/ Ask(Stream, "status")
    BY <1>6 DEF SendNext, ServerElse, data
  <2>2. QED
    BY <1>0, <1>6, <2>1, AskGood, StutterGood DEF SendNext, Ask
<1>7. CASE Disconnect \/ SelectServer \/ SetToken \/ RemoveServer \/ \E browsing \in BOOLEAN : Tick(browsing)
  BY <1>7, StutterGood, ZenonT(60) DEF Disconnect, SelectServer, SetToken, RemoveServer, Tick, ServerElse, data
<1>8. CASE WorkerAsks
  BY <1>0, <1>8, AskGood, StutterGood DEF WorkerAsks, Ask, ServerElse, data
<1>9. CASE WorkerGets
  BY <1>0, <1>4, <1>9 DEF WorkerGets, ServerElse, data
<1>10. QED
  BY <1>1, <1>2, <1>3, <1>5, <1>6, <1>7, <1>8, <1>9 DEF Next

LEMMA WorkerKeeps ==
  ASSUME Copies, Screen, WorkerAsks \/ WorkerGets, NEW p \in {"state", "queue"}
  PROVE  Screen' /\ KeptOrSettled(p)
<1>0. Fetch \in Conns
  BY PlayerServerAssumption, RemoteViewAssumption
<1>1. remote' = remote /\ library' = library
  BY DEF WorkerAsks, WorkerGets, ServerElse, data
<1> DEFINE lost == [worker EXCEPT !.failed = TRUE]
           more == [worker EXCEPT !.got = worker.got \cup {conn[Fetch].answer}]
<1>2. /\ DOMAIN lost = DOMAIN worker /\ lost.asked = worker.asked /\ lost.busy = worker.busy
      /\ lost.got = worker.got
      /\ DOMAIN more = DOMAIN worker /\ more.asked = worker.asked /\ more.busy = worker.busy
      /\ more.got = worker.got \cup {conn[Fetch].answer}
  BY DEF Screen, WorkerShape
<1>3. worker' = worker \/ worker' = lost \/ worker' = more \/ (worker' = Died /\ Lost("panic"))
  BY DEF WorkerAsks, WorkerGets
<1> HIDE DEF lost, more
<1>4. Good(conn[Fetch], library)
  BY <1>0 DEF Copies
<1>5. CASE worker' # Died
  <2>1. WorkerShape(worker', library) /\ worker'.asked = worker.asked
    BY <1>2, <1>3, <1>4, <1>5 DEF Screen, WorkerShape, Good
  <2>2. Screen' /\ Wanted' = Wanted
    BY <1>1, <2>1 DEF Screen, Wanted
  <2>3. QED
    BY <2>2 DEF KeptOrSettled, Wanted
<1>6. CASE worker' = Died
  <2>1. WorkerShape(worker', library)
    BY <1>6, NewShapes
  <2>2. Screen' /\ remote.requests \subseteq Wanted'
    BY <1>1, <2>1 DEF Screen, Wanted
  <2>3. CASE Lost("panic")
    <3>1. WorkerLost
      BY <1>6, <2>3 DEF WorkerLost
    <3>2. QED
      BY <2>2, <3>1 DEF KeptOrSettled
  <2>4. CASE ~Lost("panic")
    <3>1. worker'.asked = worker.asked
      BY <1>2, <1>3, <2>4
    <3>2. QED
      BY <1>1, <2>2, <3>1 DEF KeptOrSettled, Wanted
  <2>5. QED
    BY <2>3, <2>4
<1>7. QED
  BY <1>5, <1>6

(* A new token, or the removal of another server: the worker is let go.    *)
LEMMA ResetKeeps ==
  ASSUME Screen, SetToken \/ RemoveServer, NEW p \in {"state", "queue"}
  PROVE  Screen' /\ KeptOrSettled(p)
<1> DEFINE calm == [remote EXCEPT !.failures = 0, !.disabled = FALSE]
           deaf == [remote EXCEPT !.failures = 0, !.disabled = FALSE, !.listening = FALSE, !.page = Missing]
<1>1. library' = library /\ worker' = NoWorker /\ Lost("reset") /\ (remote' = calm \/ remote' = deaf)
  BY DEF SetToken, RemoveServer, ServerElse, data
<1>2. DOMAIN remote = RemoteFields /\ Remembered(remote.page, library)
  BY DEF Screen, RemoteShape
<1>3. /\ DOMAIN calm = RemoteFields /\ calm.page = remote.page /\ calm.requests = remote.requests
      /\ DOMAIN deaf = RemoteFields /\ deaf.page = Missing /\ deaf.requests = remote.requests
  BY <1>2 DEF RemoteFields
<1> HIDE DEF calm, deaf
<1>4. RemoteShape(remote', library) /\ remote'.requests = remote.requests
  BY <1>1, <1>2, <1>3 DEF RemoteShape, Remembered
<1>5. Screen'
  BY <1>1, <1>4, NewShapes DEF Screen
<1>6. WorkerLost
  BY <1>1 DEF WorkerLost
<1>7. QED
  BY <1>4, <1>5, <1>6 DEF KeptOrSettled, Wanted

(* Whatever the server does, its library gets later. *)
LEMMA ServerLater ==
  ASSUME IInv, [ServerNext]_server
  PROVE  library' = library \/ Later(library, library')
<1>1. CASE \E c \in Conns : ReadDatabase(c) \/ Swap(c) \/ Mark(c)
  <2>1. library \in Library
    BY DEF IInv, Shape
  <2>2. \/ library' = library \/ library' = [library EXCEPT !.reads = @ + 1]
        \/ library' = [library EXCEPT !.version = @ + 1]
        \/ \E n : library' = [library EXCEPT !.copy = n, !.swap = @ + 1]
    BY <1>1 DEF ReadDatabase, Swap, Mark
  <2>3. ASSUME NEW n, library' = [library EXCEPT !.copy = n, !.swap = @ + 1]
        PROVE  Later(library, library')
    <3>1. library'.version = library.version /\ library'.swap = library.swap + 1
      BY <2>1, <2>3 DEF Library
    <3>2. QED
      BY <2>1, <3>1 DEF Later, Library
  <2>4. CASE library' = [library EXCEPT !.reads = @ + 1]
    BY <2>1, <2>4 DEF Later, Library
  <2>5. CASE library' = [library EXCEPT !.version = @ + 1]
    BY <2>1, <2>5 DEF Later, Library
  <2>6. QED
    BY <2>2, <2>3, <2>4, <2>5
<1>2. CASE ~\E c \in Conns : ReadDatabase(c) \/ Swap(c) \/ Mark(c)
  <2>1. library' = library
    BY <1>2, ZenonT(60) DEF ServerNext, server, data, Begin, TrackEnds, Serve, TakeFirst, Move, PauseResumeStop,
       LookUp, Add, Delete, Clear, HttpAdd, HttpClear, HttpDelete, HttpJump, UsePlayer, ReadStatus, ReadSong,
       CountLibrary, ReadItems, ReadAlbums, LookupMedia, Tell, Edits
  <2>2. QED
    BY <2>1
<1>3. QED
  BY <1>1, <1>2

LEMMA ScreenKeeps ==
  ASSUME ViewInv, [Next]_vars, NEW p \in {"state", "queue"}
  PROVE  Screen' /\ KeptOrSettled(p)
<1>0. Screen /\ IInv /\ Copies
  BY DEF ViewInv
<1>1. CASE UNCHANGED <<remote, worker>> /\ (library' = library \/ Later(library, library'))
  <2>1. Screen'
    BY <1>0, <1>1, ScreenLater DEF Screen
  <2>2. QED
    BY <1>1, <2>1 DEF KeptOrSettled, Wanted
<1>2. CASE UNCHANGED vars
  BY <1>1, <1>2 DEF vars, client, server, data
<1>3. CASE ServerNext /\ UNCHANGED client
  BY <1>0, <1>1, <1>3, ServerLater DEF client
<1>4. CASE Subscribe \/ SendState \/ SendNext \/ Disconnect
  BY <1>1, <1>4 DEF Subscribe, SendState, SendNext, Disconnect, ServerElse, data
<1>5. CASE WorkerAsks \/ WorkerGets
  BY <1>0, <1>5, WorkerKeeps
<1>6. CASE \E browsing \in BOOLEAN : Tick(browsing)
  BY <1>6, TickKeepsScreen DEF ViewInv, Streams
<1>7. CASE SelectServer
  <2>1. remote' = NewRemote /\ worker' = NoWorker /\ library' = library
    BY <1>7 DEF SelectServer, ServerElse, data
  <2>2. p \in Wanted'
    BY <2>1 DEF Wanted, NewRemote, Parts
  <2>3. QED
    BY <2>1, <2>2, NewShapes DEF Screen, KeptOrSettled
<1>8. CASE SetToken \/ RemoveServer
  BY <1>0, <1>8, ResetKeeps
<1>9. QED
  BY <1>2, <1>3, <1>4, <1>5, <1>6, <1>7, <1>8 DEF Next

LEMMA ViewStep == ViewInv /\ [Next]_vars => ViewInv'
<1> SUFFICES ASSUME ViewInv, [Next]_vars PROVE ViewInv'
  OBVIOUS
<1>1. IInv /\ Copies /\ Streams
  BY DEF ViewInv
<1>2. Screen'
  BY ScreenKeeps
<1>3. QED
  BY <1>1, <1>2, ScreenStep, ScreenCopies, ScreenStreams DEF ViewInv

LEMMA ViewStart == Init => ViewInv
<1> SUFFICES ASSUME Init PROVE ViewInv
  OBVIOUS
<1>1. ServerInit /\ IInv /\ Copies
  BY ServerStart, ServerCopiesStart DEF Init
<1> DEFINE follows == setting.client = "following"
           st == IF follows THEN Status ELSE Missing
           qu == IF follows THEN [kind |-> "queue", items |-> FlatTracks(queue)] ELSE Missing
           pg == IF follows THEN [kind |-> "page", copy |-> 1, swap |-> 1, version |-> 1] ELSE Missing
           rq == IF follows THEN {} ELSE Parts
           listens == setting.client # "none"
           r == [NewRemote EXCEPT !.state = st, !.queue = qu, !.page = pg, !.requests = rq, !.listening = listens]
<1>2. remote = r /\ worker = NoWorker /\ wire = <<>>
  BY DEF Init
<1>3. Remembered(pg, library)
  BY <1>1 DEF Remembered, Remembers, ServerInit
<1> HIDE DEF st, qu, pg, rq, listens
<1>4. DOMAIN r = RemoteFields /\ r.page = pg
  BY DEF NewRemote, RemoteFields
<1> HIDE DEF r
<1>5. Screen
  BY <1>2, <1>3, <1>4, NewShapes DEF Screen, RemoteShape
<1>6. setting \in Settings /\ KnownAll(wire)
  BY <1>1, <1>2, KnownNone DEF ServerInit
<1>7. FeedShape(feed)
  <2> DEFINE f == [NoFeed EXCEPT !.open = follows]
  <2>1. feed = f
    BY <1>1 DEF ServerInit
  <2>2. DOMAIN f = {"open", "events", "lagged"} /\ f.events = <<>>
    BY DEF NoFeed
  <2> HIDE DEF f
  <2>3. QED
    BY <2>1, <2>2, KnownNone DEF FeedShape
<1>8. QED
  BY <1>1, <1>5, <1>6, <1>7 DEF ViewInv, Streams

(* The same up to the screen: whatever the stream loses, repeats or        *)
(* delivers late, a page shown or on its way under the current library     *)
(* version has the albums the server has (remote_state.rs, consts.rs).     *)
THEOREM PagesAlwaysCurrent == Spec => []PagesCurrent
<1>1. ViewInv => PagesCurrent
  BY ScreenImplies DEF ViewInv
<1>2. QED
  BY <1>1, ViewStart, ViewStep, PTL DEF Spec

(* A wish for state or queue that comes while a worker is at work survives *)
(* that worker, its answer, its failure, its death and its dismissal, and  *)
(* one the worker was asked for survives its failure, until refreshing is  *)
(* given up (update_remote_cache_refresh in consts.rs, remote_state.rs).   *)
THEOREM RequestsNeverLost == Spec => RequestsKept
<1>1. ViewInv /\ [Next]_vars =>
        [\A p \in {"state", "queue"} : p \notin Wanted' =>
           /\ p \in remote.requests => remote'.disabled
           /\ p \in worker.asked =>
                \/ \E a \in worker.got : a.kind = p /\ remote'[p] = a
                \/ remote'.disabled \/ WorkerLost]_vars
  BY ScreenKeeps DEF KeptOrSettled
<1>2. QED
  BY <1>1, ViewStart, ViewStep, PTL DEF Spec, RequestsKept
-----------------------------------------------------------------------------
(* The queue.  No server command splits an album or empties one, so every  *)
(* album stays on one of its tracks, and a cursor on an album plays.       *)

OnTracks(c) == WellFormed(c) /\ \A i \in DOMAIN c.items : c.items[i].at <= Len(c.items[i].tracks)

LEMMA OnTracksPlays ==
  ASSUME NEW c, OnTracks(c)
  PROVE  /\ c \in Controller /\ CurrentTrack(c) \in Tracks \cup {NoTrack}
         /\ c.current # 0 => CurrentTrack(c) \in Tracks
         /\ FlatTracks(c) \in Seq(Tracks)
<1>0. WellFormed(c)
  BY DEF OnTracks
<1>1. c \in Controller /\ DOMAIN c.items = 1..Len(c.items) /\ c.current \in Nat /\ c.current <= Len(c.items)
  BY <1>0, Facts DEF WellFormed
<1>2. FlatTracks(c) \in Seq(Tracks)
  BY <1>0, FlatTracksType
<1>3. CASE c.current = 0
  BY <1>1, <1>2, <1>3 DEF CurrentTrack
<1>4. CASE c.current # 0
  <2>1. c.current \in DOMAIN c.items
    BY <1>1, <1>4
  <2>2. /\ c.items[c.current].tracks \in Seq(Tracks) /\ c.items[c.current].at \in Nat
        /\ c.items[c.current].at >= 1
        /\ DOMAIN c.items[c.current].tracks = 1..Len(c.items[c.current].tracks)
        /\ Len(c.items[c.current].tracks) \in Nat
    BY <1>0, <2>1, ItemFacts
  <2>3. c.items[c.current].at <= Len(c.items[c.current].tracks)
    BY <2>1 DEF OnTracks
  <2>4. c.items[c.current].at \in DOMAIN c.items[c.current].tracks
    BY <2>2, <2>3
  <2>5. c.items[c.current].tracks[c.items[c.current].at] \in Tracks
    BY <2>2, <2>4, ElementOfSeq
  <2>6. QED
    BY <1>1, <1>2, <2>1, <2>4, <2>5 DEF CurrentTrack
<1>5. QED
  BY <1>3, <1>4

LEMMA CursorOnTracks ==
  ASSUME NEW c, OnTracks(c), NEW i \in DOMAIN c.items, NEW k \in 1..Len(c.items[i].tracks)
  PROVE  /\ OnTracks(CursorAt(c, i, k, i)) /\ Lists(CursorAt(c, i, k, i)) = Lists(c)
         /\ CursorAt(c, i, k, i).current = i /\ i # 0
<1> DEFINE d == CursorAt(c, i, k, i)
<1>0. WellFormed(c)
  BY DEF OnTracks
<1>1. Len(c.items) \in Nat /\ DOMAIN c.items = 1..Len(c.items) /\ i # 0 /\ i \in 0..Len(c.items) /\ k \in Nat /\ k >= 1
  BY <1>0, Facts
<1>2. WellFormed(d) /\ Lists(d) = Lists(c)
  BY <1>0, <1>1, PlacedKeeps DEF Keeps
<1>3. d.current = i /\ d.items = [c.items EXCEPT ![i] = [c.items[i] EXCEPT !.at = k]]
  <2>1. c = Made(c.items, c.current, c.selected)
    BY <1>0, WellFormedFits
  <2>2. QED
    BY <2>1 DEF CursorAt, Made
<1>4. c.items[i] = [tracks |-> c.items[i].tracks, at |-> c.items[i].at] /\ Len(c.items[i].tracks) \in Nat
  BY <1>0, ItemFacts, StockIs, StockedKind
<1>5. d.items[i].at = k /\ d.items[i].tracks = c.items[i].tracks
  BY <1>3, <1>4
<1>6. \A j \in DOMAIN d.items : d.items[j].at <= Len(d.items[j].tracks)
  <2> TAKE j \in DOMAIN d.items
  <2>1. j \in DOMAIN c.items
    BY <1>3
  <2>2. CASE j = i
    BY <2>2, <1>1, <1>4, <1>5
  <2>3. CASE j # i
    <3>1. d.items[j] = c.items[j]
      BY <2>1, <2>3, <1>3
    <3>2. QED
      BY <2>1, <3>1 DEF OnTracks
  <2>4. QED
    BY <2>2, <2>3
<1>7. QED
  BY <1>1, <1>2, <1>3, <1>6 DEF OnTracks

LEMMA JumpOnTracks ==
  ASSUME NEW c, OnTracks(c), NEW i \in DOMAIN c.items
  PROVE  OnTracks(JumpTo(c, i)) /\ Lists(JumpTo(c, i)) = Lists(c) /\ JumpTo(c, i).current # 0
<1>1. Len(c.items[i].tracks) >= 1 /\ Len(c.items[i].tracks) \in Nat
  BY ItemFacts DEF OnTracks
<1>2. 1 \in 1..Len(c.items[i].tracks)
  BY <1>1
<1>3. JumpTo(c, i) = CursorAt(c, i, 1, i)
  BY DEF JumpTo, CursorAt
<1>4. /\ OnTracks(CursorAt(c, i, 1, i)) /\ Lists(CursorAt(c, i, 1, i)) = Lists(c)
      /\ CursorAt(c, i, 1, i).current = i /\ i # 0
  BY <1>2, CursorOnTracks
<1>5. QED
  BY <1>3, <1>4

LEMMA StepIsCursor ==
  ASSUME NEW c, OnTracks(c), NEW k
  PROVE  [c EXCEPT !.items[c.current].at = k] = CursorAt(c, c.current, k, c.current)
<1>1. c = Made(c.items, c.current, c.selected)
  BY WellFormedFits DEF OnTracks
<1>2. QED
  BY <1>1 DEF CursorAt, Made

LEMMA NextOnTracks ==
  ASSUME NEW c, OnTracks(c)
  PROVE  /\ OnTracks(NextTrack(c)) /\ Lists(NextTrack(c)) = Lists(c)
         /\ ~AtEnd(c) => NextTrack(c).current # 0
         /\ AtEnd(c) => NextTrack(c) = c
<1>0. WellFormed(c) /\ Len(c.items) \in Nat /\ DOMAIN c.items = 1..Len(c.items) /\ c.current \in Nat
      /\ c.current <= Len(c.items)
  BY Facts DEF OnTracks
<1>1. CASE c.current \notin DOMAIN c.items
  BY <1>1 DEF NextTrack, AtEnd
<1>2. CASE c.current \in DOMAIN c.items /\ HasNextInItem(c)
  <2> DEFINE k == c.items[c.current].at + 1
  <2>1. k \in 1..Len(c.items[c.current].tracks)
    BY <1>0, <1>2, ItemFacts DEF HasNextInItem
  <2>2. NextTrack(c) = [c EXCEPT !.items[c.current].at = k]
    BY <1>2 DEF NextTrack
  <2> HIDE DEF k
  <2>3. NextTrack(c) = CursorAt(c, c.current, k, c.current)
    BY <2>2, StepIsCursor
  <2>4. /\ OnTracks(CursorAt(c, c.current, k, c.current)) /\ Lists(CursorAt(c, c.current, k, c.current)) = Lists(c)
        /\ CursorAt(c, c.current, k, c.current).current = c.current /\ c.current # 0
    BY <1>2, <2>1, CursorOnTracks
  <2>5. QED
    BY <1>2, <2>3, <2>4 DEF AtEnd
<1>3. CASE c.current \in DOMAIN c.items /\ ~HasNextInItem(c) /\ c.current < Len(c.items)
  <2> DEFINE i == c.current + 1
  <2>1. i \in DOMAIN c.items
    BY <1>0, <1>3
  <2>2. NextTrack(c) = JumpTo(c, i)
    BY <1>3 DEF NextTrack
  <2>3. OnTracks(JumpTo(c, i)) /\ Lists(JumpTo(c, i)) = Lists(c) /\ JumpTo(c, i).current # 0
    BY <2>1, JumpOnTracks
  <2>4. ~AtEnd(c)
    BY <1>0, <1>3 DEF AtEnd
  <2>5. QED
    BY <2>2, <2>3, <2>4
<1>4. CASE c.current \in DOMAIN c.items /\ ~HasNextInItem(c) /\ ~(c.current < Len(c.items))
  BY <1>0, <1>4 DEF NextTrack, AtEnd
<1>5. QED
  BY <1>1, <1>2, <1>3, <1>4

LEMMA PreviousOnTracks ==
  ASSUME NEW c, OnTracks(c)
  PROVE  /\ OnTracks(PreviousTrack(c)) /\ Lists(PreviousTrack(c)) = Lists(c)
         /\ ~AtStart(c) => PreviousTrack(c).current # 0
<1>0. WellFormed(c)
  BY DEF OnTracks
<1>1. Len(c.items) \in Nat /\ DOMAIN c.items = 1..Len(c.items) /\ c.current \in Nat /\ c.current <= Len(c.items)
  BY <1>0, Facts
<1>2. CASE c.current \notin DOMAIN c.items
  BY <1>2 DEF PreviousTrack, AtStart
<1>3. CASE c.current \in DOMAIN c.items
  <2>0. c.current # 0
    BY <1>1, <1>3
  <2>1. /\ c.items[c.current].at \in Nat /\ c.items[c.current].at >= 1
        /\ Len(c.items[c.current].tracks) \in Nat
        /\ c.items[c.current].at <= Len(c.items[c.current].tracks)
    BY <1>0, <1>3, ItemFacts DEF OnTracks
  <2> DEFINE at == c.items[c.current].at
             back == IF at > 1 THEN at - 1 ELSE 1
             p == c.current - 1
             k == Max({1, Len(c.items[p].tracks)})
  <2>6. Stocked \in Kinds /\ Formed(Stocked, c)
    BY <1>0, WellFormedIs, StockedKind
  <2>7. /\ StepBack(c) = Placed(c, c.current, back) /\ (at = 1 => StepBack(c) = c)
        /\ HasPreviousInItem(c) <=> at > 1 /\ at - 1 <= Len(c.items[c.current].tracks)
    BY <1>3, <2>6, StepBackIs
  <2>8. /\ HasPreviousInItem(c) \/ c.current = 1 => PreviousTrack(c) = StepBack(c)
        /\ ~HasPreviousInItem(c) /\ c.current # 1 =>
             /\ PreviousTrack(c) = CursorAt(StepBack(c), p, k, p)
             /\ p \in DOMAIN c.items /\ p \in 0..Len(c.items) /\ p # c.current
             /\ Len(c.items[p].tracks) >= 1 => k = Len(c.items[p].tracks)
    BY <1>3, <2>6, PreviousTrackIs
  <2>9. HasPreviousInItem(c) <=> at > 1
    BY <2>1, <2>7
  <2> HIDE DEF k
  <2>2. CASE at > 1
    <3>1. back \in 1..Len(c.items[c.current].tracks)
      BY <2>1, <2>2
    <3> HIDE DEF back, p
    <3>2. PreviousTrack(c) = Placed(c, c.current, back)
      BY <2>2, <2>7, <2>8, <2>9
    <3>3. PreviousTrack(c) = [c EXCEPT !.items[c.current].at = back]
      BY <3>2 DEF Placed
    <3>4. PreviousTrack(c) = CursorAt(c, c.current, back, c.current)
      BY <3>3, StepIsCursor
    <3>5. /\ OnTracks(CursorAt(c, c.current, back, c.current)) /\ Lists(CursorAt(c, c.current, back, c.current)) = Lists(c)
          /\ CursorAt(c, c.current, back, c.current).current = c.current
      BY <1>3, <3>1, CursorOnTracks
    <3>6. QED
      BY <2>0, <3>4, <3>5
  <2>3. CASE ~(at > 1) /\ c.current # 1
    <3>1. p \in DOMAIN c.items /\ p # 0
      BY <1>1, <2>0, <2>3
    <3>2. Len(c.items[p].tracks) >= 1 /\ Len(c.items[p].tracks) \in Nat
      BY <1>0, <3>1, ItemFacts
    <3>3. at = 1
      BY <2>1, <2>3
    <3>4. PreviousTrack(c) = CursorAt(c, p, k, p) /\ k = Len(c.items[p].tracks)
      BY <2>3, <2>7, <2>8, <2>9, <3>2, <3>3
    <3>5. k \in 1..Len(c.items[p].tracks)
      BY <3>2, <3>4
    <3> HIDE DEF p
    <3>6. /\ OnTracks(CursorAt(c, p, k, p)) /\ Lists(CursorAt(c, p, k, p)) = Lists(c)
          /\ CursorAt(c, p, k, p).current = p
      BY <3>1, <3>5, CursorOnTracks
    <3>7. QED
      BY <3>1, <3>4, <3>6
  <2>4. CASE ~(at > 1) /\ c.current = 1
    <3>1. at = 1
      BY <2>1, <2>4
    <3>2. PreviousTrack(c) = c
      BY <2>4, <2>7, <2>8, <3>1
    <3>3. QED
      BY <2>0, <3>2
  <2>5. QED
    BY <2>2, <2>3, <2>4
<1>4. QED
  BY <1>2, <1>3

LEMMA AddOnTracks ==
  ASSUME NEW c, OnTracks(c), NEW a \in Seq(Tracks), a # <<>>
  PROVE  /\ OnTracks(AddAlbum(c, a)) /\ CurrentTrack(AddAlbum(c, a)) = CurrentTrack(c)
         /\ Len(AddAlbum(c, a).items) \in DOMAIN AddAlbum(c, a).items
<1> DEFINE d == AddAlbum(c, a)
           items == Append(c.items, NewItem(a))
<1>0. WellFormed(c)
  BY DEF OnTracks
<1>1. WellFormed(d) /\ CurrentTrack(d) = CurrentTrack(c)
  BY <1>0, AddAlbumWellFormed, AddAlbumPlays
<1>2. d.items = items
  <2>1. c = Made(c.items, c.current, c.selected)
    BY <1>0, WellFormedFits
  <2>2. QED
    BY <2>1 DEF AddAlbum, Made
<1>3. /\ Len(c.items) \in Nat /\ DOMAIN c.items = 1..Len(c.items) /\ Len(items) = Len(c.items) + 1
      /\ items[Len(c.items) + 1] = NewItem(a) /\ DOMAIN items = 1..(Len(c.items) + 1)
      /\ \A j \in 1..Len(c.items) : items[j] = c.items[j]
  <2>1. c.items \in Seq(Stocked) /\ NewItem(a) \in Stocked
    BY <1>0, Facts, NewItemStocked
  <2>2. QED
    BY <2>1
<1>4. NewItem(a).at <= Len(NewItem(a).tracks)
  <2>1. Len(a) \in Nat /\ Len(a) # 0
    BY EmptySeq, LenProperties
  <2>2. QED
    BY <2>1 DEF NewItem
<1> HIDE DEF d, items
<1>5. \A j \in DOMAIN items : items[j].at <= Len(items[j].tracks)
  <2> TAKE j \in DOMAIN items
  <2>1. CASE j = Len(c.items) + 1
    BY <1>3, <1>4, <2>1
  <2>2. CASE j \in 1..Len(c.items)
    BY <1>3, <2>2 DEF OnTracks
  <2>3. QED
    BY <1>3, <2>1, <2>2
<1>6. Len(items) \in DOMAIN items
  BY <1>3
<1>7. QED
  BY <1>1, <1>2, <1>5, <1>6 DEF OnTracks, d

LEMMA RemoveOnTracks ==
  ASSUME NEW c, OnTracks(c), NEW i \in DOMAIN c.items
  PROVE  OnTracks(RemoveAlbum(c, i))
<1> DEFINE items == RemoveAt(c.items, i)
           first == [items EXCEPT ![i].at = 1]
           d == RemoveAlbum(c, i)
<1>0. WellFormed(c)
  BY DEF OnTracks
<1>1. c = Made(c.items, c.current, c.selected) /\ c.items \in Seq(Stocked) /\ Len(c.items) \in Nat
      /\ DOMAIN c.items = 1..Len(c.items)
  BY <1>0, WellFormedFits, Facts
<1>2. WellFormed(d)
  BY <1>0, RemoveAlbumWellFormed
<1>3. /\ items \in Seq(Stocked) /\ Len(items) = Len(c.items) - 1
      /\ \A j \in 1..(i - 1) : items[j] = c.items[j]
      /\ \A j \in i..(Len(c.items) - 1) : items[j] = c.items[j + 1]
  <2>1. i \in 1..Len(c.items)
    BY <1>1
  <2>2. QED
    BY <1>1, <2>1, Removed
<1>4. d.items = items \/ d.items = first
  <2>1. d = ClampSelected(CASE c.current # i /\ c.current <= i -> [c EXCEPT !.items = items]
                            [] c.current > i -> [c EXCEPT !.items = items, !.current = c.current - 1]
                            [] c.current = i /\ i <= Len(items) -> [c EXCEPT !.items = first]
                            [] OTHER -> [c EXCEPT !.items = items, !.current = i - 1])
    BY DEF RemoveAlbum
  <2> HIDE DEF items, first, d
  <2>2. \/ d = ClampSelected([c EXCEPT !.items = items])
        \/ d = ClampSelected([c EXCEPT !.items = items, !.current = c.current - 1])
        \/ d = ClampSelected([c EXCEPT !.items = first])
        \/ d = ClampSelected([c EXCEPT !.items = items, !.current = i - 1])
    <3>1. c.current \in Nat /\ i \in Nat
      BY <1>0, <1>1, Facts
    <3>2. /\ c.current # i /\ c.current <= i => d = ClampSelected([c EXCEPT !.items = items])
          /\ c.current > i => d = ClampSelected([c EXCEPT !.items = items, !.current = c.current - 1])
      BY <2>1, <3>1
    <3>3. /\ c.current = i /\ i <= Len(items) => d = ClampSelected([c EXCEPT !.items = first])
          /\ c.current = i /\ ~(i <= Len(items)) =>
               d = ClampSelected([c EXCEPT !.items = items, !.current = i - 1])
      BY <2>1, <3>1
    <3>4. QED
      BY <3>1, <3>2, <3>3
  <2>3. /\ [c EXCEPT !.items = items] = Made(items, c.current, c.selected)
        /\ [c EXCEPT !.items = first] = Made(first, c.current, c.selected)
        /\ \A y : [c EXCEPT !.items = items, !.current = y] = Made(items, y, c.selected)
    BY <1>0, Updated, Zenon
  <2>4. \/ d = ClampSelected(Made(items, c.current, c.selected))
        \/ d = ClampSelected(Made(items, c.current - 1, c.selected))
        \/ d = ClampSelected(Made(first, c.current, c.selected))
        \/ d = ClampSelected(Made(items, i - 1, c.selected))
    BY <2>2, <2>3
  <2>5. QED
    BY <2>4, ClampedItems
<1> HIDE DEF d
<1>5. DOMAIN items = 1..(Len(c.items) - 1)
  BY <1>1, <1>3
<1>6. ASSUME NEW j \in DOMAIN items
      PROVE  /\ items[j].at <= Len(items[j].tracks) /\ Len(items[j].tracks) \in Nat /\ Len(items[j].tracks) >= 1
             /\ items[j] = [tracks |-> items[j].tracks, at |-> items[j].at]
  <2>1. PICK k \in DOMAIN c.items : items[j] = c.items[k]
    <3>1. CASE j < i
      BY <1>1, <1>3, <1>5, <3>1
    <3>2. CASE ~(j < i)
      <4>1. j \in i..(Len(c.items) - 1) /\ j + 1 \in DOMAIN c.items
        BY <1>1, <1>5, <3>2
      <4>2. items[j] = c.items[j + 1]
        BY <1>3, <4>1
      <4>3. QED
        BY <4>1, <4>2
    <3>3. QED
      BY <3>1, <3>2
  <2>2. c.items[k].at <= Len(c.items[k].tracks)
    BY DEF OnTracks
  <2>3. /\ Len(c.items[k].tracks) \in Nat /\ Len(c.items[k].tracks) >= 1
        /\ c.items[k] = [tracks |-> c.items[k].tracks, at |-> c.items[k].at]
    BY <1>0, ItemFacts, StockIs, StockedKind
  <2>4. QED
    BY <2>1, <2>2, <2>3
<1> HIDE DEF items
<1>7. CASE d.items = items
  BY <1>2, <1>6, <1>7 DEF OnTracks, d
<1>8. CASE d.items = first
  <2>1. \A j \in DOMAIN first : first[j].at <= Len(first[j].tracks)
    <3> TAKE j \in DOMAIN first
    <3>1. j \in DOMAIN items
      OBVIOUS
    <3>2. CASE j = i
      BY <1>6, <3>1, <3>2
    <3>3. CASE j # i
      BY <1>6, <3>1, <3>3
    <3>4. QED
      BY <3>2, <3>3
  <2> HIDE DEF first
  <2>2. QED
    BY <1>2, <1>8, <2>1 DEF OnTracks, d
<1>9. QED
  BY <1>4, <1>7, <1>8

LEMMA EmptyOnTracks == OnTracks(EmptyController)
<1>1. DOMAIN EmptyController.items = {}
  BY DEF EmptyController
<1>2. QED
  BY <1>1, EmptyWellFormed DEF OnTracks

-----------------------------------------------------------------------------
(* What the commands do to the queue. *)

Navigated(q) ==
  \/ q = queue \/ q = NextTrack(queue) \/ q = PreviousTrack(queue)
  \/ \E i \in DOMAIN queue.items : q = JumpTo(queue, i)

LEMMA FirstAlbum ==
  ASSUME NEW q, OnTracks(q), q.items # <<>>
  PROVE  1 \in DOMAIN q.items
<1>1. q.items \in Seq(Stocked) /\ Len(q.items) \in Nat /\ DOMAIN q.items = 1..Len(q.items)
  BY Facts DEF OnTracks
<1>2. Len(q.items) # 0
  BY <1>1, EmptySeq
<1>3. QED
  BY <1>1, <1>2

(* Where play, next and previous leave the cursor, and what they load. *)
LEMMA MovedIs ==
  ASSUME OnTracks(queue), NEW cmd \in MpdMoves, NEW arg \in Nat
  PROVE  /\ Navigated(Moved(cmd, arg).queue) /\ OnTracks(Moved(cmd, arg).queue)
         /\ Moved(cmd, arg).some => Moved(cmd, arg).queue.current # 0
         /\ ~Moved(cmd, arg).some => Moved(cmd, arg).queue = queue \/ cmd = "previous"
<1>1. CASE cmd = "play" /\ arg # 0
  <2>1. Moved(cmd, arg) = IF arg \in DOMAIN queue.items THEN [queue |-> JumpTo(queue, arg), some |-> TRUE]
                          ELSE [queue |-> queue, some |-> FALSE]
    BY <1>1 DEF Moved
  <2>2. QED
    BY <2>1, JumpOnTracks DEF Navigated
<1>2. CASE cmd = "play" /\ arg = 0
  <2>1. Moved(cmd, arg) = IF queue.items # <<>> THEN [queue |-> JumpTo(queue, 1), some |-> TRUE]
                          ELSE [queue |-> queue, some |-> FALSE]
    BY <1>2 DEF Moved
  <2>2. QED
    BY <2>1, FirstAlbum, JumpOnTracks DEF Navigated
<1>3. CASE cmd = "next"
  <2>1. Moved(cmd, arg) = [queue |-> NextTrack(queue), some |-> ~AtEnd(queue)]
    BY <1>3 DEF Moved
  <2>2. Moved(cmd, arg).queue = NextTrack(queue) /\ (Moved(cmd, arg).some = ~AtEnd(queue))
    BY <2>1
  <2>3. /\ OnTracks(NextTrack(queue)) /\ (~AtEnd(queue) => NextTrack(queue).current # 0)
        /\ AtEnd(queue) => NextTrack(queue) = queue
    BY NextOnTracks
  <2>4. QED
    BY <2>2, <2>3, Zenon DEF Navigated
<1>4. CASE cmd = "previous"
  <2>1. Moved(cmd, arg) = [queue |-> PreviousTrack(queue), some |-> ~AtStart(queue)]
    BY <1>4 DEF Moved
  <2>2. Moved(cmd, arg).queue = PreviousTrack(queue) /\ (Moved(cmd, arg).some = ~AtStart(queue))
    BY <2>1
  <2>3. OnTracks(PreviousTrack(queue)) /\ (~AtStart(queue) => PreviousTrack(queue).current # 0)
    BY PreviousOnTracks
  <2>4. QED
    BY <1>4, <2>2, <2>3, Zenon DEF Navigated
<1>5. QED
  BY <1>1, <1>2, <1>3, <1>4 DEF MpdMoves

LEMMA NavigatedKeeps ==
  ASSUME OnTracks(queue), NEW q, Navigated(q)
  PROVE  OnTracks(q)
BY NextOnTracks, PreviousOnTracks, JumpOnTracks DEF Navigated

LEMMA AlbumFacts ==
  ASSUME NEW album \in Albums
  PROVE  album \in Seq(Tracks) /\ album # <<>>
BY PlayerServerAssumption

(* Every command leaves the queue alone, moves its cursor, makes an edit   *)
(* under a new version, or is an MPD delete of an album that is not the    *)
(* current one.                                                            *)
Unnoticed(c) ==
  /\ At(c, "first", {"delete"}) /\ conn[c].arg # queue.current /\ Done(c)
  /\ conn[c].arg \in DOMAIN queue.items /\ queue' = RemoveAlbum(queue, conn[c].arg)

QueueStep ==
  \/ Navigated(queue')
  \/ version' = version + 1 /\ OnTracks(queue')
  \/ \E c \in Conns : Unnoticed(c)

LEMMA EditsQueue ==
  ASSUME OnTracks(queue), NEW c \in Conns,
         Add(c) \/ Delete(c) \/ Clear(c) \/ HttpAdd(c) \/ HttpClear(c) \/ HttpDelete(c) \/ HttpJump(c)
  PROVE  QueueStep
<1>1. CASE Add(c)
  BY <1>1, AlbumFacts, AddOnTracks DEF Add, Edits, QueueStep
<1>2. CASE Delete(c)
  <2>1. CASE conn[c].arg \in DOMAIN queue.items /\ conn[c].arg = queue.current
    BY <1>2, <2>1, RemoveOnTracks DEF Delete, Edits, QueueStep
  <2>2. CASE conn[c].arg \in DOMAIN queue.items /\ conn[c].arg # queue.current
    BY <1>2, <2>2 DEF Delete, UnderFirst, Briefly, QueueStep, Unnoticed
  <2>3. CASE conn[c].arg \notin DOMAIN queue.items
    BY <1>2, <2>3 DEF Delete, QueueStep, Navigated
  <2>4. QED
    BY <2>1, <2>2, <2>3
<1>3. CASE Clear(c) \/ HttpClear(c)
  BY <1>3, EmptyOnTracks DEF Clear, HttpClear, Edits, QueueStep
<1>4. CASE HttpAdd(c)
  <2>1. PICK album \in Albums :
          Edits(c, IF conn[c].cmd = "http_play" THEN JumpTo(AddAlbum(queue, album), Len(AddAlbum(queue, album).items))
                   ELSE AddAlbum(queue, album))
    BY <1>4 DEF HttpAdd
  <2>2. OnTracks(AddAlbum(queue, album)) /\ Len(AddAlbum(queue, album).items) \in DOMAIN AddAlbum(queue, album).items
    BY AlbumFacts, AddOnTracks
  <2>3. OnTracks(JumpTo(AddAlbum(queue, album), Len(AddAlbum(queue, album).items)))
    BY <2>2, JumpOnTracks
  <2>4. QED
    BY <2>1, <2>2, <2>3 DEF Edits, QueueStep
<1>5. CASE HttpDelete(c)
  BY <1>5, RemoveOnTracks DEF HttpDelete, Edits, QueueStep, Navigated, data
<1>6. CASE HttpJump(c)
  BY <1>6 DEF HttpJump, QueueStep, Navigated
<1>7. QED
  BY <1>1, <1>2, <1>3, <1>4, <1>5, <1>6

(* The arguments of commands are positions or absent. *)
Args0 == \A c \in Conns : conn[c].arg \in Nat

LEMMA MoveQueue ==
  ASSUME OnTracks(queue), Args0, NEW c \in Conns, Move(c)
  PROVE  Navigated(queue')
<1> DEFINE m == Moved(conn[c].cmd, conn[c].arg)
<1>1. queue' = queue \/ queue' = m.queue
  BY DEF Move
<1>2. conn[c].cmd \in MpdMoves /\ conn[c].arg \in Nat
  BY DEF Move, UnderBoth, At, Args0
<1>3. Navigated(m.queue)
  BY <1>2, MovedIs
<1> HIDE DEF m
<1>4. QED
  BY <1>1, <1>3 DEF Navigated

LEMMA QueueSteps ==
  ASSUME OnTracks(queue), Args0, [ServerNext]_server
  PROVE  QueueStep
<1>1. CASE UNCHANGED queue
  BY <1>1 DEF QueueStep, Navigated
<1>2. ASSUME NEW c \in Conns, Serve(c) PROVE QueueStep
  <2>1. CASE Move(c)
    BY <2>1, MoveQueue DEF QueueStep
  <2>2. CASE Add(c) \/ Delete(c) \/ Clear(c) \/ HttpAdd(c) \/ HttpClear(c) \/ HttpDelete(c) \/ HttpJump(c)
    BY <2>2, EditsQueue
  <2>3. CASE \/ TakeFirst(c) \/ PauseResumeStop(c) \/ UsePlayer(c)
             \/ LookUp(c) \/ ReadStatus(c) \/ ReadSong(c) \/ CountLibrary(c) \/ ReadItems(c) \/ ReadAlbums(c)
             \/ LookupMedia(c) \/ ReadDatabase(c) \/ Swap(c) \/ Mark(c) \/ Tell(c)
    <3>1. UNCHANGED queue
      BY <2>3 DEF TakeFirst, PauseResumeStop, UsePlayer, LookUp, ReadStatus, ReadSong, CountLibrary, ReadItems,
                  ReadAlbums, LookupMedia, ReadDatabase, Swap, Mark, Tell, data
    <3>2. QED
      BY <3>1, <1>1
  <2>4. QED
    BY <1>2, <2>1, <2>2, <2>3 DEF Serve
<1>3. CASE UNCHANGED server \/ TrackEnds
      \/ \E c \in Conns, cmd \in Commands, arg \in 0..MaxPosition : Begin(c, cmd, arg)
  BY <1>1, <1>3 DEF server, data, TrackEnds, Begin
<1>4. QED
  BY <1>2, <1>3 DEF ServerNext

LEMMA QueueStepKeeps ==
  ASSUME OnTracks(queue), QueueStep
  PROVE  OnTracks(queue')
<1>1. ASSUME NEW c \in Conns, Unnoticed(c) PROVE OnTracks(queue')
  BY <1>1, RemoveOnTracks DEF Unnoticed
<1>2. QED
  BY <1>1, NavigatedKeeps DEF QueueStep

-----------------------------------------------------------------------------
(* The types of the server.  What a connection's record becomes is again a *)
(* record of a connection.                                                 *)

ServerTyped == ServerTypeOK /\ OnTracks(queue)

Becomes(c, r) == conn' = [conn EXCEPT ![c] = r] /\ r \in Conn
Typed(c) == \E r : Becomes(c, r)

LEMMA TypedConns ==
  ASSUME conn \in [Conns -> Conn], NEW c \in Conns, Typed(c)
  PROVE  conn' \in [Conns -> Conn]
<1>1. PICK r \in Conn : conn' = [conn EXCEPT ![c] = r]
  BY DEF Typed, Becomes
<1> HIDE DEF Conn
<1>2. QED
  BY <1>1

LEMMA EventFacts ==
  /\ PlaybackChanged \in Event /\ LibraryChanged \in Event /\ \A v \in Nat : QueueChanged(v) \in Event
  /\ <<PlaybackChanged>> \in Seq(Event) /\ <<LibraryChanged>> \in Seq(Event) /\ <<>> \in Seq(Event)
  /\ \A v \in Nat : <<QueueChanged(v)>> \in Seq(Event) /\ <<PlaybackChanged, QueueChanged(v)>> \in Seq(Event)
<1>1. PlaybackChanged \in Event /\ LibraryChanged \in Event /\ \A v \in Nat : QueueChanged(v) \in Event
  BY DEF PlaybackChanged, LibraryChanged, QueueChanged, Event
<1> HIDE DEF Event
<1>2. QED
  BY <1>1

LEMMA AnswerFacts ==
  /\ NoAnswer \in Answer
  /\ \A items \in Seq(Tracks) : [kind |-> "queue", items |-> items] \in Answer
  /\ \A k, n, v \in Nat : [kind |-> "page", copy |-> k, swap |-> n, version |-> v] \in Answer
  /\ \A playing \in BOOLEAN, t \in Tracks \cup {NoTrack}, v, n \in Nat :
       [kind |-> "state", playing |-> playing, track |-> t, version |-> v, library |-> n] \in Answer
<1>1. NoAnswer \in Answer
  BY DEF Answer
<1>2. \A items \in Seq(Tracks) : [kind |-> "queue", items |-> items] \in Answer
  BY DEF Answer
<1>3. \A k, n, v \in Nat : [kind |-> "page", copy |-> k, swap |-> n, version |-> v] \in Answer
  BY DEF Answer
<1>4. \A playing \in BOOLEAN, t \in Tracks \cup {NoTrack}, v, n \in Nat :
        [kind |-> "state", playing |-> playing, track |-> t, version |-> v, library |-> n] \in Answer
  BY DEF Answer
<1>5. QED
  BY <1>1, <1>2, <1>3, <1>4

(* A record with one field or more changed. *)
LEMMA ConnWith ==
  ASSUME NEW r \in Conn
  PROVE  /\ \A pc \in Pcs : [r EXCEPT !.pc = pc] \in Conn
         /\ \A cmd \in Commands : [r EXCEPT !.cmd = cmd] \in Conn
         /\ \A arg \in Nat : [r EXCEPT !.arg = arg] \in Conn
         /\ \A source \in Tracks \cup {NoTrack} : [r EXCEPT !.source = source] \in Conn
         /\ \A v \in Nat : [r EXCEPT !.version = v] \in Conn
         /\ \A tells \in Seq(Event) : [r EXCEPT !.tells = tells] \in Conn
         /\ \A answer \in Answer : [r EXCEPT !.answer = answer] \in Conn
<1>1. \A pc \in Pcs : [r EXCEPT !.pc = pc] \in Conn
  BY DEF Conn
<1>2. \A cmd \in Commands : [r EXCEPT !.cmd = cmd] \in Conn
  BY DEF Conn
<1>3. \A arg \in Nat : [r EXCEPT !.arg = arg] \in Conn
  BY DEF Conn
<1>4. \A source \in Tracks \cup {NoTrack} : [r EXCEPT !.source = source] \in Conn
  BY DEF Conn
<1>5. \A v \in Nat : [r EXCEPT !.version = v] \in Conn
  BY DEF Conn
<1>6. \A tells \in Seq(Event) : [r EXCEPT !.tells = tells] \in Conn
  BY DEF Conn
<1>7. \A answer \in Answer : [r EXCEPT !.answer = answer] \in Conn
  BY DEF Conn
<1>8. QED
  BY <1>1, <1>2, <1>3, <1>4, <1>5, <1>6, <1>7

LEMMA ConnFields ==
  ASSUME NEW r \in Conn
  PROVE  /\ r.pc \in Pcs /\ r.cmd \in Commands /\ r.arg \in Nat /\ r.source \in Tracks \cup {NoTrack}
         /\ r.version \in Nat /\ r.tells \in Seq(Event) /\ r.answer \in Answer
BY DEF Conn

LEMMA IdleTyped == Idle \in Conn
<1>1. "idle" \in Pcs /\ "status" \in Commands /\ <<>> \in Seq(Event) /\ NoAnswer \in Answer
  BY EventFacts, AnswerFacts DEF Pcs, Commands, Reads
<1>2. QED
  BY <1>1 DEF Idle, Conn

LEMMA DoneTyped ==
  ASSUME NEW c \in Conns, Done(c)
  PROVE  Typed(c)
BY IdleTyped DEF Done, Typed, Becomes

LEMMA AnnounceTyped ==
  ASSUME NEW c \in Conns, NEW v \in Nat, NEW events \in Seq(Event), Announce(c, v, events)
  PROVE  Typed(c)
<1>0. "tell" \in Pcs
  BY DEF Pcs
<1> DEFINE r == [Idle EXCEPT !.pc = "tell"]
           s == [r EXCEPT !.version = v]
           t == [s EXCEPT !.tells = events]
<1>1. conn' = [conn EXCEPT ![c] = t]
  BY DEF Announce
<1>2. r \in Conn
  BY <1>0, IdleTyped, ConnWith
<1> HIDE DEF r
<1>3. s \in Conn
  BY <1>2, ConnWith
<1> HIDE DEF s
<1>4. t \in Conn
  BY <1>3, ConnWith
<1> HIDE DEF t
<1>5. QED
  BY <1>1, <1>4 DEF Typed, Becomes

LEMMA ReplyTyped ==
  ASSUME NEW c \in Conns, NEW a \in Answer, Reply(c, a)
  PROVE  Typed(c)
<1>0. "answered" \in Pcs
  BY DEF Pcs
<1> DEFINE r == [Idle EXCEPT !.pc = "answered"]
           s == [r EXCEPT !.answer = a]
<1>1. Done(c) \/ conn' = [conn EXCEPT ![c] = s]
  BY DEF Reply
<1>2. r \in Conn
  BY <1>0, IdleTyped, ConnWith
<1> HIDE DEF r
<1>3. s \in Conn
  BY <1>2, ConnWith
<1> HIDE DEF s
<1>4. QED
  BY <1>1, <1>3, DoneTyped DEF Typed, Becomes

LEMMA AskedTyped ==
  ASSUME NEW c \in Conns, NEW cmd \in Commands, NEW arg \in Nat, library.version \in Nat,
         conn' = [conn EXCEPT ![c] = Asked(cmd, arg)]
  PROVE  Typed(c)
<1>0. "first" \in Pcs
  BY DEF Pcs
<1> DEFINE v == IF cmd = "media" THEN library.version ELSE 0
           r == [Idle EXCEPT !.pc = "first"]
           s == [r EXCEPT !.cmd = cmd]
           t == [s EXCEPT !.arg = arg]
           u == [t EXCEPT !.version = v]
<1>1. Asked(cmd, arg) = u
  BY DEF Asked
<1>2. v \in Nat
  OBVIOUS
<1> HIDE DEF v
<1>3. r \in Conn
  BY <1>0, IdleTyped, ConnWith
<1> HIDE DEF r
<1>4. s \in Conn
  BY <1>3, ConnWith
<1> HIDE DEF s
<1>5. t \in Conn
  BY <1>4, ConnWith
<1> HIDE DEF t
<1>6. u \in Conn
  BY <1>2, <1>5, ConnWith
<1> HIDE DEF u
<1>7. QED
  BY <1>1, <1>6 DEF Typed, Becomes

LEMMA PcTyped ==
  ASSUME conn \in [Conns -> Conn], NEW c \in Conns, NEW pc \in Pcs, conn' = [conn EXCEPT ![c].pc = pc]
  PROVE  Typed(c)
<1> DEFINE r == conn[c]
           s == [r EXCEPT !.pc = pc]
<1>1. r \in Conn /\ conn' = [conn EXCEPT ![c] = s]
  OBVIOUS
<1> HIDE DEF r
<1>2. s \in Conn
  BY <1>1, ConnWith
<1> HIDE DEF s
<1>3. QED
  BY <1>1, <1>2 DEF Typed, Becomes

LEMMA ThenPlayerTyped ==
  ASSUME conn \in [Conns -> Conn], NEW c \in Conns, NEW source \in Tracks \cup {NoTrack}, NEW v \in Nat,
         NEW events \in Seq(Event), ThenPlayer(c, source, v, events)
  PROVE  Typed(c)
<1>0. "player" \in Pcs
  BY DEF Pcs
<1> DEFINE q == conn[c]
           r == [q EXCEPT !.pc = "player"]
           s == [r EXCEPT !.source = source]
           t == [s EXCEPT !.version = v]
           u == [t EXCEPT !.tells = events]
<1>1. q \in Conn /\ conn' = [conn EXCEPT ![c] = u]
  BY DEF ThenPlayer
<1> HIDE DEF q
<1>2. r \in Conn
  BY <1>0, <1>1, ConnWith
<1> HIDE DEF r
<1>3. s \in Conn
  BY <1>2, ConnWith
<1> HIDE DEF s
<1>4. t \in Conn
  BY <1>3, ConnWith
<1> HIDE DEF t
<1>5. u \in Conn
  BY <1>4, ConnWith
<1> HIDE DEF u
<1>6. QED
  BY <1>1, <1>5 DEF Typed, Becomes

-----------------------------------------------------------------------------
(* The actions. *)

LEMMA ServerTypedFacts ==
  ASSUME ServerTyped
  PROVE  /\ conn \in [Conns -> Conn] /\ version \in Nat /\ library.version \in Nat /\ library.copy \in Nat
         /\ library.swap \in Nat /\ library.reads \in Nat
         /\ budget \in Nat /\ Args0 /\ OnTracks(queue)
         /\ \A c \in Conns : conn[c] \in Conn
<1>1. conn \in [Conns -> Conn]
  BY DEF ServerTyped, ServerTypeOK
<1>2. \A c \in Conns : conn[c] \in Conn
  BY <1>1
<1>3. Args0
  BY <1>2, ConnFields DEF Args0
<1>4. QED
  BY <1>1, <1>2, <1>3 DEF ServerTyped, ServerTypeOK, Library

LEMMA EditedFacts ==
  ASSUME ServerTyped, NEW q, NEW c, Edits(c, q)
  PROVE  version' \in Nat /\ <<QueueChanged(version')>> \in Seq(Event)
         /\ <<PlaybackChanged, QueueChanged(version')>> \in Seq(Event)
<1>1. version' \in Nat
  BY ServerTypedFacts DEF Edits
<1>2. QED
  BY <1>1, EventFacts

LEMMA QueueCommandsTyped ==
  ASSUME ServerTyped, OnTracks(queue'), NEW c \in Conns,
         \/ Move(c) \/ PauseResumeStop(c) \/ Add(c) \/ Delete(c) \/ Clear(c)
         \/ HttpAdd(c) \/ HttpClear(c) \/ HttpDelete(c) \/ HttpJump(c)
  PROVE  Typed(c)
<1>0. /\ conn \in [Conns -> Conn] /\ 0 \in Nat /\ NoTrack \in Tracks \cup {NoTrack}
      /\ CurrentTrack(queue') \in Tracks \cup {NoTrack}
  BY ServerTypedFacts, OnTracksPlays
<1>1. CASE Move(c) \/ PauseResumeStop(c)
  <2>1. Announce(c, 0, <<PlaybackChanged>>) \/ Done(c)
    BY <1>1 DEF Move, PauseResumeStop
  <2>2. QED
    BY <1>0, <2>1, DoneTyped, AnnounceTyped, EventFacts
<1>2. CASE Done(c)
  BY <1>2, DoneTyped
<1>3. ASSUME NEW q, Edits(c, q), Announced(c) PROVE Typed(c)
  BY <1>3, EditedFacts, AnnounceTyped DEF Announced
<1>4. ASSUME NEW q, Edits(c, q), NEW source \in Tracks \cup {NoTrack},
             ThenPlayer(c, source, version', <<PlaybackChanged, QueueChanged(version')>>)
      PROVE  Typed(c)
  BY <1>0, <1>4, EditedFacts, ThenPlayerTyped
<1>5. CASE Add(c)
  BY <1>3, <1>5 DEF Add
<1>6. CASE Delete(c)
  BY <1>2, <1>3, <1>6 DEF Delete
<1>7. CASE Clear(c)
  BY <1>3, <1>7 DEF Clear
<1>8. CASE HttpAdd(c)
  <2>1. PICK q : /\ Edits(c, q)
                 /\ \/ Announced(c)
                    \/ ThenPlayer(c, CurrentTrack(queue'), version', <<PlaybackChanged, QueueChanged(version')>>)
    BY <1>8 DEF HttpAdd
  <2>2. QED
    BY <1>0, <1>3, <1>4, <2>1
<1>9. CASE HttpClear(c)
  BY <1>0, <1>4, <1>9 DEF HttpClear
<1>10. CASE HttpDelete(c)
  BY <1>0, <1>2, <1>3, <1>4, <1>10 DEF HttpDelete
<1>11. CASE HttpJump(c)
  <2>1. Done(c) \/ ThenPlayer(c, CurrentTrack(queue'), 0, <<PlaybackChanged>>)
    BY <1>11 DEF HttpJump
  <2>2. QED
    BY <1>0, <1>2, <2>1, ThenPlayerTyped, EventFacts
<1>12. QED
  BY <1>1, <1>5, <1>6, <1>7, <1>8, <1>9, <1>10, <1>11

LEMMA ReadStatusTyped ==
  ASSUME ServerTyped, NEW c \in Conns, ReadStatus(c)
  PROVE  Typed(c)
<1>0. "song" \in Pcs
  BY DEF Pcs
<1>1. conn \in [Conns -> Conn] /\ version \in Nat /\ library.version \in Nat /\ OnTracks(queue)
  BY ServerTypedFacts
<1>2. CurrentTrack(queue) \in Tracks \cup {NoTrack} /\ (player.state = "playing") \in BOOLEAN
  BY <1>1, OnTracksPlays
<1>3. Status \in Answer
  BY <1>1, <1>2, AnswerFacts DEF Status
<1> DEFINE q == conn[c]
           r == [q EXCEPT !.pc = "song"]
           s == [r EXCEPT !.answer = Status]
<1>4. q \in Conn /\ conn' = [conn EXCEPT ![c] = s]
  BY <1>1 DEF ReadStatus
<1> HIDE DEF q
<1>5. r \in Conn
  BY <1>0, <1>4, ConnWith
<1> HIDE DEF r
<1>6. s \in Conn
  BY <1>3, <1>5, ConnWith
<1> HIDE DEF s
<1>7. QED
  BY <1>4, <1>6 DEF Typed, Becomes

(* A state that was read, with one field read anew. *)
StateAnswers ==
  [kind : {"state"}, playing : BOOLEAN, track : Tracks \cup {NoTrack}, version : Nat, library : Nat]

LEMMA StateAnswer ==
  ASSUME NEW a \in Answer, a.kind = "state"
  PROVE  /\ a \in StateAnswers
         /\ \A n \in Nat : [a EXCEPT !.library = n] \in Answer
         /\ \A t \in Tracks \cup {NoTrack} : [a EXCEPT !.track = t] \in Answer
<1>1. a \in StateAnswers
  <2>1. \A x \in {NoAnswer} \cup [kind : {"queue"}, items : Seq(Tracks)]
                 \cup [kind : {"page"}, copy : Nat, swap : Nat, version : Nat] : x.kind # "state"
    BY DEF NoAnswer
  <2>2. QED
    BY <2>1 DEF Answer, StateAnswers
<1>2. ASSUME NEW n \in Nat PROVE [a EXCEPT !.library = n] \in StateAnswers
  BY <1>1 DEF StateAnswers
<1>3. ASSUME NEW t \in Tracks \cup {NoTrack} PROVE [a EXCEPT !.track = t] \in StateAnswers
  BY <1>1 DEF StateAnswers
<1>4. \A b \in StateAnswers : b \in Answer
  BY DEF StateAnswers, Answer
<1>5. QED
  BY <1>1, <1>2, <1>3, <1>4

LEMMA ReadSongTyped ==
  ASSUME Copies, ServerTyped, NEW c \in Conns, ReadSong(c)
  PROVE  Typed(c)
<1>0. "count" \in Pcs
  BY DEF Pcs
<1>1. conn[c].pc = "song"
  BY DEF ReadSong, Briefly, At
<1>2. conn \in [Conns -> Conn] /\ conn[c] \in Conn /\ conn[c].answer \in Answer /\ conn[c].answer.kind = "state"
  BY <1>1, ServerTypedFacts, ConnFields DEF Copies, Good
<1>3. CurrentTrack(queue) \in Tracks \cup {NoTrack}
  BY ServerTypedFacts, OnTracksPlays
<1> DEFINE q == conn[c]
           a == [q.answer EXCEPT !.track = CurrentTrack(queue)]
           r == [q EXCEPT !.pc = "count"]
           s == [r EXCEPT !.answer = a]
<1>4. a \in Answer
  BY <1>2, <1>3, StateAnswer
<1>5. conn' = [conn EXCEPT ![c] = s] /\ q \in Conn
  BY <1>2 DEF ReadSong
<1> HIDE DEF q, a
<1>6. r \in Conn
  BY <1>0, <1>5, ConnWith
<1> HIDE DEF r
<1>7. s \in Conn
  BY <1>4, <1>6, ConnWith
<1> HIDE DEF s
<1>8. QED
  BY <1>5, <1>7 DEF Typed, Becomes

LEMMA CountLibraryTyped ==
  ASSUME Copies, ServerTyped, NEW c \in Conns, CountLibrary(c)
  PROVE  Typed(c)
<1>1. conn[c].pc = "count"
  BY DEF CountLibrary, Briefly, At
<1>2. conn[c].answer \in Answer /\ conn[c].answer.kind = "state" /\ library.version \in Nat
  BY <1>1, ServerTypedFacts, ConnFields DEF Copies, Good
<1> DEFINE a == [conn[c].answer EXCEPT !.library = library.version]
<1>3. Reply(c, a)
  BY DEF CountLibrary
<1>4. a \in Answer
  BY <1>2, StateAnswer
<1> HIDE DEF a
<1>5. QED
  BY <1>3, <1>4, ReplyTyped

(* A reload takes the number of its reading along. *)
LEMMA ReadDatabaseTyped ==
  ASSUME ServerTyped, NEW c \in Conns, ReadDatabase(c)
  PROVE  Typed(c)
<1>0. "swap" \in Pcs
  BY DEF Pcs
<1> DEFINE q == conn[c]
           n == library'.reads
           r == [q EXCEPT !.pc = "swap"]
           s == [r EXCEPT !.version = n]
<1>1. CASE Done(c)
  BY <1>1, DoneTyped
<1>2. CASE library' = [library EXCEPT !.reads = library.reads + 1] /\ conn' = [conn EXCEPT ![c] = s]
  <2>1. q \in Conn
    BY ServerTypedFacts
  <2>2. n \in Nat
    <3>1. library \in Library
      BY DEF ServerTyped, ServerTypeOK
    <3>2. n = library.reads + 1
      BY <1>2, <3>1 DEF Library
    <3>3. QED
      BY <3>2, ServerTypedFacts
  <2>3. conn' = [conn EXCEPT ![c] = s]
    BY <1>2
  <2> HIDE DEF q, n
  <2>4. r \in Conn
    BY <1>0, <2>1, ConnWith
  <2> HIDE DEF r
  <2>5. s \in Conn
    BY <2>2, <2>4, ConnWith
  <2> HIDE DEF s
  <2>6. QED
    BY <2>3, <2>5 DEF Typed, Becomes
<1>3. QED
  BY <1>1, <1>2 DEF ReadDatabase

LEMMA TellTyped ==
  ASSUME IInv, ServerTyped, NEW c \in Conns, Tell(c)
  PROVE  Typed(c) /\ Head(conn[c].tells) \in Event
<1> DEFINE q == conn[c]
           rest == Tail(q.tells)
           r == [q EXCEPT !.tells = rest]
<1>1. MaySay("tell", q.version, q.tells)
  BY DEF Tell, IInv, Broadcasting, Speaking
<1>2. conn \in [Conns -> Conn] /\ q \in Conn /\ q.tells \in Seq(Event) /\ q.tells # <<>>
  <2>1. \A x, y : <<x>> # <<>> /\ <<x, y>> # <<>>
    OBVIOUS
  <2>2. q.tells # <<>>
    BY <1>1, <2>1 DEF MaySay
  <2>3. QED
    BY <2>2, ServerTypedFacts, ConnFields
<1>3. Done(c) \/ conn' = [conn EXCEPT ![c] = r]
  BY DEF Tell
<1> HIDE DEF q
<1>4. rest \in Seq(Event) /\ Head(q.tells) \in Event
  BY <1>2
<1> HIDE DEF rest
<1>5. r \in Conn
  BY <1>2, <1>4, ConnWith
<1> HIDE DEF r
<1>6. QED
  BY <1>3, <1>4, <1>5, DoneTyped DEF Typed, Becomes, q

LEMMA ServeTyped ==
  ASSUME IInv, Copies, ServerTyped, OnTracks(queue'), NEW c \in Conns, Serve(c)
  PROVE  Typed(c)
<1>0. /\ conn \in [Conns -> Conn] /\ 0 \in Nat /\ version \in Nat /\ library.version \in Nat /\ library.copy \in Nat
      /\ library.swap \in Nat /\ conn[c].version \in Nat /\ conn[c].tells \in Seq(Event) /\ OnTracks(queue)
  BY ServerTypedFacts, ConnFields
<1>1. CASE TakeFirst(c)
  BY <1>0, <1>1, PcTyped, "second" \in Pcs DEF TakeFirst, Pcs
<1>2. CASE \/ Move(c) \/ PauseResumeStop(c) \/ Add(c) \/ Delete(c) \/ Clear(c)
           \/ HttpAdd(c) \/ HttpClear(c) \/ HttpDelete(c) \/ HttpJump(c)
  BY <1>2, QueueCommandsTyped
<1>3. CASE UsePlayer(c)
  <2>1. Announce(c, conn[c].version, conn[c].tells) \/ Done(c)
    BY <1>3 DEF UsePlayer
  <2>2. QED
    BY <1>0, <2>1, DoneTyped, AnnounceTyped
<1>4. CASE ReadStatus(c)
  BY <1>4, ReadStatusTyped
<1>5. CASE CountLibrary(c)
  BY <1>5, CountLibraryTyped
<1>6. CASE ReadItems(c)
  <2>1. Reply(c, [kind |-> "queue", items |-> FlatTracks(queue)])
    BY <1>6 DEF ReadItems
  <2>2. [kind |-> "queue", items |-> FlatTracks(queue)] \in Answer
    BY <1>0, OnTracksPlays, AnswerFacts
  <2>3. QED
    BY <2>1, <2>2, ReplyTyped
<1>7. CASE ReadAlbums(c)
  <2>1. Reply(c, [kind |-> "page", copy |-> library.copy, swap |-> library.swap, version |-> library.version])
    BY <1>7 DEF ReadAlbums
  <2>2. [kind |-> "page", copy |-> library.copy, swap |-> library.swap, version |-> library.version] \in Answer
    BY <1>0, AnswerFacts
  <2>3. QED
    BY <2>1, <2>2, ReplyTyped
<1>8. CASE LookupMedia(c)
  BY <1>8, DoneTyped DEF LookupMedia
<1>9. CASE Swap(c)
  BY <1>0, <1>9, PcTyped, "mark" \in Pcs DEF Swap, Pcs
<1>10. CASE Mark(c)
  BY <1>0, <1>10, AnnounceTyped, EventFacts DEF Mark
<1>11. CASE Tell(c)
  BY <1>11, TellTyped
<1>12. CASE LookUp(c)
  <2>1. Done(c) \/ conn' = [conn EXCEPT ![c].pc = "found"]
    BY <1>12 DEF LookUp
  <2>2. "found" \in Pcs
    BY DEF Pcs
  <2>3. QED
    BY <1>0, <2>1, <2>2, DoneTyped, PcTyped
<1>13. CASE ReadSong(c)
  BY <1>13, ReadSongTyped
<1>14. CASE ReadDatabase(c)
  BY <1>14, ReadDatabaseTyped
<1>15. QED
  BY <1>1, <1>2, <1>3, <1>4, <1>5, <1>6, <1>7, <1>8, <1>9, <1>10, <1>11, <1>12, <1>13, <1>14 DEF Serve

LEMMA ConnsTyped ==
  ASSUME IInv, Copies, ServerTyped, OnTracks(queue'), [ServerNext]_server
  PROVE  conn' \in [Conns -> Conn]
<1>0. conn \in [Conns -> Conn] /\ library.version \in Nat
  BY ServerTypedFacts
<1>1. ASSUME NEW c \in Conns, Serve(c) PROVE conn' \in [Conns -> Conn]
  BY <1>0, <1>1, ServeTyped, TypedConns
<1>2. ASSUME NEW c \in Conns, NEW cmd \in Commands, NEW arg \in 0..MaxPosition, Begin(c, cmd, arg)
      PROVE  conn' \in [Conns -> Conn]
  <2>1. arg \in Nat
    BY PlayerServerAssumption
  <2>2. conn' = [conn EXCEPT ![c] = Asked(cmd, arg)]
    BY <1>2 DEF Begin
  <2>3. Typed(c)
    BY <1>0, <2>1, <2>2, AskedTyped
  <2>4. QED
    BY <1>0, <2>3, TypedConns
<1>3. CASE UNCHANGED server \/ TrackEnds
  BY <1>0, <1>3 DEF server, TrackEnds
<1>4. QED
  BY <1>1, <1>2, <1>3 DEF ServerNext

-----------------------------------------------------------------------------
(* The player. *)

PlayerTypes == {Off} \cup [state : {"playing", "paused"}, track : Tracks]

LEMMA PlayerFacts ==
  /\ Off \in PlayerTypes
  /\ \A t \in Tracks : [state |-> "playing", track |-> t] \in PlayerTypes
  /\ player \in PlayerTypes => Resumed \in PlayerTypes /\ Paused \in PlayerTypes
<1>1. Off \in PlayerTypes /\ \A t \in Tracks : [state |-> "playing", track |-> t] \in PlayerTypes
  BY DEF PlayerTypes
<1>2. ASSUME player = Off PROVE Resumed = Off /\ Paused = Off
  <2>1. player.state = "stopped"
    BY <1>2 DEF Off
  <2>2. [player EXCEPT !.state = player.state] = player
    BY <1>2 DEF Off
  <2>3. Resumed = [player EXCEPT !.state = player.state] /\ Paused = [player EXCEPT !.state = player.state]
    BY <2>1 DEF Resumed, Paused
  <2>4. QED
    BY <1>2, <2>2, <2>3
<1>3. ASSUME player \in [state : {"playing", "paused"}, track : Tracks]
      PROVE  Resumed \in PlayerTypes /\ Paused \in PlayerTypes
  <2> DEFINE up == IF player.state = "paused" THEN "playing" ELSE player.state
             down == IF player.state = "playing" THEN "paused" ELSE player.state
  <2>1. up \in {"playing", "paused"} /\ down \in {"playing", "paused"}
    BY <1>3
  <2>2. Resumed = [player EXCEPT !.state = up] /\ Paused = [player EXCEPT !.state = down]
    BY DEF Resumed, Paused
  <2> HIDE DEF up, down
  <2>3. /\ [player EXCEPT !.state = up] \in [state : {"playing", "paused"}, track : Tracks]
        /\ [player EXCEPT !.state = down] \in [state : {"playing", "paused"}, track : Tracks]
    BY <1>3, <2>1
  <2>4. QED
    BY <2>2, <2>3 DEF PlayerTypes
<1>4. QED
  BY <1>1, <1>2, <1>3 DEF PlayerTypes

LEMMA MovePlayer ==
  ASSUME ServerTyped, NEW c \in Conns, Move(c)
  PROVE  player' \in PlayerTypes
<1> DEFINE m == Moved(conn[c].cmd, conn[c].arg)
<1>1. \/ player' = Resumed \/ player' = Off \/ player' = player
      \/ m.some /\ player' = [state |-> "playing", track |-> CurrentTrack(m.queue)]
  BY DEF Move, Loads, Refuses
<1>2. conn[c].cmd \in MpdMoves /\ conn[c].arg \in Nat
  BY ServerTypedFacts DEF Move, UnderBoth, At, Args0
<1>3. m.some => CurrentTrack(m.queue) \in Tracks
  BY <1>2, MovedIs, ServerTypedFacts, OnTracksPlays
<1>4. player \in PlayerTypes
  BY DEF ServerTyped, ServerTypeOK, PlayerTypes
<1> HIDE DEF m
<1>5. QED
  BY <1>1, <1>3, <1>4, PlayerFacts

LEMMA PlayerTyped ==
  ASSUME ServerTyped, [ServerNext]_server
  PROVE  player' \in PlayerTypes
<1>0. player \in PlayerTypes
  BY DEF ServerTyped, ServerTypeOK, PlayerTypes
<1>1. ASSUME NEW c \in Conns, Serve(c) PROVE player' \in PlayerTypes
  <2>1. CASE Move(c)
    BY <2>1, MovePlayer
  <2>2. CASE PauseResumeStop(c)
    <3>1. conn[c].cmd \in {"pause", "resume", "stop"}
      BY <2>2 DEF PauseResumeStop, UnderFirst, Briefly, At, PlayerOnly
    <3>2. player' \in {Paused, Resumed, Off, player}
      BY <2>2, <3>1 DEF PauseResumeStop, Refuses
    <3>3. QED
      BY <1>0, <3>2, PlayerFacts
  <2>3. CASE UsePlayer(c)
    <3>1. conn[c].source \in Tracks \cup {NoTrack}
      BY ServerTypedFacts, ConnFields
    <3>2. \/ player' = Off \/ player' = player
          \/ conn[c].source # NoTrack /\ player' = [state |-> "playing", track |-> conn[c].source]
      BY <2>3 DEF UsePlayer, Loads, Refuses
    <3>3. QED
      BY <1>0, <3>1, <3>2, PlayerFacts
  <2>4. CASE ~Move(c) /\ ~PauseResumeStop(c) /\ ~UsePlayer(c)
    <3>1. UNCHANGED player
      BY <1>1, <2>4 DEF Serve, TakeFirst, Add, Delete, Clear, HttpAdd, HttpClear, HttpDelete, HttpJump, Edits,
                        LookUp, ReadStatus, ReadSong, CountLibrary, ReadItems, ReadAlbums, LookupMedia, ReadDatabase,
                        Swap, Mark, Tell, data
    <3>2. QED
      BY <1>0, <3>1
  <2>5. QED
    BY <2>1, <2>2, <2>3, <2>4
<1>2. CASE UNCHANGED server \/ TrackEnds
      \/ \E c \in Conns, cmd \in Commands, arg \in 0..MaxPosition : Begin(c, cmd, arg)
  BY <1>0, <1>2, PlayerFacts DEF server, data, TrackEnds, Begin
<1>3. QED
  BY <1>1, <1>2 DEF ServerNext

-----------------------------------------------------------------------------
(* The broadcast channel, and the server's types together. *)

FeedTypes == [open : BOOLEAN, events : Seq(Event), lagged : BOOLEAN]

LEMMA FeedWith ==
  ASSUME NEW f \in FeedTypes
  PROVE  /\ f.events \in Seq(Event) /\ f.lagged \in BOOLEAN
         /\ \A open \in BOOLEAN : [f EXCEPT !.open = open] \in FeedTypes
         /\ \A events \in Seq(Event) : [f EXCEPT !.events = events] \in FeedTypes
         /\ \A lagged \in BOOLEAN : [f EXCEPT !.lagged = lagged] \in FeedTypes
<1>1. f.events \in Seq(Event) /\ f.lagged \in BOOLEAN
  BY DEF FeedTypes
<1>2. \A open \in BOOLEAN : [f EXCEPT !.open = open] \in FeedTypes
  BY DEF FeedTypes
<1>3. \A events \in Seq(Event) : [f EXCEPT !.events = events] \in FeedTypes
  BY DEF FeedTypes
<1>4. \A lagged \in BOOLEAN : [f EXCEPT !.lagged = lagged] \in FeedTypes
  BY DEF FeedTypes
<1>5. QED
  BY <1>1, <1>2, <1>3, <1>4

LEMMA NoFeedTyped == NoFeed \in FeedTypes /\ \A open \in BOOLEAN : [NoFeed EXCEPT !.open = open] \in FeedTypes
<1>1. NoFeed \in FeedTypes
  BY EventFacts DEF NoFeed, FeedTypes
<1>2. QED
  BY <1>1, FeedWith

LEMMA CapacityFacts ==
  ASSUME setting \in Settings
  PROVE  setting.capacity \in Nat /\ setting.capacity > 0 /\ setting.budget \in Nat /\ setting.start \in Seq(Albums)
<1>1. IsSetting(setting)
  BY PlayerServerAssumption
<1>2. QED
  BY <1>1 DEF IsSetting

LEMMA SentTyped ==
  ASSUME setting \in Settings, NEW f \in FeedTypes, NEW e \in Event
  PROVE  Sent(f, e) \in FeedTypes
<1>0. f.events \in Seq(Event) /\ Len(f.events) \in Nat
  BY FeedWith
<1>1. CASE ~f.open
  BY <1>1 DEF Sent
<1>2. CASE f.open /\ Len(f.events) < setting.capacity
  <2>1. Sent(f, e) = [f EXCEPT !.events = Append(f.events, e)]
    BY <1>2 DEF Sent
  <2>2. Append(f.events, e) \in Seq(Event)
    BY <1>0
  <2>3. QED
    BY <2>1, <2>2, FeedWith
<1>3. CASE f.open /\ ~(Len(f.events) < setting.capacity)
  <2> DEFINE g == [f EXCEPT !.events = Append(Tail(f.events), e)]
             h == [g EXCEPT !.lagged = TRUE]
  <2>1. Sent(f, e) = h
    BY <1>3 DEF Sent
  <2>2. f.events # <<>>
    <3>1. Len(<<>>) = 0
      OBVIOUS
    <3>2. QED
      BY <1>0, <1>3, <3>1, CapacityFacts
  <2>3. Append(Tail(f.events), e) \in Seq(Event)
    BY <1>0, <2>2
  <2>4. g \in FeedTypes
    BY <2>3, FeedWith
  <2> HIDE DEF g
  <2>5. h \in FeedTypes
    BY <2>4, FeedWith
  <2>6. QED
    BY <2>1, <2>5
<1>4. QED
  BY <1>1, <1>2, <1>3

LEMMA RestTyped ==
  ASSUME IInv, Copies, ServerTyped, [ServerNext]_server
  PROVE  setting' = setting /\ budget' \in Nat /\ feed' \in FeedTypes
<1>0. setting \in Settings /\ budget \in Nat /\ feed \in FeedTypes
  BY DEF ServerTyped, ServerTypeOK, FeedTypes
<1>1. setting' = setting
  BY ZenonT(60) DEF ServerNext, server, Begin, TrackEnds, Serve, TakeFirst, Move, PauseResumeStop, Add, Delete, Clear,
         HttpAdd, HttpClear, HttpDelete, HttpJump, UsePlayer, LookUp, ReadStatus, ReadSong, CountLibrary, ReadItems, ReadAlbums,
         LookupMedia, ReadDatabase, Swap, Mark, Tell, UnderBoth, UnderFirst, Briefly
<1>2. budget' = budget \/ (budget > 0 /\ budget' = budget - 1)
  BY ZenonT(60) DEF ServerNext, server, Begin, TrackEnds, Serve, TakeFirst, Move, PauseResumeStop, Add, Delete, Clear,
         HttpAdd, HttpClear, HttpDelete, HttpJump, UsePlayer, LookUp, ReadStatus, ReadSong, CountLibrary, ReadItems, ReadAlbums,
         LookupMedia, ReadDatabase, Swap, Mark, Tell, UnderBoth, UnderFirst, Briefly
<1>3. feed' = feed \/ \E c \in Conns : Tell(c)
  BY ZenonT(60) DEF ServerNext, server, Begin, TrackEnds, Serve, TakeFirst, Move, PauseResumeStop, Add, Delete, Clear,
         HttpAdd, HttpClear, HttpDelete, HttpJump, UsePlayer, LookUp, ReadStatus, ReadSong, CountLibrary, ReadItems, ReadAlbums,
         LookupMedia, ReadDatabase, Swap, Mark, UnderBoth, UnderFirst, Briefly
<1>4. ASSUME NEW c \in Conns, Tell(c) PROVE feed' \in FeedTypes
  <2>1. feed' = Sent(feed, Head(conn[c].tells))
    BY <1>4 DEF Tell
  <2>2. QED
    BY <1>0, <1>4, <2>1, TellTyped, SentTyped
<1>5. QED
  BY <1>0, <1>1, <1>2, <1>3, <1>4

LEMMA PiecesTyped ==
  ASSUME IInv, Copies, setting \in Settings, OnTracks(queue), player \in PlayerTypes,
         conn \in [Conns -> Conn], budget \in Nat, feed \in FeedTypes
  PROVE  ServerTyped
<1>1. queue \in Controller
  BY OnTracksPlays
<1>2. version \in Nat /\ library \in Library /\ index \in Versioned /\ held \in [Locks -> Conns \cup {Nobody}]
  BY DEF IInv, Shape, Copies, Cached
<1>3. told \subseteq Nat /\ unsaid \subseteq Nat
  <2>1. told \subseteq 1..version /\ unsaid \subseteq 1..version
    BY DEF IInv, Accounted
  <2>2. 1..version \subseteq Nat
    BY <1>2
  <2>3. QED
    BY <2>1, <2>2
<1>4. QED
  BY <1>1, <1>2, <1>3 DEF ServerTyped, ServerTypeOK, PlayerTypes, FeedTypes

LEMMA ServerTypedStep ==
  ASSUME IInv, Copies, ServerTyped, IInv', Copies', [ServerNext]_server
  PROVE  ServerTyped' /\ QueueStep
<1>1. OnTracks(queue) /\ Args0 /\ setting \in Settings
  BY ServerTypedFacts DEF ServerTyped, ServerTypeOK
<1>2. QueueStep
  BY <1>1, QueueSteps
<1>3. OnTracks(queue')
  BY <1>1, <1>2, QueueStepKeeps
<1>4. conn' \in [Conns -> Conn] /\ player' \in PlayerTypes /\ setting' \in Settings /\ budget' \in Nat
      /\ feed' \in FeedTypes
  BY <1>1, <1>3, ConnsTyped, PlayerTyped, RestTyped
<1>5. (IInv /\ Copies /\ setting \in Settings /\ OnTracks(queue) /\ player \in PlayerTypes
       /\ conn \in [Conns -> Conn] /\ budget \in Nat /\ feed \in FeedTypes => ServerTyped)'
  BY PiecesTyped, PTL
<1>6. QED
  BY <1>2, <1>3, <1>4, <1>5 DEF OnTracks, PlayerTypes, FeedTypes

(* The albums queued at the start. *)
LEMMA StartOnTracks ==
  ASSUME NEW s \in Seq(Albums)
  PROVE  OnTracks([EmptyController EXCEPT !.items = [i \in DOMAIN s |-> NewItem(s[i])]])
<1> DEFINE items == [i \in DOMAIN s |-> NewItem(s[i])]
           d == [EmptyController EXCEPT !.items = items]
<1>1. Len(s) \in Nat /\ DOMAIN s = 1..Len(s) /\ \A i \in DOMAIN s : s[i] \in Seq(Tracks) /\ s[i] # <<>>
  BY AlbumFacts, ElementOfSeq, LenProperties
<1>2. \A i \in DOMAIN s : NewItem(s[i]) \in Stocked
  BY <1>1, NewItemStocked
<1>3. items \in Seq(Stocked) /\ DOMAIN items = DOMAIN s
  BY <1>1, <1>2
<1>4. \A i \in DOMAIN s : items[i].at <= Len(items[i].tracks)
  <2>1. \A i \in DOMAIN s : Len(s[i]) \in Nat /\ Len(s[i]) # 0
    BY <1>1, EmptySeq, LenProperties
  <2>2. \A i \in DOMAIN s : items[i].at = 1 /\ items[i].tracks = s[i]
    BY DEF NewItem
  <2>3. QED
    BY <2>1, <2>2
<1>5. d = Made(items, 0, 1) /\ d.items = items
  BY DEF EmptyController, Made
<1> HIDE DEF items, d
<1>6. FitsIn(Stocked, items, 0, 1)
  BY <1>3, LenProperties DEF FitsIn
<1>7. WellFormed(d)
  BY <1>5, <1>6, MadeFormed, StockedKind, WellFormedIs
<1>8. OnTracks(d)
  BY <1>3, <1>4, <1>5, <1>7 DEF OnTracks
<1>9. QED
  BY <1>8 DEF d, items

LEMMA ServerTypedStart ==
  ASSUME ServerInit
  PROVE  ServerTyped
<1>1. setting \in Settings /\ IInv /\ Copies
  BY ServerStart, ServerCopiesStart DEF ServerInit
<1>2. OnTracks(queue)
  BY <1>1, CapacityFacts, StartOnTracks DEF ServerInit
<1>3. player \in PlayerTypes /\ budget \in Nat
  BY <1>1, PlayerFacts, CapacityFacts DEF ServerInit
<1>4. conn \in [Conns -> Conn]
  BY IdleTyped DEF ServerInit
<1>5. feed \in FeedTypes
  BY NoFeedTyped DEF ServerInit
<1>6. QED
  BY <1>1, <1>2, <1>3, <1>4, <1>5, PiecesTyped

-----------------------------------------------------------------------------
(* The types of the screen. *)

RemoteTypes ==
  [state : Answer, queue : Answer, page : Answer, requests : SUBSET Parts, failures : 0..DisableThreshold,
   disabled : BOOLEAN, listening : BOOLEAN]
RemoteTyped(r) == r \in RemoteTypes /\ r.disabled = (r.failures = DisableThreshold)
WorkerTypes == [busy : BOOLEAN, asked : SUBSET Parts, got : SUBSET Answer, failed : BOOLEAN]

(* No refresh is running once refreshing was given up: a failure that is   *)
(* counted is never one too many.                                          *)
ScreenTyped ==
  /\ RemoteTyped(remote) /\ worker \in WorkerTypes
  /\ worker.busy => ~remote.disabled
  /\ sse \in {"off", "connect", "snapshot", "live"}
  /\ wire \in Seq(Frame)

LEMMA RemoteWith ==
  ASSUME NEW r \in RemoteTypes
  PROVE  /\ DOMAIN r = RemoteFields
         /\ \A a \in Answer : /\ [r EXCEPT !.state = a] \in RemoteTypes /\ [r EXCEPT !.queue = a] \in RemoteTypes
                              /\ [r EXCEPT !.page = a] \in RemoteTypes
         /\ \A s \in SUBSET Parts : [r EXCEPT !.requests = s] \in RemoteTypes
         /\ \A n \in 0..DisableThreshold : [r EXCEPT !.failures = n] \in RemoteTypes
         /\ \A b \in BOOLEAN : /\ [r EXCEPT !.disabled = b] \in RemoteTypes
                               /\ [r EXCEPT !.listening = b] \in RemoteTypes
<1>1. DOMAIN r = RemoteFields
  BY DEF RemoteTypes, RemoteFields
<1>2. \A a \in Answer : [r EXCEPT !.state = a] \in RemoteTypes
  BY DEF RemoteTypes
<1>3. \A a \in Answer : [r EXCEPT !.queue = a] \in RemoteTypes
  BY DEF RemoteTypes
<1>4. \A a \in Answer : [r EXCEPT !.page = a] \in RemoteTypes
  BY DEF RemoteTypes
<1>5. \A s \in SUBSET Parts : [r EXCEPT !.requests = s] \in RemoteTypes
  BY DEF RemoteTypes
<1>6. \A n \in 0..DisableThreshold : [r EXCEPT !.failures = n] \in RemoteTypes
  BY DEF RemoteTypes
<1>7. \A b \in BOOLEAN : [r EXCEPT !.disabled = b] \in RemoteTypes
  BY DEF RemoteTypes
<1>8. \A b \in BOOLEAN : [r EXCEPT !.listening = b] \in RemoteTypes
  BY DEF RemoteTypes
<1>9. QED
  BY <1>1, <1>2, <1>3, <1>4, <1>5, <1>6, <1>7, <1>8

LEMMA RemoteParts ==
  ASSUME NEW r \in RemoteTypes
  PROVE  /\ r.state \in Answer /\ r.queue \in Answer /\ r.page \in Answer /\ r.requests \in SUBSET Parts
         /\ r.failures \in 0..DisableThreshold /\ r.disabled \in BOOLEAN /\ r.listening \in BOOLEAN
BY DEF RemoteTypes

(* What counts for giving up is left alone. *)
Patient(r, s) == RemoteTyped(s) /\ s.failures = r.failures /\ s.disabled = r.disabled

LEMMA WantsTyped ==
  ASSUME NEW r, RemoteTyped(r), NEW part \in Parts, NEW when
  PROVE  Patient(r, Wants(r, part, when))
<1>1. CASE when
  <2> DEFINE s == [r EXCEPT !.requests = r.requests \cup {part}]
  <2>1. Wants(r, part, when) = s
    BY <1>1 DEF Wants
  <2>2. r \in RemoteTypes /\ r.requests \cup {part} \in SUBSET Parts
    BY RemoteParts DEF RemoteTyped
  <2>3. s \in RemoteTypes
    BY <2>2, RemoteWith
  <2>4. s.failures = r.failures /\ s.disabled = r.disabled
    BY <2>2, RemoteWith DEF RemoteFields
  <2>5. QED
    BY <2>1, <2>3, <2>4 DEF Patient, RemoteTyped
<1>2. CASE ~when
  BY <1>2 DEF Wants, Patient
<1>3. QED
  BY <1>1, <1>2

LEMMA HandledTyped ==
  ASSUME NEW r, RemoteTyped(r), NEW frame \in Frame, Known(frame)
  PROVE  Patient(r, Handled(r, frame))
<1> DEFINE blank == [r EXCEPT !.page = Missing]
           deaf  == [r EXCEPT !.listening = FALSE]
           shown == [r EXCEPT !.state = frame]
<1>0. r \in RemoteTypes /\ DOMAIN r = RemoteFields /\ Missing \in Answer /\ Missing = NoAnswer
      /\ "state" \in Parts /\ "queue" \in Parts /\ "page" \in Parts
  BY RemoteWith, AnswerFacts DEF RemoteTyped, Missing, NoAnswer, Parts
<1>1. Patient(r, blank) /\ Patient(r, deaf)
  <2>1. blank \in RemoteTypes /\ deaf \in RemoteTypes
    BY <1>0, RemoteWith
  <2>2. /\ blank.failures = r.failures /\ blank.disabled = r.disabled
        /\ deaf.failures = r.failures /\ deaf.disabled = r.disabled
    BY <1>0 DEF RemoteFields
  <2>3. QED
    BY <2>1, <2>2 DEF Patient, RemoteTyped
<1>2. CASE "event" \in DOMAIN frame
  <2>1. CASE frame.event = "playback"
    <3>1. Handled(r, frame) = Wants(r, "state", TRUE)
      BY <1>2, <2>1 DEF Handled
    <3>2. QED
      BY <1>0, <3>1, WantsTyped
  <2>2. CASE frame.event = "queue"
    <3>1. Handled(r, frame) = Wants(r, "queue", r.state = Missing \/ r.state.version # frame.version)
      BY <1>2, <2>2 DEF Handled
    <3>2. QED
      BY <1>0, <3>1, WantsTyped
  <2>3. CASE frame.event = "library"
    <3>1. Handled(r, frame) = Wants(blank, "page", TRUE)
      BY <1>2, <2>3 DEF Handled
    <3> HIDE DEF blank
    <3>2. Patient(blank, Wants(blank, "page", TRUE))
      BY <1>0, <1>1, WantsTyped DEF Patient
    <3>3. QED
      BY <1>1, <3>1, <3>2 DEF Patient
  <2>4. QED
    BY <1>2, <2>1, <2>2, <2>3 DEF Known
<1>3. CASE "event" \notin DOMAIN frame /\ frame.kind = "broken"
  BY <1>1, <1>3 DEF Handled
<1>4. CASE "event" \notin DOMAIN frame /\ frame.kind # "broken"
  <2> DEFINE when == PageStale(r) \/ PageStale(shown)
  <2>1. Handled(r, frame) = Wants(shown, "page", when)
    BY <1>4 DEF Handled
  <2>2. frame \in Answer
    <3>1. \A e \in Event : "event" \in DOMAIN e
      BY DEF Event
    <3>2. QED
      BY <1>4, <3>1 DEF Frame
  <2>3. shown \in RemoteTypes
    BY <1>0, <2>2, RemoteWith
  <2>4. shown.failures = r.failures /\ shown.disabled = r.disabled
    BY <1>0 DEF RemoteFields
  <2> HIDE DEF shown, when
  <2>5. RemoteTyped(shown)
    BY <2>3, <2>4 DEF RemoteTyped
  <2>6. Patient(shown, Wants(shown, "page", when))
    BY <1>0, <2>5, WantsTyped
  <2>7. QED
    BY <2>1, <2>4, <2>6 DEF Patient
<1>5. QED
  BY <1>2, <1>3, <1>4

LEMMA BrowsedTyped ==
  ASSUME NEW r, RemoteTyped(r)
  PROVE  Patient(r, Browsed(r))
<1> DEFINE q == Wants(r, "state", r.state = Missing)
<1>0. "state" \in Parts /\ "page" \in Parts
  BY DEF Parts
<1>1. Patient(r, q)
  BY <1>0, WantsTyped
<1>2. Browsed(r) = Wants(q, "page", PageStale(r))
  BY DEF Browsed
<1> HIDE DEF q
<1>3. Patient(q, Browsed(r))
  BY <1>0, <1>1, <1>2, WantsTyped DEF Patient
<1>4. QED
  BY <1>1, <1>3 DEF Patient

LEMMA FailedTyped ==
  ASSUME NEW r, RemoteTyped(r), ~r.disabled, worker \in WorkerTypes
  PROVE  RemoteTyped(Failed(r))
<1> DEFINE n == r.failures + 1
           s == [r EXCEPT !.failures = n]
           t == [s EXCEPT !.disabled = TRUE]
           over  == [t EXCEPT !.requests = {}]
           again == [s EXCEPT !.requests = r.requests \cup worker.asked]
<1>0. r \in RemoteTypes /\ DOMAIN r = RemoteFields /\ r.requests \in SUBSET Parts /\ r.disabled \in BOOLEAN
      /\ worker.asked \in SUBSET Parts
  BY RemoteWith, RemoteParts DEF RemoteTyped, WorkerTypes
<1>1. r.failures # DisableThreshold /\ r.failures \in 0..DisableThreshold /\ r.disabled = FALSE
  BY <1>0, RemoteParts DEF RemoteTyped
<1>2. n \in 0..DisableThreshold /\ (n >= DisableThreshold <=> n = DisableThreshold)
  BY <1>1 DEF DisableThreshold
<1>3. Failed(r) = IF n >= DisableThreshold THEN over ELSE again
  BY DEF Failed
<1> HIDE DEF n
<1>4. s \in RemoteTypes /\ s.failures = n /\ s.disabled = FALSE
  <2>1. s \in RemoteTypes
    BY <1>0, <1>2, RemoteWith
  <2>2. QED
    BY <1>0, <1>1, <2>1 DEF RemoteFields
<1> HIDE DEF s
<1>5. again \in RemoteTypes /\ again.failures = n /\ again.disabled = FALSE
  <2>1. again \in RemoteTypes /\ DOMAIN s = RemoteFields
    BY <1>0, <1>4, RemoteWith
  <2>2. QED
    BY <1>4, <2>1 DEF RemoteFields
<1>6. over \in RemoteTypes /\ over.failures = n /\ over.disabled = TRUE
  <2>1. t \in RemoteTypes /\ DOMAIN s = RemoteFields
    BY <1>4, RemoteWith
  <2>2. t.failures = n /\ t.disabled = TRUE
    BY <1>4, <2>1 DEF RemoteFields
  <2> HIDE DEF t
  <2>3. over \in RemoteTypes /\ DOMAIN t = RemoteFields
    BY <2>1, RemoteWith
  <2>4. QED
    BY <2>2, <2>3 DEF RemoteFields
<1> HIDE DEF over, again
<1>7. CASE n >= DisableThreshold
  BY <1>2, <1>3, <1>6, <1>7 DEF RemoteTyped
<1>8. CASE ~(n >= DisableThreshold)
  BY <1>2, <1>3, <1>5, <1>8 DEF RemoteTyped
<1>9. QED
  BY <1>7, <1>8

LEMMA AppliedTyped ==
  ASSUME NEW r, RemoteTyped(r), ~r.disabled, worker \in WorkerTypes
  PROVE  RemoteTyped(Applied(r))
<1> DEFINE part(q, old) == IF q \in Got THEN CHOOSE a \in worker.got : a.kind = q ELSE old
           st == part("state", r.state)
           qu == part("queue", r.queue)
           pg == part("page", r.page)
           rq == r.requests \ (Got \cap {"page"})
           r1 == [r EXCEPT !.state = st]
           r2 == [r1 EXCEPT !.queue = qu]
           r3 == [r2 EXCEPT !.page = pg]
           r4 == [r3 EXCEPT !.requests = rq]
           r5 == [r4 EXCEPT !.failures = 0]
<1>1. Applied(r) = r5
  BY DEF Applied
<1>2. r \in RemoteTypes /\ r.disabled = FALSE /\ worker.got \subseteq Answer
  BY RemoteParts DEF RemoteTyped, WorkerTypes
<1>3. \A q \in Got : (CHOOSE a \in worker.got : a.kind = q) \in worker.got
  BY DEF Got
<1>4. st \in Answer /\ qu \in Answer /\ pg \in Answer /\ rq \in SUBSET Parts /\ 0 \in 0..DisableThreshold
  <2>1. ASSUME NEW q, NEW old \in Answer PROVE part(q, old) \in Answer
    BY <1>2, <1>3
  <2>2. r.state \in Answer /\ r.queue \in Answer /\ r.page \in Answer /\ r.requests \in SUBSET Parts
    BY <1>2, RemoteParts
  <2> HIDE DEF part
  <2>3. st \in Answer /\ qu \in Answer /\ pg \in Answer
    BY <2>1, <2>2
  <2>4. QED
    BY <2>2, <2>3 DEF DisableThreshold
<1> HIDE DEF part, st, qu, pg, rq
<1>5. r1 \in RemoteTypes /\ r1.disabled = FALSE
  <2>1. r1 \in RemoteTypes /\ DOMAIN r = RemoteFields
    BY <1>2, <1>4, RemoteWith
  <2>2. QED
    BY <1>2, <2>1 DEF RemoteFields
<1> HIDE DEF r1
<1>6. r2 \in RemoteTypes /\ r2.disabled = FALSE
  <2>1. r2 \in RemoteTypes /\ DOMAIN r1 = RemoteFields
    BY <1>4, <1>5, RemoteWith
  <2>2. QED
    BY <1>5, <2>1 DEF RemoteFields
<1> HIDE DEF r2
<1>7. r3 \in RemoteTypes /\ r3.disabled = FALSE
  <2>1. r3 \in RemoteTypes /\ DOMAIN r2 = RemoteFields
    BY <1>4, <1>6, RemoteWith
  <2>2. QED
    BY <1>6, <2>1 DEF RemoteFields
<1> HIDE DEF r3
<1>8. r4 \in RemoteTypes /\ r4.disabled = FALSE
  <2>1. r4 \in RemoteTypes /\ DOMAIN r3 = RemoteFields
    BY <1>4, <1>7, RemoteWith
  <2>2. QED
    BY <1>7, <2>1 DEF RemoteFields
<1> HIDE DEF r4
<1>9. r5 \in RemoteTypes /\ r5.disabled = FALSE /\ r5.failures = 0
  <2>1. r5 \in RemoteTypes /\ DOMAIN r4 = RemoteFields
    BY <1>4, <1>8, RemoteWith
  <2>2. QED
    BY <1>8, <2>1 DEF RemoteFields
<1> HIDE DEF r5
<1>10. r5.failures # DisableThreshold
  BY <1>9 DEF DisableThreshold
<1>11. QED
  BY <1>1, <1>9, <1>10 DEF RemoteTyped

LEMMA RefreshedTyped ==
  ASSUME NEW r, RemoteTyped(r), worker \in WorkerTypes, worker.busy => ~r.disabled
  PROVE  RemoteTyped(Refreshed(r)) /\ (~Finished => Refreshed(r) = r)
<1>1. CASE ~Finished
  BY <1>1 DEF Refreshed
<1>2. CASE Finished
  <2>1. ~r.disabled
    BY <1>2 DEF Finished
  <2>2. QED
    BY <1>2, <2>1, FailedTyped, AppliedTyped DEF Refreshed
<1>3. QED
  BY <1>1, <1>2

LEMMA WorkerWith ==
  /\ NoWorker \in WorkerTypes /\ ~NoWorker.busy /\ Died \in WorkerTypes
  /\ \A s \in SUBSET Parts : [NoWorker EXCEPT !.busy = TRUE, !.asked = s] \in WorkerTypes
  /\ \A w \in WorkerTypes : /\ [w EXCEPT !.failed = TRUE] \in WorkerTypes /\ [w EXCEPT !.failed = TRUE].busy = w.busy
                            /\ \A a \in Answer : /\ [w EXCEPT !.got = w.got \cup {a}] \in WorkerTypes
                                                 /\ [w EXCEPT !.got = w.got \cup {a}].busy = w.busy
<1>1. NoWorker \in WorkerTypes /\ ~NoWorker.busy
  BY DEF NoWorker, WorkerTypes
<1>2. \A s \in SUBSET Parts : [NoWorker EXCEPT !.busy = TRUE, !.asked = s] \in WorkerTypes
  BY DEF NoWorker, WorkerTypes
<1>3. ASSUME NEW w \in WorkerTypes
      PROVE  [w EXCEPT !.failed = TRUE] \in WorkerTypes /\ [w EXCEPT !.failed = TRUE].busy = w.busy
  BY DEF WorkerTypes
<1>4. ASSUME NEW w \in WorkerTypes, NEW a \in Answer
      PROVE  [w EXCEPT !.got = w.got \cup {a}] \in WorkerTypes /\ [w EXCEPT !.got = w.got \cup {a}].busy = w.busy
  BY DEF WorkerTypes
<1>5. Died \in WorkerTypes
  BY DEF Died, NoWorker, WorkerTypes
<1>6. QED
  BY <1>1, <1>2, <1>3, <1>4, <1>5

-----------------------------------------------------------------------------
(* The screen's steps. *)

LEMMA TickTyped ==
  ASSUME ScreenTyped, KnownAll(wire), NEW browsing \in BOOLEAN, Tick(browsing)
  PROVE  RemoteTyped(remote') /\ worker' \in WorkerTypes /\ (worker'.busy => ~remote'.disabled)
<1> DEFINE heard  == IF remote.listening /\ wire # <<>> THEN Handled(remote, Head(wire)) ELSE remote
           asked  == IF browsing THEN Browsed(heard) ELSE heard
           polled == Refreshed(asked)
           bare   == [polled EXCEPT !.requests = {}]
           fresh  == [NoWorker EXCEPT !.busy = TRUE, !.asked = polled.requests]
<1>1. /\ remote' = IF Launches(polled) THEN bare ELSE polled
      /\ worker' = CASE Launches(polled) -> fresh
                     [] Finished /\ ~Launches(polled) -> NoWorker
                     [] OTHER -> worker
  BY DEF Tick
<1>2. RemoteTyped(remote) /\ worker \in WorkerTypes /\ (worker.busy => ~remote.disabled)
  BY DEF ScreenTyped
<1>3. Patient(remote, heard)
  <2>1. wire # <<>> => Head(wire) \in Frame /\ Known(Head(wire))
    BY KnownFrames DEF ScreenTyped
  <2>2. CASE remote.listening /\ wire # <<>>
    BY <1>2, <2>1, <2>2, HandledTyped
  <2>3. CASE ~(remote.listening /\ wire # <<>>)
    BY <1>2, <2>3 DEF Patient
  <2>4. QED
    BY <2>2, <2>3
<1> HIDE DEF heard
<1>4. Patient(remote, asked)
  BY <1>3, BrowsedTyped DEF Patient
<1> HIDE DEF asked
<1>5. RemoteTyped(polled) /\ (~Finished => polled = asked)
  BY <1>2, <1>4, RefreshedTyped DEF Patient
<1> HIDE DEF polled
<1>6. RemoteTyped(bare) /\ bare.disabled = polled.disabled
  <2>1. polled \in RemoteTypes /\ {} \in SUBSET Parts
    BY <1>5 DEF RemoteTyped
  <2>2. bare \in RemoteTypes /\ DOMAIN polled = RemoteFields
    BY <2>1, RemoteWith
  <2>3. bare.disabled = polled.disabled /\ bare.failures = polled.failures
    BY <2>2 DEF RemoteFields
  <2>4. QED
    BY <1>5, <2>2, <2>3 DEF RemoteTyped
<1>7. fresh \in WorkerTypes
  <2>1. polled.requests \in SUBSET Parts
    BY <1>5, RemoteParts DEF RemoteTyped
  <2>2. QED
    BY <2>1, WorkerWith
<1> HIDE DEF bare, fresh
<1>8. CASE Launches(polled)
  <2>1. remote' = bare /\ worker' = fresh /\ ~polled.disabled
    BY <1>1, <1>8 DEF Launches
  <2>2. QED
    BY <1>6, <1>7, <2>1
<1>9. CASE ~Launches(polled) /\ Finished
  <2>1. remote' = polled /\ worker' = NoWorker
    BY <1>1, <1>9
  <2>2. QED
    BY <1>5, <2>1, WorkerWith
<1>10. CASE ~Launches(polled) /\ ~Finished
  <2>1. remote' = polled /\ worker' = worker /\ polled = asked
    BY <1>1, <1>5, <1>10
  <2>2. polled.disabled = remote.disabled
    BY <1>4, <2>1 DEF Patient
  <2>3. QED
    BY <1>2, <1>5, <2>1, <2>2
<1>11. QED
  BY <1>8, <1>9, <1>10

LEMMA FrameFacts ==
  /\ \A a \in Answer : a \in Frame
  /\ \A e \in Event : e \in Frame
  /\ [kind |-> "broken"] \in Frame
<1>1. \A a \in Answer : a \in Frame
  BY DEF Frame
<1>2. \A e \in Event : e \in Frame
  BY DEF Frame
<1>3. [kind |-> "broken"] \in Frame
  BY DEF Frame
<1>4. QED
  BY <1>1, <1>2, <1>3

LEMMA WorkerTyped ==
  ASSUME ScreenTyped, ServerTyped, WorkerAsks \/ WorkerGets
  PROVE  remote' = remote /\ worker' \in WorkerTypes /\ (worker'.busy => worker.busy)
<1>1. Fetch \in Conns
  BY PlayerServerAssumption, RemoteViewAssumption
<1>2. conn[Fetch].answer \in Answer
  BY <1>1, ServerTypedFacts, ConnFields
<1>3. \/ worker' = worker \/ worker' = [worker EXCEPT !.failed = TRUE] \/ (worker' = Died /\ worker.busy)
      \/ worker' = [worker EXCEPT !.got = worker.got \cup {conn[Fetch].answer}]
  BY DEF WorkerAsks, WorkerGets
<1>4. remote' = remote /\ worker \in WorkerTypes
  BY DEF WorkerAsks, WorkerGets, ScreenTyped
<1>5. QED
  BY <1>2, <1>3, <1>4, WorkerWith

LEMMA NewRemoteTyped == RemoteTyped(NewRemote) /\ ~NewRemote.disabled
<1>1. Missing \in Answer
  BY AnswerFacts DEF Missing, NoAnswer
<1>2. 0 \in 0..DisableThreshold /\ 0 # DisableThreshold
  BY DEF DisableThreshold
<1>3. NewRemote \in RemoteTypes
  BY <1>1, <1>2 DEF NewRemote, RemoteTypes
<1>4. NewRemote.failures = 0 /\ NewRemote.disabled = FALSE
  BY DEF NewRemote
<1>5. NewRemote.disabled = (NewRemote.failures = DisableThreshold)
  BY <1>2, <1>4
<1>6. QED
  BY <1>3, <1>4, <1>5 DEF RemoteTyped

(* The updater started over, and the stream ended with it. *)
ResetRemote(r) == [r EXCEPT !.failures = 0, !.disabled = FALSE]
Emptied(r) == [r EXCEPT !.listening = FALSE, !.page = Missing]

LEMMA ResetTyped ==
  ASSUME NEW r \in RemoteTypes, NEW s \in {ResetRemote(r), Emptied(ResetRemote(r))}
  PROVE  RemoteTyped(s) /\ ~s.disabled
<1> DEFINE t == [r EXCEPT !.failures = 0]
           u == [t EXCEPT !.disabled = FALSE]
           v == [u EXCEPT !.listening = FALSE]
           w == [v EXCEPT !.page = Missing]
<1>0. ResetRemote(r) = u /\ Emptied(u) = w
  BY DEF ResetRemote, Emptied
<1>1. 0 \in 0..DisableThreshold /\ 0 # DisableThreshold /\ Missing \in Answer
  BY AnswerFacts DEF DisableThreshold, Missing, NoAnswer
<1>2. t \in RemoteTypes /\ t.failures = 0
  BY <1>1, RemoteWith DEF RemoteFields
<1> HIDE DEF t
<1>3. u \in RemoteTypes /\ u.failures = 0 /\ u.disabled = FALSE
  BY <1>2, RemoteWith DEF RemoteFields
<1> HIDE DEF u
<1>4. v \in RemoteTypes /\ v.failures = 0 /\ v.disabled = FALSE
  BY <1>3, RemoteWith DEF RemoteFields
<1> HIDE DEF v
<1>5. w \in RemoteTypes /\ w.failures = 0 /\ w.disabled = FALSE
  BY <1>1, <1>4, RemoteWith DEF RemoteFields
<1> HIDE DEF w
<1>6. RemoteTyped(u) /\ RemoteTyped(w)
  BY <1>1, <1>3, <1>5 DEF RemoteTyped
<1>7. s = u \/ s = w
  BY <1>0
<1>8. QED
  BY <1>3, <1>5, <1>6, <1>7

(* remote and worker of the screen, step by step. *)
LEMMA ViewTyped ==
  ASSUME ViewInv, ServerTyped, ScreenTyped, [Next]_vars
  PROVE  RemoteTyped(remote') /\ worker' \in WorkerTypes /\ (worker'.busy => ~remote'.disabled)
<1>0. RemoteTyped(remote) /\ worker \in WorkerTypes /\ (worker.busy => ~remote.disabled)
  BY DEF ScreenTyped
<1>1. CASE UNCHANGED <<remote, worker>>
  BY <1>0, <1>1
<1>2. CASE WorkerAsks \/ WorkerGets
  BY <1>0, <1>2, WorkerTyped
<1>3. ASSUME NEW browsing \in BOOLEAN, Tick(browsing)
      PROVE  RemoteTyped(remote') /\ worker' \in WorkerTypes /\ (worker'.busy => ~remote'.disabled)
  BY <1>3, TickTyped DEF ViewInv, Streams
<1>4. CASE SelectServer
  <2>1. remote' = NewRemote /\ worker' = NoWorker
    BY <1>4 DEF SelectServer
  <2>2. QED
    BY <2>1, NewRemoteTyped, WorkerWith
<1>6. CASE SetToken \/ RemoveServer
  <2>1. remote \in RemoteTypes
    BY <1>0 DEF RemoteTyped
  <2>2. worker' = NoWorker /\ remote' \in {ResetRemote(remote), Emptied(ResetRemote(remote))}
    BY <1>6 DEF SetToken, RemoveServer, ResetRemote, Emptied
  <2>3. RemoteTyped(remote') /\ ~remote'.disabled
    BY <2>1, <2>2, ResetTyped
  <2>4. QED
    BY <2>2, <2>3, WorkerWith
<1>5. CASE UNCHANGED vars \/ UNCHANGED client \/ Subscribe \/ SendState \/ SendNext \/ Disconnect
  <2>1. UNCHANGED <<remote, worker>>
    BY <1>5 DEF vars, client, Subscribe, SendState, SendNext, Disconnect
  <2>2. QED
    BY <1>1, <2>1
<1>7. QED
  BY <1>2, <1>3, <1>4, <1>5, <1>6 DEF Next

(* The stream. *)
LEMMA StreamTyped ==
  ASSUME ServerTyped, ScreenTyped, [Next]_vars
  PROVE  sse' \in {"off", "connect", "snapshot", "live"} /\ wire' \in Seq(Frame)
<1>0. Stream \in Conns /\ wire \in Seq(Frame) /\ sse \in {"off", "connect", "snapshot", "live"}
  BY PlayerServerAssumption, RemoteViewAssumption DEF ScreenTyped
<1>1. sse' \in {"off", "connect", "snapshot", "live"}
  BY <1>0, ZenonT(60) DEF Next, vars, client, Subscribe, SendState, SendNext, Disconnect,
                    WorkerAsks, WorkerGets, Tick, SelectServer, SetToken, RemoveServer
<1>2. \/ wire' = wire \/ wire' = <<>> \/ (wire # <<>> /\ wire' = Tail(wire))
      \/ wire' = Append(wire, conn[Stream].answer)
      \/ feed.events # <<>> /\ wire' = Append(wire, Head(feed.events))
      \/ wire' = Append(wire, [kind |-> "broken"])
  BY ZenonT(60) DEF Next, vars, client, Subscribe, SendState, SendNext, Disconnect,
                    WorkerAsks, WorkerGets, Tick, SelectServer, SetToken, RemoveServer
<1>3. conn[Stream].answer \in Frame
  BY <1>0, ServerTypedFacts, ConnFields, FrameFacts
<1>4. feed.events # <<>> => Head(feed.events) \in Frame
  <2>1. feed.events \in Seq(Event)
    BY FeedWith DEF ServerTyped, ServerTypeOK, FeedTypes
  <2>2. feed.events # <<>> => Head(feed.events) \in Event
    BY <2>1
  <2>3. QED
    BY <2>2, FrameFacts
<1> DEFINE broken == [kind |-> "broken"]
<1>5. broken \in Frame
  BY FrameFacts
<1> HIDE DEF broken
<1>6. wire' \in Seq(Frame)
  <2> HIDE DEF Frame
  <2>1. ASSUME NEW f \in Frame PROVE Append(wire, f) \in Seq(Frame)
    BY <1>0
  <2>2. <<>> \in Seq(Frame) /\ (wire # <<>> => Tail(wire) \in Seq(Frame))
    BY <1>0
  <2>3. QED
    BY <1>0, <1>2, <1>3, <1>4, <1>5, <2>1, <2>2 DEF broken
<1>7. QED
  BY <1>1, <1>6

(* The server's variables in the steps of the screen. *)
LEMMA ScreenServerTyped ==
  ASSUME ViewInv, ServerTyped, ViewInv', [Next]_vars
  PROVE  ServerTyped'
<1>0. /\ Stream \in Conns /\ Fetch \in Conns /\ conn \in [Conns -> Conn] /\ library.version \in Nat
      /\ budget \in Nat /\ feed \in FeedTypes
  BY PlayerServerAssumption, RemoteViewAssumption, ServerTypedFacts DEF ServerTyped, ServerTypeOK, FeedTypes
<1>1. CASE ServerNext \/ UNCHANGED server
  BY <1>1, ServerTypedStep DEF ViewInv
<1>2. CASE ~ServerNext /\ ~UNCHANGED server
  <2>0. \/ Subscribe \/ SendState \/ SendNext \/ Disconnect \/ WorkerAsks \/ WorkerGets
        \/ (\E browsing \in BOOLEAN : Tick(browsing)) \/ SelectServer \/ SetToken \/ RemoveServer
    BY <1>2 DEF Next, vars
  <2>1. /\ UNCHANGED <<setting, queue, player>>
        /\ budget' = budget \/ (budget > 0 /\ budget' = budget - 1)
    BY <2>0, ZenonT(60) DEF Subscribe, SendState, SendNext, Disconnect, WorkerAsks, WorkerGets, Tick, SelectServer,
                SetToken, RemoveServer, ServerElse, data, Lost, Spends
  <2>2. budget' \in Nat
    BY <1>0, <2>1
  <2>3. conn' \in [Conns -> Conn]
    <3>1. \/ UNCHANGED conn \/ Ask(Stream, "status") \/ Done(Stream) \/ Done(Fetch)
          \/ Ask(Fetch, Command(NextPart))
      BY <2>0, ZenonT(60) DEF Subscribe, SendState, SendNext, Disconnect, WorkerAsks, WorkerGets, Tick, SelectServer, SetToken, RemoveServer
    <3>2. Command(NextPart) \in Commands /\ "status" \in Commands
      <4>1. Command("state") = "status" /\ Command("queue") = "items" /\ Command("page") = "albums"
        BY DEF Command
      <4>2. NextPart \in {"state", "queue", "page"}
        BY DEF NextPart
      <4>3. QED
        BY <4>1, <4>2 DEF Commands, Reads
    <3>3. 0 \in Nat
      OBVIOUS
    <3> HIDE DEF Command, NextPart
    <3>4. CASE Ask(Stream, "status")
      BY <1>0, <3>2, <3>3, <3>4, AskedTyped, TypedConns DEF Ask
    <3>5. CASE Ask(Fetch, Command(NextPart))
      BY <1>0, <3>2, <3>3, <3>5, AskedTyped, TypedConns DEF Ask
    <3>6. CASE Done(Stream) \/ Done(Fetch)
      BY <1>0, <3>6, DoneTyped, TypedConns
    <3>7. QED
      BY <1>0, <3>1, <3>4, <3>5, <3>6
  <2>4. feed' \in FeedTypes
    <3>1. \/ feed' \in {feed, NoFeed, [NoFeed EXCEPT !.open = TRUE], [feed EXCEPT !.lagged = FALSE]}
          \/ feed.events # <<>> /\ feed' = [feed EXCEPT !.events = Tail(feed.events)]
      BY <2>0, ZenonT(60) DEF Subscribe, SendState, SendNext, Disconnect, WorkerAsks, WorkerGets, Tick, SelectServer, SetToken, RemoveServer
    <3>2. [feed EXCEPT !.lagged = FALSE] \in FeedTypes
      BY <1>0, FeedWith
    <3>3. feed.events # <<>> => [feed EXCEPT !.events = Tail(feed.events)] \in FeedTypes
      <4>1. feed.events \in Seq(Event)
        BY <1>0, FeedWith
      <4>2. feed.events # <<>> => Tail(feed.events) \in Seq(Event)
        BY <4>1
      <4>3. QED
        BY <1>0, <4>2, FeedWith
    <3>4. QED
      BY <1>0, <3>1, <3>2, <3>3, NoFeedTyped, ZenonT(60)
  <2>5. setting' \in Settings /\ OnTracks(queue') /\ player' \in PlayerTypes
    BY <2>1, ServerTypedFacts DEF ServerTyped, ServerTypeOK, PlayerTypes
  <2>6. (IInv /\ Copies /\ setting \in Settings /\ OnTracks(queue) /\ player \in PlayerTypes
         /\ conn \in [Conns -> Conn] /\ budget \in Nat /\ feed \in FeedTypes => ServerTyped)'
    BY PiecesTyped, PTL
  <2>7. QED
    BY <2>2, <2>3, <2>4, <2>5, <2>6 DEF ViewInv, OnTracks, PlayerTypes, FeedTypes
<1>3. QED
  BY <1>1, <1>2

ViewTypes == ViewInv /\ ServerTyped /\ ScreenTyped

LEMMA ViewTypesStep == ViewTypes /\ [Next]_vars => ViewTypes'
<1> SUFFICES ASSUME ViewTypes, [Next]_vars PROVE ViewTypes'
  OBVIOUS
<1>1. ViewInv /\ ServerTyped /\ ScreenTyped
  BY DEF ViewTypes
<1>2. ViewInv'
  BY <1>1, ViewStep
<1>3. ServerTyped'
  BY <1>1, <1>2, ScreenServerTyped
<1>4. /\ RemoteTyped(remote') /\ worker' \in WorkerTypes /\ (worker'.busy => ~remote'.disabled)
      /\ sse' \in {"off", "connect", "snapshot", "live"} /\ wire' \in Seq(Frame)
  BY <1>1, ViewTyped, StreamTyped
<1>5. ScreenTyped'
  BY <1>4 DEF ScreenTyped, RemoteTyped, RemoteTypes, WorkerTypes, Frame, Answer, Event, DisableThreshold, Parts,
              NoAnswer
<1>6. QED
  BY <1>2, <1>3, <1>5 DEF ViewTypes

LEMMA ViewTypesStart == Init => ViewTypes
<1> SUFFICES ASSUME Init PROVE ViewTypes
  OBVIOUS
<1>1. ViewInv /\ ServerTyped
  BY ViewStart, ServerTypedStart DEF Init
<1> DEFINE follows == setting.client = "following"
           st == IF follows THEN Status ELSE Missing
           qu == IF follows THEN [kind |-> "queue", items |-> FlatTracks(queue)] ELSE Missing
           pg == IF follows THEN [kind |-> "page", copy |-> 1, swap |-> 1, version |-> 1] ELSE Missing
           rq == IF follows THEN {} ELSE Parts
           listens == setting.client # "none"
           r1 == [NewRemote EXCEPT !.state = st]
           r2 == [r1 EXCEPT !.queue = qu]
           r3 == [r2 EXCEPT !.page = pg]
           r4 == [r3 EXCEPT !.requests = rq]
           r5 == [r4 EXCEPT !.listening = listens]
<1>2. remote = r5 /\ worker = NoWorker /\ wire = <<>> /\ sse \in {"off", "connect", "live"}
  BY DEF Init
<1>3. st \in Answer /\ qu \in Answer /\ pg \in Answer /\ rq \in SUBSET Parts /\ listens \in BOOLEAN
  <2>1. Missing \in Answer
    BY AnswerFacts DEF Missing, NoAnswer
  <2>2. version \in Nat /\ library.version \in Nat /\ OnTracks(queue)
    BY <1>1, ServerTypedFacts
  <2>3. CurrentTrack(queue) \in Tracks \cup {NoTrack} /\ FlatTracks(queue) \in Seq(Tracks)
    BY <2>2, OnTracksPlays
  <2>4. Status \in Answer
    BY <2>2, <2>3, (player.state = "playing") \in BOOLEAN, AnswerFacts DEF Status
  <2>5. [kind |-> "queue", items |-> FlatTracks(queue)] \in Answer
        /\ [kind |-> "page", copy |-> 1, swap |-> 1, version |-> 1] \in Answer
    BY <2>3, AnswerFacts, 1 \in Nat
  <2>6. QED
    BY <2>1, <2>4, <2>5
<1> HIDE DEF st, qu, pg, rq, listens
<1>4. NewRemote \in RemoteTypes /\ NewRemote.failures = 0 /\ NewRemote.disabled = FALSE
  BY NewRemoteTyped DEF RemoteTyped, NewRemote
<1>5. r1 \in RemoteTypes /\ r1.failures = 0 /\ r1.disabled = FALSE
  BY <1>3, <1>4, RemoteWith DEF RemoteFields
<1> HIDE DEF r1
<1>6. r2 \in RemoteTypes /\ r2.failures = 0 /\ r2.disabled = FALSE
  BY <1>3, <1>5, RemoteWith DEF RemoteFields
<1> HIDE DEF r2
<1>7. r3 \in RemoteTypes /\ r3.failures = 0 /\ r3.disabled = FALSE
  BY <1>3, <1>6, RemoteWith DEF RemoteFields
<1> HIDE DEF r3
<1>8. r4 \in RemoteTypes /\ r4.failures = 0 /\ r4.disabled = FALSE
  BY <1>3, <1>7, RemoteWith DEF RemoteFields
<1> HIDE DEF r4
<1>9. r5 \in RemoteTypes /\ r5.failures = 0 /\ r5.disabled = FALSE
  BY <1>3, <1>8, RemoteWith DEF RemoteFields
<1> HIDE DEF r5
<1> HIDE DEF r5
<1>10. RemoteTyped(r5)
  <2>1. 0 # DisableThreshold
    BY DEF DisableThreshold
  <2>2. r5.disabled = (r5.failures = DisableThreshold)
    BY <1>9, <2>1
  <2>3. QED
    BY <1>9, <2>2 DEF RemoteTyped
<1>11. ScreenTyped
  <2>1. wire \in Seq(Frame)
    BY <1>2
  <2>2. QED
    BY <1>2, <1>10, <2>1, WorkerWith DEF ScreenTyped
<1>12. QED
  BY <1>1, <1>11 DEF ViewTypes

(* Every answer and every frame is of its kind in whatever order commands, *)
(* broadcasts and ticks come, and refreshing is given up exactly at the    *)
(* third failure in a row, never counted past it                           *)
(* (record_remote_cache_refresh_failure in remote_state.rs).               *)
THEOREM ScreenTypeCorrect == Spec => []TypeOK
<1>1. ViewTypes => TypeOK
  BY RemoteParts DEF ViewTypes, ServerTyped, ScreenTyped, RemoteTyped, WorkerTypes, TypeOK
<1>2. QED
  BY <1>1, ViewTypesStart, ViewTypesStep, PTL DEF Spec
-----------------------------------------------------------------------------
(* PlaybackFresh.  Where it applies, a change of what plays is announced by *)
(* the command that makes it, the announcement is never dropped, and the   *)
(* screen that has handled it asks for the state after it.                 *)

PlainUse == InOrder /\ setting.commands \cap {"add", "delete", "clear"} = {}

(* The stream stays up, and carries events only. *)
Linked ==
  /\ sse = "live" /\ feed.open /\ ~feed.lagged /\ remote.listening
  /\ conn[Stream].pc = "idle" /\ wire \in Seq(Event)
UsedOnly == \A c \in Conns : conn[c].cmd \in setting.commands \cup Reads

(* The screen's requests are those of the worker that runs. *)
Served == conn[Fetch].pc # "idle" => worker.busy /\ ~worker.failed

(* The events a connection can still send, and room for all of them. *)
Owes(r) ==
  CASE r.pc \in {"player", "tell"} -> Len(r.tells)
    [] r.pc \in {"first", "second", "found", "swap", "mark"} /\ r.cmd \notin Reads -> 2
    [] OTHER -> 0
Tokens == {x \in Conns \X (1..2) : x[2] <= Owes(conn[x[1]])}
Room == Len(feed.events) + Cardinality(Tokens) + 2 * budget <= 2 * setting.budget

(* A change of what plays that the screen has not asked about yet. *)
Tells(r) == r.pc \in {"player", "tell"} /\ \E i \in DOMAIN r.tells : r.tells[i] = PlaybackChanged
Carries(s) == \E i \in DOMAIN s : s[i] = PlaybackChanged
Coming == (\E c \in Conns : Tells(conn[c])) \/ Carries(feed.events)
Pending == Coming \/ Carries(wire) \/ "state" \in remote.requests

Shows(a) == a.kind = "state" /\ a.playing = (player.state = "playing") /\ a.track = CurrentTrack(queue)
Sure(a) == Shows(a) \/ Pending

Answers ==
  /\ \A a \in worker.got : a.kind = "state" => Sure(a)
  /\ conn[Fetch].pc \in {"song", "count", "answered"} /\ conn[Fetch].answer.kind = "state" => Sure(conn[Fetch].answer)
ScreenSure == Sure(remote.state) \/ remote.disabled \/ "state" \in worker.asked

Following == Linked /\ UsedOnly /\ Served /\ Room /\ Answers /\ ScreenSure
FreshInv == PlainUse => Following

LEMMA FreshImplies ==
  ASSUME FreshInv, Screen
  PROVE  PlaybackFresh
<1> SUFFICES ASSUME PlainUse, Quiet
             PROVE  remote.state.playing = (player.state = "playing") /\ remote.state.track = CurrentTrack(queue)
  BY DEF PlaybackFresh, PlainUse
<1>1. ScreenSure
  BY DEF FreshInv, Following
<1>2. worker.asked = {}
  BY DEF Quiet, Screen, WorkerShape
<1>3. ~Carries(<<>>)
  BY DEF Carries
<1>4. ~Coming /\ ~Carries(wire)
  BY <1>3 DEF Quiet, Coming, Tells
<1>5. Shows(remote.state)
  BY <1>1, <1>2, <1>4 DEF ScreenSure, Sure, Pending, Quiet
<1>6. QED
  BY <1>5 DEF Shows

-----------------------------------------------------------------------------
(* The events still to come are counted by their tokens. *)

TokensOf(c, n) == {x \in {c} \X (1..2) : x[2] <= n}

LEMMA TokensAdded ==
  ASSUME NEW c \in Conns, NEW S, IsFiniteSet(S), \A x \in S : x[1] # c, NEW n \in 0..2
  PROVE  IsFiniteSet(S \cup TokensOf(c, n)) /\ Cardinality(S \cup TokensOf(c, n)) = Cardinality(S) + n
<1>0. 1..2 = {1, 2} /\ Cardinality(S) \in Nat
  BY FS_CardinalityType
<1>1. CASE n = 0
  <2>1. TokensOf(c, n) = {}
    BY <1>0, <1>1 DEF TokensOf
  <2>2. S \cup TokensOf(c, n) = S /\ Cardinality(S) = Cardinality(S) + n
    BY <1>0, <1>1, <2>1
  <2>3. QED
    BY <2>2, Zenon
<1>2. CASE n \in {1, 2}
  <2> DEFINE T == S \cup {<<c, 1>>}
  <2>1. <<c, 1>> \notin S /\ <<c, 2>> \notin S
    <3>1. <<c, 1>>[1] = c /\ <<c, 2>>[1] = c
      OBVIOUS
    <3>2. QED
      BY <3>1
  <2>2. IsFiniteSet(T) /\ Cardinality(T) = Cardinality(S) + 1
    BY <2>1, FS_AddElement
  <2>3. CASE n = 1
    <3>1. TokensOf(c, n) = {<<c, 1>>}
      BY <1>0, <2>3 DEF TokensOf
    <3>2. S \cup TokensOf(c, n) = T
      BY <3>1
    <3> HIDE DEF T
    <3>3. QED
      BY <2>2, <2>3, <3>2
  <2>4. CASE n = 2
    <3>1. TokensOf(c, n) = {<<c, 1>>, <<c, 2>>}
      BY <1>0, <2>4 DEF TokensOf
    <3>2. S \cup TokensOf(c, n) = T \cup {<<c, 2>>}
      BY <3>1
    <3>3. <<c, 2>> \notin T
      BY <2>1
    <3> HIDE DEF T
    <3>4. IsFiniteSet(T \cup {<<c, 2>>}) /\ Cardinality(T \cup {<<c, 2>>}) = Cardinality(T) + 1
      BY <2>2, <3>3, FS_AddElement
    <3>5. Cardinality(T \cup {<<c, 2>>}) = Cardinality(S) + 2
      BY <1>0, <2>2, <3>4
    <3>6. QED
      BY <2>4, <3>2, <3>4, <3>5
  <2>5. QED
    BY <1>2, <2>3, <2>4
<1>3. QED
  BY <1>1, <1>2

LEMMA TokensMove ==
  ASSUME DOMAIN conn = Conns, NEW c \in Conns, NEW r, conn' = [conn EXCEPT ![c] = r],
         Owes(conn[c]) \in 0..2, Owes(r) \in 0..2
  PROVE  /\ Cardinality(Tokens) \in Nat /\ Cardinality(Tokens') \in Nat
         /\ Cardinality(Tokens') + Owes(conn[c]) = Cardinality(Tokens) + Owes(r)
         /\ Owes(conn[c]) <= Cardinality(Tokens)
<1> DEFINE all == Conns \X (1..2)
           rest == {x \in all : x[1] # c /\ x[2] <= Owes(conn[x[1]])}
<1>1. IsFiniteSet(rest) /\ \A x \in rest : x[1] # c
  <2>1. IsFiniteSet(all)
    <3>1. IsFiniteSet(Conns)
      BY PlayerServerAssumption
    <3>2. IsFiniteSet(1..2)
      <4>1. 1 \in Int /\ 2 \in Int
        OBVIOUS
      <4>2. QED
        BY <4>1, FS_Interval
    <3>3. QED
      BY <3>1, <3>2, FS_Product
  <2>2. rest \subseteq all
    OBVIOUS
  <2>3. QED
    BY <2>1, <2>2, FS_Subset
<1>2. Tokens = rest \cup TokensOf(c, Owes(conn[c]))
  BY DEF Tokens, TokensOf
<1>3. Tokens' = rest \cup TokensOf(c, Owes(r))
  <2>1. Tokens' = {x \in all : x[2] <= Owes(conn'[x[1]])}
    BY DEF Tokens, Owes
  <2>2. conn'[c] = r /\ \A d \in Conns : d # c => conn'[d] = conn[d]
    OBVIOUS
  <2>3. \A x \in all : x[1] \in Conns /\ (x \in {c} \X (1..2) <=> x[1] = c) /\ {c} \X (1..2) \subseteq all
    OBVIOUS
  <2> HIDE DEF all
  <2>4. \A x \in all : x[2] <= Owes(conn'[x[1]]) <=> IF x[1] = c THEN x[2] <= Owes(r) ELSE x[2] <= Owes(conn[x[1]])
    BY <2>2, <2>3
  <2>5. TokensOf(c, Owes(r)) = {x \in all : x[1] = c /\ x[2] <= Owes(r)}
    BY <2>3 DEF TokensOf, all
  <2>6. QED
    BY <2>1, <2>4, <2>5
<1> HIDE DEF rest, all
<1>4. \A n \in 0..2 : IsFiniteSet(rest \cup TokensOf(c, n)) /\ Cardinality(rest \cup TokensOf(c, n)) = Cardinality(rest) + n
  BY <1>1, TokensAdded
<1>5. Cardinality(rest) \in Nat
  BY <1>1, FS_CardinalityType
<1>6. Cardinality(Tokens) = Cardinality(rest) + Owes(conn[c]) /\ Cardinality(Tokens') = Cardinality(rest) + Owes(r)
  BY <1>2, <1>3, <1>4
<1> DEFINE was == Owes(conn[c])
           is == Owes(r)
<1> HIDE DEF was, is
<1>7. was \in 0..2 /\ is \in 0..2 /\ Cardinality(Tokens) = Cardinality(rest) + was
      /\ Cardinality(Tokens') = Cardinality(rest) + is
  BY <1>6 DEF was, is
<1>8. /\ Cardinality(Tokens) \in Nat /\ Cardinality(Tokens') \in Nat
      /\ Cardinality(Tokens') + was = Cardinality(Tokens) + is /\ was <= Cardinality(Tokens)
  BY <1>5, <1>7
<1>9. QED
  BY <1>8 DEF was, is

(* No record owes more than two events. *)
LEMMA OwesType ==
  ASSUME NEW r, r.pc \in {"player", "tell"} => MaySay(r.pc, r.version, r.tells)
  PROVE  Owes(r) \in 0..2 /\ (r.pc \in {"idle", "song", "count", "answered"} => Owes(r) = 0)
         /\ (r.pc = "tell" => Owes(r) # 0)
<1>1. \A x, y : Len(<<x>>) = 1 /\ Len(<<x, y>>) = 2
  OBVIOUS
<1>2. CASE r.pc \in {"player", "tell"}
  <2>1. Len(r.tells) \in {1, 2}
    BY <1>1, <1>2 DEF MaySay
  <2>2. Owes(r) = Len(r.tells)
    BY <1>2 DEF Owes
  <2>3. Owes(r) \in {1, 2}
    BY <2>1, <2>2, Zenon
  <2>4. Owes(r) \in 0..2 /\ Owes(r) # 0
    BY <2>3
  <2>5. r.pc \notin {"idle", "song", "count", "answered"}
    BY <1>2
  <2>6. QED
    BY <2>4, <2>5, Zenon
<1>3. CASE r.pc \notin {"player", "tell"}
  BY <1>3 DEF Owes
<1>4. QED
  BY <1>2, <1>3

-----------------------------------------------------------------------------
(* What a served connection may say next. *)

LEMMA RecordFacts ==
  /\ \A r \in Conn : \A pc : /\ [r EXCEPT !.pc = pc].pc = pc /\ [r EXCEPT !.pc = pc].cmd = r.cmd
                         /\ [r EXCEPT !.pc = pc].tells = r.tells
  /\ \A v, events : LET r == [Idle EXCEPT !.pc = "tell", !.version = v, !.tells = events]
                    IN r.pc = "tell" /\ r.version = v /\ r.tells = events
  /\ Idle.pc = "idle"
<1>1. \A r \in Conn : \A pc : /\ [r EXCEPT !.pc = pc].pc = pc /\ [r EXCEPT !.pc = pc].cmd = r.cmd
                          /\ [r EXCEPT !.pc = pc].tells = r.tells
  BY DEF Conn
<1>2. QED
  BY <1>1 DEF Idle

LEMMA AnnouncedIs ==
  ASSUME DOMAIN conn = Conns, NEW c \in Conns, NEW v, NEW events, Announce(c, v, events)
  PROVE  conn'[c].pc = "tell" /\ conn'[c].tells = events
<1> DEFINE r == [Idle EXCEPT !.pc = "tell", !.version = v, !.tells = events]
<1>1. conn' = [conn EXCEPT ![c] = r]
  BY DEF Announce
<1>2. r.pc = "tell" /\ r.tells = events
  BY RecordFacts
<1> HIDE DEF r
<1>3. QED
  BY <1>1, <1>2

LEMMA RepliedIs ==
  ASSUME DOMAIN conn = Conns, NEW c \in Conns, NEW a, Reply(c, a)
  PROVE  /\ conn'[c].pc \in {"idle", "answered"}
         /\ conn'[c].pc = "answered" => conn'[c].answer = a
<1> DEFINE r == [Idle EXCEPT !.pc = "answered", !.answer = a]
<1>1. conn' = [conn EXCEPT ![c] = r] \/ conn' = [conn EXCEPT ![c] = Idle]
  BY DEF Reply, Done
<1>2. r.pc = "answered" /\ r.answer = a
  BY DEF Idle
<1> HIDE DEF r
<1>3. QED
  BY <1>1, <1>2, RecordFacts

LEMMA PcActions ==
  ASSUME NEW c \in Conns, Serve(c)
  PROVE  /\ conn[c].pc \notin {"idle", "answered"}
         /\ conn[c].pc = "player" => UsePlayer(c)
         /\ conn[c].pc = "tell" => Tell(c)
         /\ conn[c].pc = "song" => ReadSong(c)
         /\ conn[c].pc = "count" => CountLibrary(c)
         /\ conn[c].pc \in {"found", "swap", "mark"} => conn[c].cmd \notin Reads
         /\ conn[c].pc \in {"first", "second"} /\ conn[c].cmd \in Reads =>
              TakeFirst(c) \/ ReadStatus(c) \/ ReadItems(c) \/ ReadAlbums(c)
         /\ conn[c].pc \in {"first", "second", "found", "player", "song", "count", "swap", "mark", "tell"}
         /\ ~Tell(c) => feed' = feed
         /\ UNCHANGED <<setting, budget>>
<1>1. /\ UNCHANGED <<setting, budget>>
      /\ ~Tell(c) => feed' = feed
  BY DEF Serve, TakeFirst, Move, PauseResumeStop, Add, Delete, Clear, HttpAdd, HttpClear, HttpDelete, HttpJump,
         UsePlayer, LookUp, ReadStatus, ReadSong, CountLibrary, ReadItems, ReadAlbums, LookupMedia, ReadDatabase, Swap,
         Mark, Tell, UnderBoth, UnderFirst, Briefly
<1>2. CASE TakeFirst(c) \/ ReadStatus(c) \/ ReadItems(c) \/ ReadAlbums(c)
  BY <1>1, <1>2 DEF TakeFirst, ReadStatus, ReadItems, ReadAlbums, UnderBoth, UnderFirst, Briefly, At
<1>3. CASE UsePlayer(c)
  BY <1>1, <1>3 DEF UsePlayer, Briefly, At
<1>4. CASE Tell(c)
  BY <1>1, <1>4 DEF Tell
<1>5. CASE CountLibrary(c) \/ ReadSong(c)
  BY <1>1, <1>5 DEF CountLibrary, ReadSong, Briefly, At
<1>6. CASE Mark(c) \/ Swap(c) \/ HttpAdd(c)
  <2>1. conn[c].pc \in {"found", "swap", "mark"} /\ conn[c].cmd \notin Reads
    BY <1>6 DEF Mark, Swap, HttpAdd, Briefly, At, Reads
  <2>2. QED
    BY <1>1, <2>1
<1>7. CASE Move(c) \/ PauseResumeStop(c) \/ LookUp(c) \/ Add(c) \/ Delete(c) \/ Clear(c) \/ HttpClear(c)
           \/ HttpDelete(c) \/ HttpJump(c) \/ LookupMedia(c) \/ ReadDatabase(c)
  <2>1. conn[c].pc \in {"first", "second"} /\ conn[c].cmd \notin Reads
    BY <1>7 DEF Move, PauseResumeStop, LookUp, Add, Delete, Clear, HttpClear, HttpDelete, HttpJump, LookupMedia,
                ReadDatabase, UnderBoth, UnderFirst, Briefly, At, Reads, MpdMoves, PlayerOnly
  <2>2. QED
    BY <1>1, <2>1
<1>8. QED
  BY <1>2, <1>3, <1>4, <1>5, <1>6, <1>7, SMTT(30) DEF Serve

LEMMA MayOwe ==
  ASSUME IInv, NEW c \in Conns
  PROVE  /\ Owes(conn[c]) \in 0..2 /\ (conn[c].pc \in {"idle", "song", "count", "answered"} => Owes(conn[c]) = 0)
         /\ (conn[c].pc = "tell" => Owes(conn[c]) # 0)
BY OwesType DEF IInv, Broadcasting, Speaking

(* Serving a connection adds nothing to what it still has to say. *)
LEMMA ServeOwes ==
  ASSUME IInv, IInv', ServerTyped, NEW c \in Conns, Serve(c), ~Tell(c)
  PROVE  Owes(conn'[c]) <= Owes(conn[c])
<1>0. /\ DOMAIN conn = Conns /\ conn[c] \in Conn
      /\ conn[c].pc \in {"first", "second", "found", "player", "song", "count", "swap", "mark", "tell"}
  BY ServerTypedFacts, PcActions DEF IInv, Shape
<1>1. Owes(conn[c]) \in 0..2
  BY MayOwe
<1>2. /\ Owes(conn'[c]) \in 0..2
      /\ conn'[c].pc \in {"idle", "song", "count", "answered"} => Owes(conn'[c]) = 0
  <2>1. conn'[c].pc \in {"player", "tell"} => MaySay(conn'[c].pc, conn'[c].version, conn'[c].tells)
    BY DEF IInv, Broadcasting, Speaking
  <2>2. QED
    BY <2>1, OwesType
<1>3. CASE conn[c].pc \in {"first", "second", "found", "swap", "mark"} /\ conn[c].cmd \notin Reads
  <2>1. Owes(conn[c]) = 2
    BY <1>3 DEF Owes
  <2>2. QED
    BY <1>2, <2>1
<1>4. CASE conn[c].pc \in {"first", "second"} /\ conn[c].cmd \in Reads
  <2>1. CASE TakeFirst(c)
    <3> DEFINE q == conn[c]
               r == [q EXCEPT !.pc = "second"]
    <3>1. conn' = [conn EXCEPT ![c] = r]
      BY <2>1 DEF TakeFirst
    <3>2. r.pc = "second" /\ r.cmd \in Reads
      BY <1>0, <1>4, RecordFacts
    <3> HIDE DEF r
    <3>3. Owes(r) = 0
      BY <3>2 DEF Owes
    <3>4. QED
      BY <1>0, <1>1, <3>1, <3>3
  <2>2. CASE ReadStatus(c)
    <3>1. conn'[c].pc = "song"
      <4> DEFINE q == conn[c]
                 r == [q EXCEPT !.pc = "song", !.answer = Status]
      <4>1. conn' = [conn EXCEPT ![c] = r]
        BY <2>2 DEF ReadStatus
      <4>2. r.pc = "song"
        BY <1>0 DEF Conn
      <4> HIDE DEF r
      <4>3. QED
        BY <1>0, <4>1, <4>2
    <3>2. QED
      BY <1>1, <1>2, <3>1
  <2>3. CASE ReadItems(c) \/ ReadAlbums(c)
    <3>1. conn'[c].pc \in {"idle", "answered"}
      BY <1>0, <2>3, RepliedIs DEF ReadItems, ReadAlbums
    <3>2. QED
      BY <1>1, <1>2, <3>1
  <2>4. QED
    BY <1>4, <2>1, <2>2, <2>3, PcActions
<1>5. CASE conn[c].pc = "count"
  <2>1. conn'[c].pc \in {"idle", "answered"}
    BY <1>0, <1>5, RepliedIs, PcActions DEF CountLibrary
  <2>2. QED
    BY <1>1, <1>2, <2>1
<1>6. CASE conn[c].pc = "player"
  <2>1. UsePlayer(c)
    BY <1>6, PcActions
  <2>2. CASE Announce(c, conn[c].version, conn[c].tells)
    <3>1. conn'[c].pc = "tell" /\ conn'[c].tells = conn[c].tells
      BY <1>0, <2>2, AnnouncedIs
    <3>2. Owes(conn'[c]) = Owes(conn[c])
      BY <1>6, <3>1 DEF Owes
    <3>3. QED
      BY <1>1, <3>2
  <2>3. CASE Done(c)
    <3>1. conn'[c].pc = "idle"
      BY <1>0, <2>3, RecordFacts DEF Done
    <3>2. QED
      BY <1>1, <1>2, <3>1
  <2>4. QED
    BY <2>1, <2>2, <2>3 DEF UsePlayer
<1>7. CASE conn[c].pc = "song"
  <2>1. conn'[c].pc = "count"
    <3> DEFINE q == conn[c]
               a == [q.answer EXCEPT !.track = CurrentTrack(queue)]
               r == [q EXCEPT !.pc = "count", !.answer = a]
    <3>1. conn' = [conn EXCEPT ![c] = r]
      BY <1>7, PcActions DEF ReadSong
    <3> HIDE DEF a
    <3>2. r.pc = "count"
      BY <1>0 DEF Conn
    <3> HIDE DEF r
    <3>3. QED
      BY <1>0, <3>1, <3>2
  <2>2. QED
    BY <1>1, <1>2, <2>1
<1>8. QED
  BY <1>0, <1>3, <1>4, <1>5, <1>6, <1>7, PcActions

LEMMA ToldOne ==
  ASSUME IInv, NEW c \in Conns, Tell(c), ServerTyped
  PROVE  /\ Owes(conn'[c]) + 1 = Owes(conn[c])
         /\ Head(conn[c].tells) \in Event
         /\ Tells(conn[c]) => Head(conn[c].tells) = PlaybackChanged
<1> DEFINE t == conn[c].tells
           q == conn[c]
           r == [q EXCEPT !.tells = Tail(t)]
<1>0. DOMAIN conn = Conns /\ q \in Conn /\ conn[c].pc = "tell"
  BY ServerTypedFacts DEF IInv, Shape, Tell
<1>1. MaySay("tell", conn[c].version, t)
  BY <1>0 DEF IInv, Broadcasting, Speaking
<1>2. /\ \A x, y : /\ Len(<<x>>) = 1 /\ Tail(<<x>>) = <<>> /\ Head(<<x>>) = x /\ DOMAIN <<x>> = {1}
                   /\ Len(<<x, y>>) = 2 /\ Tail(<<x, y>>) = <<y>> /\ Head(<<x, y>>) = x /\ <<y>> # <<>>
      /\ Len(<<>>) = 0
  OBVIOUS
<1>3. \A v : PlaybackChanged # LibraryChanged /\ PlaybackChanged # QueueChanged(v)
  <2>1. \A v : PlaybackChanged.event = "playback" /\ LibraryChanged.event = "library"
               /\ QueueChanged(v).event = "queue"
    BY DEF PlaybackChanged, LibraryChanged, QueueChanged
  <2>2. QED
    BY <2>1
<1>4. Tells(conn[c]) => Head(t) = PlaybackChanged
  <2>1. CASE t = <<LibraryChanged>> \/ t = <<QueueChanged(conn[c].version)>>
    <3>1. DOMAIN t = {1} /\ t[1] # PlaybackChanged
      BY <1>2, <1>3, <2>1
    <3> HIDE DEF t
    <3>2. ~Tells(conn[c])
      BY <3>1 DEF Tells, t
    <3>3. QED
      BY <3>2
  <2>2. CASE t = <<PlaybackChanged>> \/ t = <<PlaybackChanged, QueueChanged(conn[c].version)>>
    <3>1. Head(t) = PlaybackChanged
      BY <1>2, <2>2
    <3>2. QED
      BY <3>1
  <2>3. QED
    BY <1>1, <2>1, <2>2 DEF MaySay
<1>5. Owes(conn[c]) = Len(t)
  BY <1>0 DEF Owes
<1>6. CASE Tail(t) = <<>>
  <2>1. Len(t) = 1
    BY <1>1, <1>2, <1>6 DEF MaySay
  <2>2. conn'[c] = Idle
    BY <1>0, <1>6 DEF Tell, Done
  <2>3. Owes(conn'[c]) = 0
    BY <2>2, RecordFacts DEF Owes
  <2> HIDE DEF t
  <2>4. Owes(conn'[c]) + 1 = Owes(conn[c])
    BY <1>5, <2>1, <2>3
  <2>5. QED
    BY <1>4, <2>4, TellTyped, Zenon DEF t
<1>7. CASE Tail(t) # <<>>
  <2>1. Len(t) = 2 /\ Len(Tail(t)) = 1
    BY <1>1, <1>2, <1>7 DEF MaySay
  <2>2. conn'[c] = r
    BY <1>0, <1>7 DEF Tell
  <2>3. r.pc = "tell" /\ r.tells = Tail(t)
    BY <1>0 DEF Conn
  <2> HIDE DEF r
  <2>4. Owes(conn'[c]) = 1
    BY <2>1, <2>2, <2>3 DEF Owes
  <2> HIDE DEF t
  <2>5. Owes(conn'[c]) + 1 = Owes(conn[c])
    BY <1>5, <2>1, <2>4
  <2>6. QED
    BY <1>4, <2>5, TellTyped, Zenon DEF t
<1>8. QED
  BY <1>6, <1>7

(* There is room for every event: the channel never overflows. *)
Roomy == Room /\ feed.open /\ ~feed.lagged

LEMMA ServeRoom ==
  ASSUME IInv, IInv', Copies, ServerTyped, OnTracks(queue'), InOrder, Roomy, NEW c \in Conns, Serve(c)
  PROVE  /\ Roomy'
         /\ \A d \in Conns \ {c} : conn'[d] = conn[d]
         /\ IF Tell(c) THEN feed'.events = Append(feed.events, Head(conn[c].tells)) ELSE feed' = feed
<1> DEFINE n == Len(feed.events)
           k == Cardinality(Tokens)
           m == setting.budget
           was == Owes(conn[c])
           is == Owes(conn'[c])
<1>0. /\ DOMAIN conn = Conns /\ n \in Nat /\ budget \in Nat /\ m \in Nat /\ setting.capacity \in Nat
      /\ setting.capacity >= 2 * m /\ n + k + 2 * budget <= 2 * m /\ feed \in FeedTypes
  <2>1. feed \in FeedTypes /\ setting \in Settings /\ budget \in Nat
    BY DEF ServerTyped, ServerTypeOK, FeedTypes
  <2>2. n \in Nat
    BY <2>1, FeedWith
  <2>3. QED
    BY <2>1, <2>2, CapacityFacts DEF IInv, Shape, InOrder, Roomy, Room
<1>1. PICK r : conn' = [conn EXCEPT ![c] = r]
  BY ServeTyped DEF Typed, Becomes
<1>2. conn'[c] = r /\ \A d \in Conns \ {c} : conn'[d] = conn[d]
  BY <1>0, <1>1
<1>3. was \in 0..2 /\ is \in 0..2
  <2>1. (Owes(conn[c]) \in 0..2)'
    <3>1. conn'[c].pc \in {"player", "tell"} => MaySay(conn'[c].pc, conn'[c].version, conn'[c].tells)
      BY DEF IInv, Broadcasting, Speaking
    <3>2. QED
      BY <3>1, OwesType
  <2>2. QED
    BY <2>1, MayOwe
<1>4. k \in Nat /\ Cardinality(Tokens') \in Nat /\ Cardinality(Tokens') + was = k + is /\ was <= k
  BY <1>0, <1>1, <1>2, <1>3, TokensMove
<1>5. UNCHANGED <<setting, budget>> /\ (~Tell(c) => feed' = feed)
  BY PcActions
<1>6. CASE ~Tell(c)
  <2>1. is <= was /\ feed' = feed
    BY <1>5, <1>6, ServeOwes
  <2> DEFINE left == Cardinality(Tokens')
  <2> HIDE DEF was, is, n, k, m, left
  <2>2. n + left + 2 * budget <= 2 * m
    <3>1. left \in Nat /\ left + was = k + is /\ is <= was /\ k \in Nat
      BY <1>4, <2>1 DEF left
    <3>2. left <= k
      BY <1>3, <3>1
    <3>3. QED
      BY <1>0, <3>1, <3>2
  <2>3. Roomy'
    BY <1>5, <2>1, <2>2 DEF Roomy, Room, n, m, left
  <2>4. QED
    BY <1>2, <1>6, <2>1, <2>3
<1>7. CASE Tell(c)
  <2> DEFINE e == Head(conn[c].tells)
             s == Append(feed.events, e)
             f == [feed EXCEPT !.events = s]
  <2>1. is + 1 = was /\ e \in Event
    BY <1>7, ToldOne
  <2> HIDE DEF was, is
  <2>2. n < setting.capacity
    BY <1>0, <1>3, <1>4, <2>1, SMTT(30)
  <2>3. feed' = f
    BY <1>7, <2>2 DEF Tell, Sent, Roomy
  <2>4. Len(s) = n + 1
    BY <1>0, <2>1, FeedWith
  <2> HIDE DEF s
  <2>5. f.events = s /\ f.open = feed.open /\ f.lagged = feed.lagged
    BY <1>0 DEF FeedTypes
  <2> HIDE DEF f, n, k, m, e
  <2>6. Len(feed'.events) = n + 1 /\ feed'.open /\ ~feed'.lagged
    BY <2>3, <2>4, <2>5 DEF Roomy
  <2>7. n + 1 + Cardinality(Tokens') + 2 * budget <= 2 * m
    BY <1>0, <1>3, <1>4, <2>1
  <2>8. Roomy'
    BY <1>5, <2>6, <2>7 DEF Roomy, Room, m
  <2>9. QED
    BY <1>2, <1>7, <2>3, <2>5, <2>8 DEF s, e
<1>8. QED
  BY <1>6, <1>7

(* A command that begins pays for two events. *)
LEMMA BeginRoom ==
  ASSUME IInv, ServerTyped, Roomy, NEW c \in Conns, NEW r, Owes(conn[c]) = 0, Owes(r) \in 0..2,
         UNCHANGED <<setting, feed>>, conn' = [conn EXCEPT ![c] = r],
         (Owes(r) = 0 /\ budget' = budget) \/ (budget > 0 /\ budget' = budget - 1)
  PROVE  Roomy'
<1> DEFINE n == Len(feed.events)
           k == Cardinality(Tokens)
           m == setting.budget
           is == Owes(r)
<1>0. /\ DOMAIN conn = Conns /\ n \in Nat /\ budget \in Nat /\ m \in Nat /\ n + k + 2 * budget <= 2 * m
  <2>1. feed \in FeedTypes /\ setting \in Settings /\ budget \in Nat
    BY DEF ServerTyped, ServerTypeOK, FeedTypes
  <2>2. n \in Nat
    BY <2>1, FeedWith
  <2>3. QED
    BY <2>1, <2>2, CapacityFacts DEF IInv, Shape, Roomy, Room
<1>1. k \in Nat /\ Cardinality(Tokens') \in Nat /\ Cardinality(Tokens') + Owes(conn[c]) = k + is
  <2>1. Owes(conn[c]) \in 0..2
    OBVIOUS
  <2>2. QED
    BY <1>0, <2>1, TokensMove
<1>2. Cardinality(Tokens') = k + is
  BY <1>1
<1>3. is \in 0..2 /\ ((is = 0 /\ budget' = budget) \/ (budget > 0 /\ budget' = budget - 1))
  OBVIOUS
<1> HIDE DEF is, n, k, m
<1>4. n + Cardinality(Tokens') + 2 * budget' <= 2 * m
  BY <1>0, <1>1, <1>2, <1>3
<1>5. QED
  BY <1>4 DEF Roomy, Room, n, m

-----------------------------------------------------------------------------
(* Whatever changes what plays, says so. *)

SameSound == (player'.state = "playing") = (player.state = "playing") /\ CurrentTrack(queue') = CurrentTrack(queue)

LEMMA TellsFacts ==
  ASSUME NEW r, r.pc \in {"player", "tell"}, NEW v,
         r.tells = <<PlaybackChanged>> \/ r.tells = <<PlaybackChanged, QueueChanged(v)>>
  PROVE  Tells(r)
<1>1. \A x, y : 1 \in DOMAIN <<x>> /\ <<x>>[1] = x /\ 1 \in DOMAIN <<x, y>> /\ <<x, y>>[1] = x
  OBVIOUS
<1>2. 1 \in DOMAIN r.tells /\ r.tells[1] = PlaybackChanged
  BY <1>1
<1>3. QED
  BY <1>2 DEF Tells

LEMMA AnnouncedTells ==
  ASSUME IInv, NEW c \in Conns, NEW v, Announce(c, v, <<PlaybackChanged>>)
  PROVE  Tells(conn'[c])
<1>1. conn'[c].pc = "tell" /\ conn'[c].tells = <<PlaybackChanged>>
  BY AnnouncedIs DEF IInv, Shape
<1>2. QED
  BY <1>1, TellsFacts

LEMMA ThenPlayerTells ==
  ASSUME IInv, NEW c \in Conns, NEW source, NEW v, NEW w, NEW events, ThenPlayer(c, source, v, events),
         events = <<PlaybackChanged>> \/ events = <<PlaybackChanged, QueueChanged(w)>>
  PROVE  Tells(conn'[c])
<1>1. conn'[c].pc = "player" /\ conn'[c].tells = events
  BY ThenPlayerFacts
<1>2. QED
  BY <1>1, TellsFacts

LEMMA ServeSays ==
  ASSUME IInv, ServerTyped, PlainUse, UsedOnly, NEW c \in Conns, Serve(c)
  PROVE  SameSound \/ Tells(conn'[c])
<1>0. /\ conn[c].cmd \notin {"add", "delete", "clear"} /\ ~Refuses
      /\ WellFormed(queue)
  <2>1. conn[c].cmd \in setting.commands \cup Reads
    BY DEF UsedOnly
  <2>2. conn[c].cmd \notin {"add", "delete", "clear"}
    BY <2>1 DEF PlainUse, Reads
  <2>3. QED
    BY <2>2, ServerTypedFacts DEF Refuses, PlainUse, InOrder, OnTracks
<1>1. CASE UNCHANGED <<queue, player>>
  BY <1>1 DEF SameSound
<1>2. CASE Move(c) \/ PauseResumeStop(c)
  <2>1. UNCHANGED <<queue, player>> \/ Announce(c, 0, <<PlaybackChanged>>)
    BY <1>0, <1>2 DEF Move, PauseResumeStop
  <2>2. QED
    BY <1>1, <2>1, AnnouncedTells
<1>3. CASE Add(c) \/ Delete(c) \/ Clear(c)
  BY <1>0, <1>3 DEF Add, Delete, Clear, UnderBoth, UnderFirst, Briefly, At
<1>4. CASE HttpAdd(c)
  <2>1. PICK album \in Albums :
          \/ \E w : ThenPlayer(c, CurrentTrack(queue'), w, <<PlaybackChanged, QueueChanged(w)>>)
          \/ queue' = AddAlbum(queue, album) /\ player' = player
    <3>1. PICK album \in Albums :
            \/ ThenPlayer(c, CurrentTrack(queue'), version', <<PlaybackChanged, QueueChanged(version')>>)
            \/ Edits(c, AddAlbum(queue, album))
      BY <1>4 DEF HttpAdd
    <3>2. QED
      BY <3>1 DEF Edits
  <2>2. CurrentTrack(AddAlbum(queue, album)) = CurrentTrack(queue)
    BY <1>0, AlbumFacts, AddAlbumPlays
  <2>3. QED
    BY <2>1, <2>2, ThenPlayerTells DEF SameSound
<1>5. CASE HttpClear(c)
  BY <1>5, ThenPlayerTells DEF HttpClear
<1>6. CASE HttpDelete(c)
  <2>1. \/ UNCHANGED <<queue, player>>
        \/ ThenPlayer(c, CurrentTrack(queue'), version', <<PlaybackChanged, QueueChanged(version')>>)
        \/ /\ conn[c].arg \in DOMAIN queue.items /\ conn[c].arg # queue.current
           /\ queue' = RemoveAlbum(queue, conn[c].arg) /\ player' = player
    BY <1>6 DEF HttpDelete, Edits, data
  <2>2. ASSUME conn[c].arg \in DOMAIN queue.items, conn[c].arg # queue.current
        PROVE  CurrentTrack(RemoveAlbum(queue, conn[c].arg)) = CurrentTrack(queue)
    BY <1>0, <2>2, RemoveAlbumPlays
  <2>3. QED
    BY <1>1, <2>1, <2>2, ThenPlayerTells DEF SameSound
<1>7. CASE HttpJump(c)
  <2>1. UNCHANGED <<queue, player>> \/ ThenPlayer(c, CurrentTrack(queue'), 0, <<PlaybackChanged>>)
    BY <1>7 DEF HttpJump
  <2>2. QED
    BY <1>1, <2>1, ThenPlayerTells
<1>8. CASE UsePlayer(c)
  <2>1. Announce(c, conn[c].version, conn[c].tells) /\ conn[c].pc = "player"
    BY <1>0, <1>8 DEF UsePlayer, Briefly, At
  <2>2. \/ conn[c].tells = <<PlaybackChanged>>
        \/ conn[c].tells = <<PlaybackChanged, QueueChanged(conn[c].version)>>
    BY <2>1 DEF IInv, Broadcasting, Speaking, MaySay
  <2>3. conn'[c].pc = "tell" /\ conn'[c].tells = conn[c].tells
    BY <2>1, AnnouncedIs DEF IInv, Shape
  <2>4. QED
    BY <2>2, <2>3, TellsFacts
<1>9. CASE \/ TakeFirst(c) \/ LookUp(c) \/ ReadStatus(c) \/ ReadSong(c) \/ CountLibrary(c) \/ ReadItems(c)
           \/ ReadAlbums(c) \/ LookupMedia(c) \/ ReadDatabase(c) \/ Swap(c) \/ Mark(c) \/ Tell(c)
  <2>1. UNCHANGED <<queue, player>>
    BY <1>9 DEF TakeFirst, LookUp, ReadStatus, ReadSong, CountLibrary, ReadItems, ReadAlbums, LookupMedia,
                ReadDatabase, Swap, Mark, Tell, data
  <2>2. QED
    BY <1>1, <2>1
<1>10. QED
  BY <1>2, <1>3, <1>4, <1>5, <1>6, <1>7, <1>8, <1>9 DEF Serve

(* What a connection was about to say it says, or is still about to say. *)
LEMMA ServeTellsOn ==
  ASSUME IInv, ServerTyped, PlainUse, NEW c \in Conns, Serve(c), Tells(conn[c])
  PROVE  Tells(conn'[c]) \/ (Tell(c) /\ Head(conn[c].tells) = PlaybackChanged)
<1>1. CASE conn[c].pc = "tell"
  BY <1>1, PcActions, ToldOne
<1>2. CASE conn[c].pc = "player"
  <2>1. UsePlayer(c)
    BY <1>2, PcActions
  <2>2. Announce(c, conn[c].version, conn[c].tells)
    BY <2>1 DEF UsePlayer, Refuses, PlainUse, InOrder
  <2>3. conn'[c].pc = "tell" /\ conn'[c].tells = conn[c].tells
    BY <2>2, AnnouncedIs DEF IInv, Shape
  <2>4. QED
    BY <2>3 DEF Tells
<1>3. QED
  BY <1>1, <1>2 DEF Tells

-----------------------------------------------------------------------------
(* A step of the server leaves the screen as sure as it was. *)

LEMMA ServeTouches ==
  ASSUME IInv, Copies, ServerTyped, NEW c \in Conns, Serve(c)
  PROVE  /\ conn'[c].cmd \in {"status", conn[c].cmd}
         /\ conn'[c].pc \in {"song", "count", "answered"} /\ conn'[c].answer.kind = "state" =>
              \/ conn'[c].answer = Status
              \/ /\ conn[c].pc \in {"song", "count"} /\ conn[c].answer.kind = "state"
                 /\ conn'[c].answer.playing = conn[c].answer.playing
                 /\ conn'[c].answer.track \in {conn[c].answer.track, CurrentTrack(queue')}
<1> DEFINE q == conn[c]
<1>0. DOMAIN conn = Conns /\ q \in Conn
  BY ServerTypedFacts DEF IInv, Shape
<1>1. ASSUME NEW r, conn' = [conn EXCEPT ![c] = r]
      PROVE  conn'[c] = r
  BY <1>0, <1>1
<1>2. Idle.cmd = "status" /\ Idle.pc = "idle"
  BY DEF Idle
<1>3. CASE Done(c)
  BY <1>1, <1>2, <1>3 DEF Done
<1>4. ASSUME NEW v, NEW events, Announce(c, v, events)
      PROVE  conn'[c].pc = "tell" /\ conn'[c].cmd = "status"
  <2> DEFINE r == [Idle EXCEPT !.pc = "tell", !.version = v, !.tells = events]
  <2>1. conn'[c] = r
    BY <1>1, <1>4 DEF Announce
  <2>2. r.pc = "tell" /\ r.cmd = "status"
    BY DEF Idle
  <2>3. QED
    BY <2>1, <2>2
<1>5. ASSUME NEW a, Reply(c, a)
      PROVE  /\ conn'[c].cmd = "status" /\ conn'[c].pc \in {"idle", "answered"}
             /\ conn'[c].pc = "answered" => conn'[c].answer = a
  <2> DEFINE r == [Idle EXCEPT !.pc = "answered", !.answer = a]
  <2>1. conn'[c] = r \/ conn'[c] = Idle
    BY <1>1, <1>5 DEF Reply, Done
  <2>2. r.pc = "answered" /\ r.cmd = "status" /\ r.answer = a
    BY DEF Idle
  <2>3. QED
    BY <1>2, <2>1, <2>2
<1>6. ASSUME NEW source, NEW v, NEW events, ThenPlayer(c, source, v, events)
      PROVE  conn'[c].pc = "player" /\ conn'[c].cmd = conn[c].cmd
  BY <1>6, ThenPlayerFacts
<1>7. ASSUME NEW pc, conn' = [conn EXCEPT ![c] = [q EXCEPT !.pc = pc]]
      PROVE  conn'[c].pc = pc /\ conn'[c].cmd = conn[c].cmd
  <2> DEFINE r == [q EXCEPT !.pc = pc]
  <2>1. conn'[c] = r
    BY <1>1, <1>7
  <2>2. r.pc = pc /\ r.cmd = q.cmd
    BY <1>0, RecordFacts
  <2>3. QED
    BY <2>1, <2>2
<1>8. CASE Move(c) \/ PauseResumeStop(c) \/ Add(c) \/ Delete(c) \/ Clear(c) \/ UsePlayer(c) \/ Mark(c)
           \/ LookupMedia(c)
  <2>1. Done(c) \/ \E v, events : Announce(c, v, events)
    BY <1>8 DEF Move, PauseResumeStop, Add, Delete, Clear, UsePlayer, Mark, LookupMedia, Announced
  <2>2. QED
    BY <1>3, <1>4, <2>1
<1>9. CASE HttpAdd(c) \/ HttpClear(c) \/ HttpDelete(c) \/ HttpJump(c)
  <2>1. \/ Done(c) \/ (\E v, events : Announce(c, v, events))
        \/ \E source, v, events : ThenPlayer(c, source, v, events)
    BY <1>9 DEF HttpAdd, HttpClear, HttpDelete, HttpJump, Announced
  <2>2. QED
    BY <1>3, <1>4, <1>6, <2>1
<1>10. CASE TakeFirst(c) \/ Swap(c) \/ LookUp(c)
  <2>1. Done(c) \/ \E pc \in {"second", "mark", "found"} : conn' = [conn EXCEPT ![c] = [q EXCEPT !.pc = pc]]
    BY <1>10 DEF TakeFirst, Swap, LookUp
  <2>2. QED
    BY <1>3, <1>7, <2>1
<1>11. CASE Tell(c)
  <2> DEFINE r == [q EXCEPT !.tells = Tail(q.tells)]
  <2>1. Done(c) \/ conn'[c] = r
    BY <1>1, <1>11 DEF Tell
  <2>2. r.pc = "tell" /\ r.cmd = q.cmd
    BY <1>0, <1>11 DEF Tell, Conn
  <2> HIDE DEF r
  <2>3. CASE Done(c)
    BY <1>3, <2>3
  <2>4. CASE conn'[c] = r
    BY <2>2, <2>4
  <2>5. QED
    BY <2>1, <2>3, <2>4
<1>12. CASE ReadStatus(c)
  <2> DEFINE r == [q EXCEPT !.pc = "song", !.answer = Status]
  <2>1. conn' = [conn EXCEPT ![c] = r]
    BY <1>12 DEF ReadStatus
  <2>2. r.cmd = q.cmd /\ r.answer = Status
    BY <1>0 DEF Conn
  <2> HIDE DEF r
  <2>3. conn'[c] = r
    BY <1>0, <2>1
  <2>4. QED
    BY <2>2, <2>3
<1>13. CASE CountLibrary(c)
  <2> DEFINE a == conn[c].answer
             b == [a EXCEPT !.library = library.version]
  <2>1. conn[c].pc = "count" /\ a.kind = "state" /\ a \in Answer
    BY <1>0, <1>13, ConnFields DEF CountLibrary, Briefly, At, Copies, Good
  <2>2. conn'[c].cmd = "status" /\ (conn'[c].pc \in {"song", "count", "answered"} => conn'[c].answer = b)
    BY <1>5, <1>13 DEF CountLibrary
  <2>3. b.playing = a.playing /\ b.track = a.track
    <3>1. a \in StateAnswers
      BY <2>1, StateAnswer
    <3>2. QED
      BY <3>1, Zenon DEF StateAnswers
  <2> HIDE DEF b
  <2>4. QED
    BY <2>1, <2>2, <2>3
<1>16. CASE ReadSong(c)
  <2> DEFINE a == conn[c].answer
             b == [a EXCEPT !.track = CurrentTrack(queue)]
             r == [q EXCEPT !.pc = "count", !.answer = b]
  <2>1. conn[c].pc = "song" /\ a.kind = "state" /\ a \in Answer
    BY <1>0, <1>16, ConnFields DEF ReadSong, Briefly, At, Copies, Good
  <2>2. conn' = [conn EXCEPT ![c] = r] /\ queue' = queue
    BY <1>16 DEF ReadSong, data
  <2>3. b.playing = a.playing /\ b.track = CurrentTrack(queue)
    <3>1. a \in StateAnswers
      BY <2>1, StateAnswer
    <3>2. DOMAIN a = {"kind", "playing", "track", "version", "library"}
      BY <3>1 DEF StateAnswers
    <3>3. QED
      BY <3>1, <3>2 DEF StateAnswers
  <2> HIDE DEF b
  <2>4. r.cmd = q.cmd /\ r.answer = b
    BY <1>0 DEF Conn
  <2> HIDE DEF r
  <2>5. conn'[c] = r
    BY <1>0, <2>2
  <2>6. CurrentTrack(queue') = CurrentTrack(queue)
    BY <2>2
  <2>7. QED
    BY <2>1, <2>3, <2>4, <2>5, <2>6
<1>17. CASE ReadDatabase(c)
  <2> DEFINE n == library'.reads
             r == [q EXCEPT !.pc = "swap", !.version = n]
  <2>1. Done(c) \/ conn' = [conn EXCEPT ![c] = r]
    BY <1>17 DEF ReadDatabase
  <2> HIDE DEF n
  <2>2. r.cmd = q.cmd /\ r.pc = "swap"
    BY <1>0 DEF Conn
  <2> HIDE DEF r
  <2>3. Done(c) \/ conn'[c] = r
    BY <1>1, <2>1
  <2>4. QED
    BY <1>3, <2>2, <2>3
<1>14. CASE ReadItems(c) \/ ReadAlbums(c)
  <2>1. \E a : a.kind # "state" /\ Reply(c, a)
    <3> DEFINE items == [kind |-> "queue", items |-> FlatTracks(queue)]
               page == [kind |-> "page", copy |-> library.copy, swap |-> library.swap, version |-> library.version]
    <3>1. items.kind # "state" /\ page.kind # "state"
      OBVIOUS
    <3>2. Reply(c, items) \/ Reply(c, page)
      BY <1>14 DEF ReadItems, ReadAlbums
    <3> HIDE DEF items, page
    <3>3. QED
      BY <3>1, <3>2
  <2>2. QED
    BY <1>5, <2>1
<1>15. QED
  BY <1>8, <1>9, <1>10, <1>11, <1>12, <1>13, <1>14, <1>16, <1>17 DEF Serve

LEMMA CarriesFacts ==
  ASSUME NEW s \in Seq(Event), NEW e
  PROVE  /\ Carries(s) => Carries(Append(s, e))
         /\ e = PlaybackChanged => Carries(Append(s, e))
         /\ s # <<>> /\ Carries(s) => Head(s) = PlaybackChanged \/ Carries(Tail(s))
         /\ ~Carries(<<>>)
<1> HIDE DEF Event, PlaybackChanged
<1> DEFINE t == Append(s, e)
<1>1. /\ Len(s) \in Nat /\ DOMAIN s = 1..Len(s) /\ DOMAIN t = 1..(Len(s) + 1)
      /\ (\A i \in 1..Len(s) : t[i] = s[i]) /\ t[Len(s) + 1] = e
  OBVIOUS
<1>2. /\ DOMAIN s \subseteq DOMAIN t /\ Len(s) + 1 \in DOMAIN t /\ \A i \in DOMAIN s : t[i] = s[i]
  BY <1>1
<1>3. ASSUME s # <<>>
      PROVE  /\ Head(s) = s[1] /\ DOMAIN Tail(s) = 1..(Len(s) - 1)
             /\ \A i \in 1..(Len(s) - 1) : Tail(s)[i] = s[i + 1]
  BY <1>3
<1> HIDE DEF t
<1>4. (Carries(s) => Carries(t)) /\ (e = PlaybackChanged => Carries(t))
  BY <1>1, <1>2 DEF Carries
<1>5. ASSUME s # <<>>, Carries(s)
      PROVE  Head(s) = PlaybackChanged \/ Carries(Tail(s))
  <2>1. PICK i \in 1..Len(s) : s[i] = PlaybackChanged
    BY <1>1, <1>5 DEF Carries
  <2>2. CASE i = 1
    BY <1>3, <1>5, <2>1, <2>2
  <2>3. CASE i # 1
    <3>1. i - 1 \in 1..(Len(s) - 1) /\ (i - 1) + 1 = i
      BY <1>1, <2>3
    <3>2. Tail(s)[i - 1] = s[i]
      BY <1>3, <1>5, <3>1
    <3>3. i - 1 \in DOMAIN Tail(s)
      BY <1>3, <1>5, <3>1
    <3>4. QED
      BY <2>1, <3>2, <3>3 DEF Carries
  <2>4. QED
    BY <2>2, <2>3
<1>6. ~Carries(<<>>)
  BY DEF Carries
<1>7. QED
  BY <1>4, <1>5, <1>6 DEF t

(* What was shown is shown still, or news of it is on its way. *)
ShowsNext(a) == a.kind = "state" /\ a.playing = (player'.state = "playing") /\ a.track = CurrentTrack(queue')
SureNext(a) == ShowsNext(a) \/ Pending'

LEMMA SureOn ==
  ASSUME NEW a, Sure(a), SameSound \/ Pending', Pending => Pending'
  PROVE  SureNext(a)
<1>1. CASE Pending'
  BY <1>1 DEF SureNext
<1>2. CASE SameSound /\ Shows(a)
  <2>1. a.playing = (player.state = "playing")
    BY <1>2 DEF Shows
  <2>2. (player'.state = "playing") = (player.state = "playing")
    BY <1>2 DEF SameSound
  <2>3. a.playing = (player'.state = "playing")
    BY <2>1, <2>2, Zenon
  <2>4. a.kind = "state" /\ a.track = CurrentTrack(queue')
    BY <1>2 DEF Shows, SameSound
  <2>5. QED
    BY <2>3, <2>4 DEF SureNext, ShowsNext
<1>3. QED
  BY <1>1, <1>2 DEF Sure

LEMMA StatusShows == Shows(Status)
<1>1. Status.kind = "state" /\ Status.track = CurrentTrack(queue)
  BY DEF Status
<1>2. Status.playing = (player.state = "playing")
  BY Zenon DEF Status
<1>3. QED
  BY <1>1, <1>2 DEF Shows

(* The parts of Following that a step of the server touches. *)
LEMMA ServerFollows ==
  ASSUME IInv, IInv', Copies, ServerTyped, OnTracks(queue'), PlainUse, Following, UNCHANGED client,
         NEW c \in Conns, Serve(c)
  PROVE  Following'
<1>0. /\ DOMAIN conn = Conns /\ Stream \in Conns /\ Fetch \in Conns /\ InOrder
      /\ UNCHANGED <<remote, worker, sse, wire, setting, budget>>
      /\ conn[c].pc \notin {"idle", "answered"}
  BY PlayerServerAssumption, RemoteViewAssumption, PcActions DEF IInv, Shape, PlainUse, client
<1>1. Linked /\ UsedOnly /\ Served /\ Room /\ Answers /\ ScreenSure
  BY DEF Following
<1>2. /\ Roomy' /\ (\A d \in Conns \ {c} : conn'[d] = conn[d])
      /\ IF Tell(c) THEN feed'.events = Append(feed.events, Head(conn[c].tells)) ELSE feed' = feed
  BY <1>0, <1>1, ServeRoom DEF Roomy, Linked
<1>3. Linked'
  <2>1. c # Stream
    BY <1>0, <1>1 DEF Linked
  <2>2. QED
    BY <1>0, <1>1, <1>2, <2>1 DEF Linked, Roomy
<1>4. UsedOnly'
  <2>1. conn'[c].cmd \in {"status", conn[c].cmd}
    BY ServeTouches
  <2>2. QED
    BY <1>0, <1>1, <1>2, <2>1 DEF UsedOnly, Reads
<1>5. Served'
  <2>1. conn'[Fetch].pc # "idle" => conn[Fetch].pc # "idle"
    BY <1>0, <1>2
  <2>2. QED
    BY <1>0, <1>1, <2>1 DEF Served
<1>6. Room'
  BY <1>2 DEF Roomy
<1>7. Pending => Pending'
  <2>1. ASSUME NEW d \in Conns, Tells(conn[d])
        PROVE  Tells(conn'[d]) \/ Carries(feed'.events)
    <3>1. CASE d # c
      BY <1>2, <2>1, <3>1 DEF Tells
    <3>2. CASE d = c
      <4>1. Tells(conn'[c]) \/ (Tell(c) /\ Head(conn[c].tells) = PlaybackChanged)
        BY <1>0, <2>1, <3>2, ServeTellsOn
      <4>2. CASE Tell(c) /\ Head(conn[c].tells) = PlaybackChanged
        <5>1. feed.events \in Seq(Event)
          BY FeedWith DEF ServerTyped, ServerTypeOK, FeedTypes
        <5>2. Carries(Append(feed.events, Head(conn[c].tells)))
          BY <4>2, <5>1, CarriesFacts
        <5>3. feed'.events = Append(feed.events, Head(conn[c].tells))
          BY <1>2, <4>2
        <5>4. QED
          BY <5>2, <5>3 DEF Carries
      <4>3. QED
        BY <3>2, <4>1, <4>2
    <3>3. QED
      BY <3>1, <3>2
  <2>2. Carries(feed.events) => Carries(feed'.events)
    <3>1. feed.events \in Seq(Event)
      BY FeedWith DEF ServerTyped, ServerTypeOK, FeedTypes
    <3>2. CASE Tell(c)
      <4>1. Carries(feed.events) => Carries(Append(feed.events, Head(conn[c].tells)))
        BY <3>1, CarriesFacts
      <4>2. QED
        BY <1>2, <3>2, <4>1 DEF Carries
    <3>3. CASE ~Tell(c)
      BY <1>2, <3>3 DEF Carries
    <3>4. QED
      BY <3>2, <3>3
  <2>3. Coming => Coming'
    BY <2>1, <2>2 DEF Coming, Tells, Carries
  <2>4. QED
    BY <1>0, <2>3 DEF Pending, Carries
<1>8. SameSound \/ Pending'
  <2>1. SameSound \/ Tells(conn'[c])
    BY <1>1, ServeSays
  <2>2. Tells(conn'[c]) => Pending'
    BY DEF Pending, Coming, Tells
  <2>3. QED
    BY <2>1, <2>2
<1>9. \A a : Sure(a) => SureNext(a)
  BY <1>7, <1>8, SureOn
<1>10. Answers'
  <2>1. \A a \in worker'.got : a.kind = "state" => SureNext(a)
    BY <1>0, <1>1, <1>9 DEF Answers
  <2>2. conn'[Fetch].pc \in {"song", "count", "answered"} /\ conn'[Fetch].answer.kind = "state"
        => SureNext(conn'[Fetch].answer)
    <3>1. CASE Fetch # c
      <4>1. conn'[Fetch] = conn[Fetch]
        BY <1>0, <1>2, <3>1
      <4>2. QED
        BY <1>1, <1>9, <4>1 DEF Answers
    <3>2. CASE Fetch = c
      <4> SUFFICES ASSUME conn'[c].pc \in {"song", "count", "answered"}, conn'[c].answer.kind = "state"
                   PROVE  SureNext(conn'[c].answer)
        BY <3>2
      <4>1. CASE conn'[c].answer = Status
        BY <1>9, <4>1, StatusShows DEF Sure
      <4>2. CASE /\ conn[c].pc \in {"song", "count"} /\ conn[c].answer.kind = "state"
                 /\ conn'[c].answer.playing = conn[c].answer.playing
                 /\ conn'[c].answer.track \in {conn[c].answer.track, CurrentTrack(queue')}
        <5>1. Sure(conn[c].answer)
          BY <1>1, <3>2, <4>2 DEF Answers
        <5>2. SureNext(conn[c].answer)
          BY <1>9, <5>1
        <5>3. QED
          BY <4>2, <5>2 DEF SureNext, ShowsNext
      <4>3. QED
        BY <4>1, <4>2, ServeTouches
    <3>3. QED
      BY <3>1, <3>2
  <2>3. QED
    BY <2>1, <2>2 DEF Answers, Sure, Shows, SureNext, ShowsNext
<1>11. ScreenSure'
  <2>1. Sure(remote.state) => SureNext(remote.state)
    BY <1>9
  <2>2. SureNext(remote.state) \/ remote.disabled \/ "state" \in worker.asked
    BY <1>1, <2>1 DEF ScreenSure
  <2>3. QED
    BY <1>0, <2>2 DEF ScreenSure, Sure, Shows, SureNext, ShowsNext
<1>12. QED
  BY <1>3, <1>4, <1>5, <1>6, <1>10, <1>11 DEF Following

LEMMA ServerNextFollows ==
  ASSUME IInv, IInv', Copies, ServerTyped, OnTracks(queue'), PlainUse, Following, UNCHANGED client, ServerNext
  PROVE  Following'
<1>0. /\ DOMAIN conn = Conns /\ Stream \in Conns /\ Fetch \in Conns
      /\ UNCHANGED <<remote, worker, sse, wire>>
  BY PlayerServerAssumption, RemoteViewAssumption DEF IInv, Shape, client
<1>1. Linked /\ UsedOnly /\ Served /\ Room /\ Answers /\ ScreenSure
  BY DEF Following
<1>2. ~TrackEnds
  BY DEF TrackEnds, PlainUse, InOrder
<1>3. ASSUME NEW c \in Conns, NEW cmd \in Commands, NEW arg \in 0..MaxPosition, Begin(c, cmd, arg)
      PROVE  Following'
  <2> DEFINE r == Asked(cmd, arg)
  <2>1. /\ UNCHANGED <<setting, feed, queue, player>> /\ conn' = [conn EXCEPT ![c] = r]
        /\ c \in setting.conns /\ cmd \in setting.commands /\ conn[c].pc = "idle"
        /\ budget > 0 /\ budget' = budget - 1
    BY <1>3 DEF Begin, data
  <2>2. r.cmd = cmd /\ r.pc = "first" /\ r.answer = NoAnswer
    BY DEF Asked, Idle
  <2> HIDE DEF r
  <2>3. c \notin Readers
    <3>1. setting \in Settings
      BY DEF ServerTyped, ServerTypeOK
    <3>2. QED
      BY <2>1, <3>1, RemoteViewAssumption
  <2>4. conn'[Stream] = conn[Stream] /\ conn'[Fetch] = conn[Fetch] /\ conn'[c] = r
        /\ \A d \in Conns \ {c} : conn'[d] = conn[d]
    BY <1>0, <2>1, <2>3, RemoteViewAssumption
  <2>5. Roomy'
    <3>1. Owes(conn[c]) = 0
      BY <2>1, MayOwe
    <3>2. Owes(r) \in 0..2
      BY <2>2 DEF Owes
    <3>3. Roomy
      BY <1>1 DEF Roomy, Linked
    <3>4. QED
      BY <2>1, <3>1, <3>2, <3>3, BeginRoom
  <2>6. SameSound
    BY <2>1 DEF SameSound
  <2>7. Pending => Pending'
    <3>1. \A d \in Conns : Tells(conn[d]) => Tells(conn'[d])
      BY <2>1, <2>4 DEF Tells
    <3>2. QED
      BY <1>0, <2>1, <3>1 DEF Pending, Coming, Tells, Carries
  <2>8. \A a : Sure(a) => SureNext(a)
    BY <2>6, <2>7, SureOn
  <2>9. Linked' /\ UsedOnly' /\ Served'
    BY <1>0, <1>1, <2>1, <2>2, <2>4 DEF Linked, UsedOnly, Served
  <2>10. Answers'
    BY <1>0, <1>1, <2>4, <2>8 DEF Answers, Sure, Shows, SureNext, ShowsNext
  <2>11. ScreenSure'
    <3>1. SureNext(remote.state) \/ remote.disabled \/ "state" \in worker.asked
      BY <1>1, <2>8 DEF ScreenSure
    <3>2. QED
      BY <1>0, <3>1 DEF ScreenSure, Sure, Shows, SureNext, ShowsNext
  <2>12. QED
    BY <2>5, <2>9, <2>10, <2>11 DEF Following, Roomy
<1>4. QED
  BY <1>2, <1>3, ServerFollows DEF ServerNext

-----------------------------------------------------------------------------
(* A tick of the timer. *)

(* Events change neither what is shown nor whether the client listens. *)
Unsettled(r, s) ==
  /\ RemoteShape(s, library) /\ s.state = r.state /\ s.listening = r.listening /\ s.disabled = r.disabled
  /\ r.requests \subseteq s.requests

LEMMA WantsUnsettled ==
  ASSUME NEW r, RemoteShape(r, library), NEW part, NEW when
  PROVE  Unsettled(r, Wants(r, part, when)) /\ (when => part \in Wants(r, part, when).requests)
<1>0. DOMAIN r = RemoteFields
  BY DEF RemoteShape
<1>1. CASE when
  <2> DEFINE s == [r EXCEPT !.requests = r.requests \cup {part}]
  <2>1. Wants(r, part, when) = s
    BY <1>1 DEF Wants
  <2>2. /\ DOMAIN s = RemoteFields /\ s.page = r.page /\ s.state = r.state /\ s.listening = r.listening
        /\ s.disabled = r.disabled /\ s.requests = r.requests \cup {part}
    BY <1>0 DEF RemoteFields
  <2> HIDE DEF s
  <2>3. QED
    BY <2>1, <2>2 DEF Unsettled, RemoteShape
<1>2. CASE ~when
  BY <1>2 DEF Wants, Unsettled
<1>3. QED
  BY <1>1, <1>2

LEMMA HandledUnsettled ==
  ASSUME NEW r, RemoteShape(r, library), NEW e \in Event
  PROVE  Unsettled(r, Handled(r, e)) /\ (e = PlaybackChanged => "state" \in Handled(r, e).requests)
<1> DEFINE blank == [r EXCEPT !.page = Missing]
           differs == r.state = Missing \/ r.state.version # e.version
<1>0. "event" \in DOMAIN e /\ e.event \in {"playback", "queue", "library"}
  BY DEF Event
<1>1. CASE e.event = "playback"
  <2>1. Handled(r, e) = Wants(r, "state", TRUE)
    BY <1>0, <1>1 DEF Handled
  <2>2. QED
    BY <2>1, WantsUnsettled
<1>2. CASE e.event = "queue"
  <2>1. Handled(r, e) = Wants(r, "queue", differs)
    BY <1>0, <1>2 DEF Handled
  <2>2. e # PlaybackChanged
    BY <1>2 DEF PlaybackChanged
  <2> HIDE DEF differs
  <2>3. QED
    BY <2>1, <2>2, WantsUnsettled
<1>3. CASE e.event = "library"
  <2>1. Handled(r, e) = Wants(blank, "page", TRUE)
    BY <1>0, <1>3 DEF Handled
  <2>2. /\ DOMAIN blank = RemoteFields /\ blank.page = Missing /\ blank.requests = r.requests
        /\ blank.state = r.state /\ blank.listening = r.listening /\ blank.disabled = r.disabled
    BY DEF RemoteShape, RemoteFields
  <2> HIDE DEF blank
  <2>3. RemoteShape(blank, library)
    BY <2>2 DEF RemoteShape, Remembered
  <2>4. Unsettled(blank, Wants(blank, "page", TRUE))
    BY <2>3, WantsUnsettled
  <2>5. e # PlaybackChanged
    BY <1>3 DEF PlaybackChanged
  <2>6. QED
    BY <2>1, <2>2, <2>4, <2>5 DEF Unsettled
<1>4. QED
  BY <1>0, <1>1, <1>2, <1>3

LEMMA BrowsedUnsettled ==
  ASSUME NEW r, RemoteShape(r, library)
  PROVE  Unsettled(r, Browsed(r))
<1> DEFINE q == Wants(r, "state", r.state = Missing)
           when == PageStale(r)
<1>1. Unsettled(r, q)
  BY WantsUnsettled
<1>2. Browsed(r) = Wants(q, "page", when)
  BY DEF Browsed
<1> HIDE DEF q, when
<1>3. Unsettled(q, Browsed(r))
  BY <1>1, <1>2, WantsUnsettled DEF Unsettled
<1>4. QED
  BY <1>1, <1>3 DEF Unsettled

(* What a refresh shows is what was shown or what the worker got; a wish   *)
(* for the state that came after the refresh began is not settled by it.   *)
Taken(a) == \E b \in worker.got : b.kind = "state" /\ a = b

LEMMA RefreshedShows ==
  ASSUME NEW r, RemoteShape(r, library), WorkerShape(worker, library)
  PROVE  /\ Refreshed(r).state = r.state \/ Taken(Refreshed(r).state)
         /\ "state" \in r.requests => "state" \in Refreshed(r).requests \/ Refreshed(r).disabled
         /\ Refreshed(r).listening = r.listening
<1>0. DOMAIN r = RemoteFields
  BY DEF RemoteShape
<1>1. CASE ~Finished
  BY <1>1 DEF Refreshed
<1>2. CASE Finished /\ worker.failed
  <2> DEFINE n == r.failures + 1
             over  == [r EXCEPT !.failures = n, !.disabled = TRUE, !.requests = {}]
             again == [r EXCEPT !.failures = n, !.requests = r.requests \cup worker.asked]
  <2>1. over.state = r.state /\ over.disabled = TRUE /\ over.listening = r.listening
    BY <1>0 DEF RemoteFields
  <2>2. again.state = r.state /\ again.requests = r.requests \cup worker.asked /\ again.listening = r.listening
    BY <1>0 DEF RemoteFields
  <2>3. Failed(r) = over \/ Failed(r) = again
    BY DEF Failed
  <2> HIDE DEF over, again
  <2>4. QED
    BY <1>2, <2>1, <2>2, <2>3 DEF Refreshed
<1>3. CASE Finished /\ ~worker.failed
  <2> DEFINE part(q, old) == IF q \in Got THEN CHOOSE a \in worker.got : a.kind = q ELSE old
             st == part("state", r.state)
             qu == part("queue", r.queue)
             pg == part("page", r.page)
             rq == r.requests \ (Got \cap {"page"})
             s == [r EXCEPT !.state = st, !.queue = qu, !.page = pg, !.requests = rq, !.failures = 0]
  <2>1. Refreshed(r) = s
    BY <1>3 DEF Refreshed, Applied
  <2>2. st = r.state \/ Taken(st)
    <3>1. \A q \in Got : (CHOOSE a \in worker.got : a.kind = q) \in {a \in worker.got : a.kind = q}
      BY DEF Got
    <3>2. QED
      BY <3>1 DEF Taken
  <2>3. "state" \in r.requests => "state" \in rq
    OBVIOUS
  <2> HIDE DEF part, st, qu, pg, rq
  <2>4. s.state = st /\ s.requests = rq /\ s.listening = r.listening
    BY <1>0 DEF RemoteFields
  <2> HIDE DEF s
  <2>5. QED
    BY <2>1, <2>2, <2>3, <2>4
<1>4. QED
  BY <1>1, <1>2, <1>3

(* What a tick does to the state shown, to the wishes for it and to the worker. *)
Asks == "state" \in remote'.requests \cup worker'.asked
Hears == wire # <<>> /\ Head(wire) = PlaybackChanged

LEMMA TickSettles ==
  ASSUME Screen, ScreenTyped, Linked, NEW browsing \in BOOLEAN, Tick(browsing)
  PROVE  /\ UNCHANGED <<sse, feed, conn, setting, budget, queue, player>>
         /\ remote'.listening /\ wire' = IF wire # <<>> THEN Tail(wire) ELSE wire
         /\ remote'.state = remote.state \/ Taken(remote'.state)
         /\ "state" \in remote.requests \/ Hears => Asks \/ remote'.disabled
         /\ remote.disabled \/ "state" \in worker.asked => remote'.disabled \/ Asks \/ Taken(remote'.state)
         /\ \/ /\ worker' = worker /\ remote'.state = remote.state
               /\ "state" \in remote.requests \/ Hears => "state" \in remote'.requests
            \/ (Finished \/ ~worker.busy) /\ worker'.got = {}
<1> DEFINE heard  == IF remote.listening /\ wire # <<>> THEN Handled(remote, Head(wire)) ELSE remote
           asked  == IF browsing THEN Browsed(heard) ELSE heard
           polled == Refreshed(asked)
           bare   == [polled EXCEPT !.requests = {}]
           fresh  == [NoWorker EXCEPT !.busy = TRUE, !.asked = polled.requests]
<1>1. /\ remote' = IF Launches(polled) THEN bare ELSE polled
      /\ worker' = CASE Launches(polled) -> fresh
                     [] Finished /\ ~Launches(polled) -> NoWorker
                     [] OTHER -> worker
      /\ IF remote.listening /\ ~heard.listening
         THEN wire' = <<>> /\ sse' = "off" /\ feed' = NoFeed
         ELSE /\ wire' = IF wire # <<>> THEN Tail(wire) ELSE wire
              /\ UNCHANGED <<sse, feed>>
      /\ UNCHANGED <<conn, setting, budget, queue, player>>
  BY DEF Tick, ServerElse, data
<1>2. RemoteShape(remote, library) /\ WorkerShape(worker, library) /\ wire \in Seq(Event) /\ remote.listening = TRUE
      /\ (worker.busy => ~remote.disabled) /\ remote.listening \in BOOLEAN
  BY RemoteParts DEF Screen, ScreenTyped, Linked, RemoteTyped
<1>3. Unsettled(remote, heard) /\ (Hears => "state" \in heard.requests)
  <2>1. CASE wire # <<>>
    <3>1. heard = Handled(remote, Head(wire)) /\ Head(wire) \in Event
      BY <1>2, <2>1
    <3> HIDE DEF heard
    <3>2. QED
      BY <1>2, <3>1, HandledUnsettled DEF Hears
  <2>2. CASE wire = <<>>
    BY <1>2, <2>2 DEF Unsettled, Hears
  <2>3. QED
    BY <2>1, <2>2
<1>4. /\ UNCHANGED <<sse, feed, conn, setting, budget, queue, player>>
      /\ wire' = IF wire # <<>> THEN Tail(wire) ELSE wire
  <2>1. heard.listening = TRUE
    BY <1>2, <1>3 DEF Unsettled
  <2> HIDE DEF heard
  <2>2. QED
    BY <1>1, <2>1
<1> HIDE DEF heard
<1>5. Unsettled(remote, asked) /\ (Hears => "state" \in asked.requests)
  BY <1>3, BrowsedUnsettled DEF Unsettled
<1> HIDE DEF asked
<1>6. /\ RemoteShape(polled, library) /\ Settled("state", asked, polled)
      /\ polled.state = remote.state \/ Taken(polled.state)
      /\ "state" \in remote.requests \/ Hears => "state" \in polled.requests \/ polled.disabled
      /\ polled.listening = TRUE
      /\ ~Finished => polled = asked
  <2>1. RemoteShape(asked, library)
    BY <1>5 DEF Unsettled
  <2>2. RemoteShape(polled, library) /\ Settled("state", asked, polled)
    BY <1>2, <2>1, RefreshedKeeps
  <2>3. /\ polled.state = asked.state \/ Taken(polled.state)
        /\ "state" \in asked.requests => "state" \in polled.requests \/ polled.disabled
        /\ polled.listening = asked.listening
    BY <1>2, <2>1, RefreshedShows
  <2>4. ~Finished => polled = asked
    BY DEF Refreshed
  <2> HIDE DEF polled
  <2>5. QED
    BY <1>2, <1>5, <2>2, <2>3, <2>4 DEF Unsettled
<1> HIDE DEF polled
<1>7. remote.disabled \/ "state" \in worker.asked =>
        \/ polled.disabled \/ "state" \in polled.requests \/ Taken(polled.state)
        \/ ~Finished /\ worker.busy
  <2>1. CASE remote.disabled
    <3>1. ~Finished
      BY <1>2, <2>1 DEF Finished
    <3>2. polled.disabled
      BY <1>5, <1>6, <2>1, <3>1 DEF Unsettled
    <3>3. QED
      BY <3>2
  <2>2. CASE "state" \in worker.asked
    <3>1. worker.busy
      BY <1>2, <2>2 DEF WorkerShape
    <3>2. CASE Finished
      <4>1. "state" \in polled.requests \/ polled.disabled
            \/ \E a \in worker.got : a.kind = "state" /\ polled["state"] = a
        BY <1>6, <2>2, <3>2 DEF Settled
      <4>2. QED
        BY <4>1 DEF Taken
    <3>3. QED
      BY <3>1, <3>2
  <2>3. QED
    BY <2>1, <2>2
<1>8. /\ bare.requests = {} /\ bare.disabled = polled.disabled /\ bare.state = polled.state
      /\ bare.listening = polled.listening
  BY <1>6 DEF RemoteShape, RemoteFields
<1>9. fresh.asked = polled.requests /\ fresh.got = {} /\ NoWorker.got = {} /\ NoWorker.asked = {}
  BY DEF NoWorker
<1> HIDE DEF bare, fresh
<1>10. CASE Launches(polled)
  <2>1. remote' = bare /\ worker' = fresh /\ (Finished \/ ~worker.busy)
    BY <1>1, <1>10 DEF Launches
  <2>2. remote'.state = polled.state /\ remote'.disabled = polled.disabled /\ remote'.listening
        /\ (Asks <=> "state" \in polled.requests) /\ worker'.got = {}
    BY <1>6, <1>8, <1>9, <2>1 DEF Asks
  <2>3. remote.disabled \/ "state" \in worker.asked => remote'.disabled \/ Asks \/ Taken(remote'.state)
    BY <1>7, <2>1, <2>2
  <2>4. /\ remote'.state = remote.state \/ Taken(remote'.state)
        /\ "state" \in remote.requests \/ Hears => Asks \/ remote'.disabled
    BY <1>6, <2>2
  <2>5. QED
    BY <1>4, <2>1, <2>2, <2>3, <2>4
<1>11. CASE ~Launches(polled) /\ Finished
  <2>1. remote' = polled /\ worker' = NoWorker
    BY <1>1, <1>11
  <2>2. remote'.listening /\ (Asks <=> "state" \in polled.requests) /\ worker'.got = {}
    BY <1>6, <1>9, <2>1 DEF Asks
  <2>3. remote.disabled \/ "state" \in worker.asked => remote'.disabled \/ Asks \/ Taken(remote'.state)
    BY <1>7, <1>11, <2>1, <2>2
  <2>4. /\ remote'.state = remote.state \/ Taken(remote'.state)
        /\ "state" \in remote.requests \/ Hears => Asks \/ remote'.disabled
    BY <1>6, <2>1, <2>2
  <2>5. QED
    BY <1>4, <1>11, <2>2, <2>3, <2>4
<1>12. CASE ~Launches(polled) /\ ~Finished
  <2>1. remote' = asked /\ worker' = worker
    BY <1>1, <1>6, <1>12
  <2>2. /\ remote'.state = remote.state /\ remote'.disabled = remote.disabled /\ remote'.listening
        /\ ("state" \in remote.requests \/ Hears => "state" \in remote'.requests)
    BY <1>2, <1>5, <2>1 DEF Unsettled
  <2>3. /\ "state" \in worker.asked => Asks
        /\ "state" \in remote.requests \/ Hears => Asks
    BY <2>1, <2>2 DEF Asks
  <2>4. QED
    BY <1>4, <2>1, <2>2, <2>3
<1>13. QED
  BY <1>10, <1>11, <1>12

LEMMA TickFollows ==
  ASSUME Screen, ScreenTyped, Following, NEW browsing \in BOOLEAN, Tick(browsing)
  PROVE  Following'
<1>1. Linked /\ UsedOnly /\ Served /\ Room /\ Answers /\ ScreenSure
  BY DEF Following
<1>2. /\ UNCHANGED <<sse, feed, conn, setting, budget, queue, player>>
      /\ remote'.listening /\ wire' = IF wire # <<>> THEN Tail(wire) ELSE wire
      /\ remote'.state = remote.state \/ Taken(remote'.state)
      /\ "state" \in remote.requests \/ Hears => Asks \/ remote'.disabled
      /\ remote.disabled \/ "state" \in worker.asked => remote'.disabled \/ Asks \/ Taken(remote'.state)
      /\ \/ /\ worker' = worker /\ remote'.state = remote.state
            /\ "state" \in remote.requests \/ Hears => "state" \in remote'.requests
         \/ (Finished \/ ~worker.busy) /\ worker'.got = {}
  BY <1>1, TickSettles
<1>3. Linked' /\ (Carries(wire) => Carries(wire') \/ Hears)
  <2>1. wire \in Seq(Event)
    BY <1>1 DEF Linked
  <2>2. wire' \in Seq(Event)
    BY <1>2, <2>1
  <2>3. Carries(wire) => Carries(wire') \/ Hears
    <3>1. CASE wire # <<>>
      <4>1. Carries(wire) => Head(wire) = PlaybackChanged \/ Carries(Tail(wire))
        BY <2>1, <3>1, CarriesFacts
      <4>2. QED
        BY <1>2, <3>1, <4>1 DEF Hears, Carries
    <3>2. CASE wire = <<>>
      BY <1>2, <3>2 DEF Carries
    <3>3. QED
      BY <3>1, <3>2
  <2>4. QED
    BY <1>1, <1>2, <2>2, <2>3 DEF Linked
<1>4. UsedOnly' /\ Room' /\ (Coming => Coming')
  BY <1>1, <1>2 DEF UsedOnly, Room, Tokens, Owes, Coming, Tells, Carries
<1>5. conn[Fetch].pc # "idle" => worker' = worker /\ worker.busy
  <2>1. conn[Fetch].pc # "idle" => ~Finished /\ worker.busy
    BY <1>1 DEF Served, Finished
  <2>2. QED
    BY <1>2, <2>1
<1>6. Served'
  BY <1>1, <1>2, <1>5 DEF Served
<1>7. \A a : Shows(a) => ShowsNext(a)
  <2>1. player' = player /\ queue' = queue
    BY <1>2
  <2>2. QED
    BY <2>1 DEF Shows, ShowsNext
<1>8. ASSUME worker' = worker, "state" \in remote.requests \/ Hears => "state" \in remote'.requests
      PROVE  \A a : Sure(a) => SureNext(a)
  <2>1. Pending => Pending'
    BY <1>3, <1>4, <1>8 DEF Pending
  <2>2. QED
    BY <1>7, <2>1 DEF Sure, SureNext
<1>9. Answers'
  <2>1. conn' = conn
    BY <1>2
  <2>2. CASE worker' = worker /\ ("state" \in remote.requests \/ Hears => "state" \in remote'.requests)
    BY <1>1, <1>8, <2>1, <2>2 DEF Answers, Sure, Shows, SureNext, ShowsNext
  <2>3. CASE (Finished \/ ~worker.busy) /\ worker'.got = {}
    <3>1. conn[Fetch].pc = "idle"
      BY <1>1, <2>3 DEF Served, Finished
    <3>2. QED
      BY <2>1, <2>3, <3>1 DEF Answers
  <2>4. QED
    BY <1>2, <2>2, <2>3
<1>10. Pending => Pending' \/ Asks \/ remote'.disabled
  BY <1>2, <1>3, <1>4 DEF Pending
<1>11. Asks => Pending' \/ "state" \in worker'.asked
  BY DEF Asks, Pending
<1>12. \A a : Sure(a) => SureNext(a) \/ remote'.disabled \/ "state" \in worker'.asked
  BY <1>7, <1>10, <1>11 DEF Sure, SureNext
<1>13. SureNext(remote'.state) \/ remote'.disabled \/ "state" \in worker'.asked
  <2>1. CASE Taken(remote'.state)
    <3>1. PICK a \in worker.got : a.kind = "state" /\ remote'.state = a
      BY <2>1 DEF Taken
    <3>2. Sure(a)
      BY <1>1, <3>1 DEF Answers
    <3>3. SureNext(a) \/ remote'.disabled \/ "state" \in worker'.asked
      BY <1>12, <3>2
    <3>4. QED
      BY <3>1, <3>3
  <2>2. CASE remote'.state = remote.state /\ Sure(remote.state)
    <3>1. SureNext(remote.state) \/ remote'.disabled \/ "state" \in worker'.asked
      BY <1>12, <2>2
    <3>2. QED
      BY <2>2, <3>1
  <2>3. CASE remote.disabled \/ "state" \in worker.asked
    <3>1. remote'.disabled \/ Asks \/ Taken(remote'.state)
      BY <1>2, <2>3
    <3>2. Pending' => SureNext(remote'.state)
      BY DEF SureNext
    <3>3. QED
      BY <1>11, <2>1, <3>1, <3>2
  <2>4. QED
    BY <1>1, <1>2, <2>1, <2>2, <2>3 DEF ScreenSure
<1>14. ScreenSure'
  BY <1>13 DEF ScreenSure, Sure, Shows, SureNext, ShowsNext
<1>15. QED
  BY <1>3, <1>4, <1>6, <1>9, <1>14 DEF Following

-----------------------------------------------------------------------------
(* The other steps of stream and worker. *)

LEMMA SendNextFollows ==
  ASSUME ServerTyped, Following, SendNext
  PROVE  Following'
<1>1. Linked /\ UsedOnly /\ Served /\ Room /\ Answers /\ ScreenSure
  BY DEF Following
<1> DEFINE e == Head(feed.events)
           rest == Tail(feed.events)
           f == [feed EXCEPT !.events = rest]
<1>2. /\ feed.events # <<>> /\ wire' = Append(wire, e) /\ feed' = f
      /\ UNCHANGED <<conn, sse, setting, budget, remote, worker, queue, player>>
  BY <1>1 DEF SendNext, Linked, ServerElse, data
<1>3. feed \in FeedTypes /\ feed.events \in Seq(Event) /\ wire \in Seq(Event)
  BY <1>1, FeedWith DEF ServerTyped, ServerTypeOK, FeedTypes, Linked
<1>4. f.open = feed.open /\ f.lagged = feed.lagged /\ f.events = rest
  BY <1>3 DEF FeedTypes
<1>5. e \in Event /\ Len(rest) = Len(feed.events) - 1 /\ Len(feed.events) \in Nat
  BY <1>2, <1>3
<1>6. Carries(feed.events) => e = PlaybackChanged \/ Carries(rest)
  BY <1>2, <1>3, CarriesFacts
<1>7. (Carries(wire) => Carries(Append(wire, e))) /\ (e = PlaybackChanged => Carries(Append(wire, e)))
  BY <1>3, CarriesFacts
<1>8. Append(wire, e) \in Seq(Event)
  BY <1>3, <1>5
<1> HIDE DEF e, rest, f
<1>9. Linked'
  BY <1>1, <1>2, <1>4, <1>8 DEF Linked
<1>10. UsedOnly' /\ Served'
  BY <1>1, <1>2 DEF UsedOnly, Served
<1>11. Room'
  <2> DEFINE n == Len(feed.events)
             k == Cardinality(Tokens)
             m == setting.budget
  <2>1. Tokens' = Tokens
    BY <1>2 DEF Tokens, Owes
  <2>2. /\ setting \in Settings /\ budget \in Nat /\ IsFiniteSet(Conns)
    BY PlayerServerAssumption DEF ServerTyped, ServerTypeOK
  <2>3. k \in Nat /\ m \in Nat
    <3>1. IsFiniteSet(Tokens)
      <4>1. 1 \in Int /\ 2 \in Int
        OBVIOUS
      <4>2. IsFiniteSet(Conns \X (1..2))
        BY <2>2, <4>1, FS_Interval, FS_Product
      <4>3. Tokens \subseteq Conns \X (1..2)
        BY DEF Tokens
      <4>4. QED
        BY <4>2, <4>3, FS_Subset
    <3>2. QED
      BY <2>2, <3>1, FS_CardinalityType, CapacityFacts
  <2>4. Len(feed'.events) = n - 1 /\ n \in Nat
    BY <1>2, <1>4, <1>5
  <2>5. n + k + 2 * budget <= 2 * m
    BY <1>1 DEF Room
  <2> HIDE DEF n, k, m
  <2>6. (n - 1) + k + 2 * budget <= 2 * m
    BY <2>2, <2>3, <2>4, <2>5
  <2>7. QED
    BY <1>2, <2>1, <2>4, <2>6 DEF Room, k, m
<1>12. Pending => Pending'
  <2>1. (\E c \in Conns : Tells(conn[c])) => Coming'
    BY <1>2 DEF Coming, Tells
  <2>2. Carries(feed.events) => Coming' \/ Carries(wire')
    BY <1>2, <1>4, <1>6, <1>7 DEF Coming, Carries
  <2>3. Carries(wire) => Carries(wire')
    BY <1>2, <1>7 DEF Carries
  <2>4. QED
    BY <1>2, <2>1, <2>2, <2>3 DEF Pending, Coming
<1>13. SameSound
  BY <1>2 DEF SameSound
<1>14. \A a : Sure(a) => SureNext(a)
  BY <1>12, <1>13, SureOn
<1>15. Answers'
  BY <1>1, <1>2, <1>14 DEF Answers, Sure, Shows, SureNext, ShowsNext
<1>16. ScreenSure'
  <2>1. SureNext(remote.state) \/ remote.disabled \/ "state" \in worker.asked
    BY <1>1, <1>14 DEF ScreenSure
  <2>2. QED
    BY <1>2, <2>1 DEF ScreenSure, Sure, Shows, SureNext, ShowsNext
<1>17. QED
  BY <1>9, <1>10, <1>11, <1>15, <1>16 DEF Following

(* A step of the worker: its connection changes, and what it has got. *)
LEMMA WorkerFollows ==
  ASSUME IInv, ServerTyped, Screen, PlainUse, Following, WorkerAsks \/ WorkerGets
  PROVE  Following'
<1>0. /\ DOMAIN conn = Conns /\ Stream \in Conns /\ Fetch \in Conns /\ Stream # Fetch
      /\ UNCHANGED <<setting, queue, player, feed, remote, sse, wire>>
  BY PlayerServerAssumption, RemoteViewAssumption DEF IInv, Shape, WorkerAsks, WorkerGets, ServerElse, data
<1>1. Linked /\ UsedOnly /\ Served /\ Room /\ Answers /\ ScreenSure
  BY DEF Following
<1> DEFINE lost == [worker EXCEPT !.failed = TRUE]
           more == [worker EXCEPT !.got = worker.got \cup {conn[Fetch].answer}]
           r == Asked(Command(NextPart), 0)
<1>2. /\ lost.asked = worker.asked /\ lost.got = worker.got /\ lost.busy = worker.busy
      /\ more.asked = worker.asked /\ more.got = worker.got \cup {conn[Fetch].answer}
  BY DEF Screen, WorkerShape
<1>3. r.pc = "first" /\ r.cmd \in Reads /\ r.answer = NoAnswer
  <2>1. r.pc = "first" /\ r.cmd = Command(NextPart) /\ r.answer = NoAnswer
    BY DEF Asked, Idle
  <2>2. Command("state") = "status" /\ Command("queue") = "items" /\ Command("page") = "albums"
    BY DEF Command
  <2>3. NextPart \in {"state", "queue", "page"}
    BY DEF NextPart
  <2>4. Command(NextPart) \in Reads
    BY <2>2, <2>3 DEF Reads
  <2>5. QED
    BY <2>1, <2>4
<1>4. Idle.pc = "idle" /\ Idle.cmd = "status" /\ Idle.answer = NoAnswer
  BY DEF Idle
<1> HIDE DEF lost, more, r
<1>5. PICK q \in {r, Idle, conn[Fetch]} :
        /\ conn' = [conn EXCEPT ![Fetch] = q]
        /\ conn[Fetch].pc \in {"idle", "answered"}
        /\ (q = Idle /\ budget' = budget) \/ (q = r /\ budget' = budget)
           \/ (q = conn[Fetch] /\ budget > 0 /\ budget' = budget - 1 /\ conn[Fetch].pc = "idle")
        /\ \/ q = r /\ worker' = worker /\ worker.busy /\ ~worker.failed
           \/ q = conn[Fetch] /\ worker' = lost
           \/ q = Idle /\ conn[Fetch].pc = "answered" /\ worker' \in {worker, more}
  <2>1. CASE WorkerGets
    <3>1. conn' = [conn EXCEPT ![Fetch] = Idle] /\ conn[Fetch].pc = "answered" /\ budget' = budget
      BY <2>1 DEF WorkerGets, Done
    <3>2. worker' \in {worker, more}
      BY <2>1 DEF WorkerGets, more
    <3>3. QED
      BY <3>1, <3>2
  <2>2. CASE WorkerAsks /\ Ask(Fetch, Command(NextPart)) /\ UNCHANGED <<worker, budget>>
    BY <2>2 DEF WorkerAsks, Ask, r
  <2>3. CASE WorkerAsks /\ Lost("fetch") /\ worker' = [worker EXCEPT !.failed = TRUE] /\ UNCHANGED conn
    <3>1. conn' = [conn EXCEPT ![Fetch] = conn[Fetch]]
      <4>1. conn \in [Conns -> Conn]
        BY ServerTypedFacts
      <4> HIDE DEF Conn
      <4>2. conn = [conn EXCEPT ![Fetch] = conn[Fetch]]
        BY <1>0, <4>1
      <4>3. QED
        BY <2>3, <4>2
    <3>2. budget > 0 /\ budget' = budget - 1 /\ conn[Fetch].pc = "idle" /\ worker' = lost
      BY <2>3 DEF WorkerAsks, Lost, Spends, lost
    <3>3. QED
      BY <3>1, <3>2
  <2>4. ~Lost("panic")
    BY DEF Lost, PlainUse, InOrder
  <2>5. QED
    BY <2>1, <2>2, <2>3, <2>4 DEF WorkerAsks
<1>6. conn'[Fetch] = q /\ conn'[Stream] = conn[Stream] /\ \A d \in Conns \ {Fetch} : conn'[d] = conn[d]
  BY <1>0, <1>5
<1>7. q.pc \in {"first", "idle"} /\ q.cmd \in Reads \cup {conn[Fetch].cmd}
  BY <1>3, <1>4, <1>5 DEF Reads
<1>8. Linked' /\ UsedOnly'
  BY <1>0, <1>1, <1>6, <1>7 DEF Linked, UsedOnly
<1>9. Served'
  BY <1>3, <1>4, <1>5, <1>6 DEF Served
<1>10. Room'
  <2>1. Owes(conn[Fetch]) = 0
    BY <1>0, <1>5, MayOwe
  <2>2. Owes(q) = 0
    <3>1. q = r => Owes(q) = 0
      BY <1>3 DEF Owes
    <3>2. q.pc = "idle" => Owes(q) = 0
      BY DEF Owes
    <3>3. QED
      BY <1>4, <1>5, <3>1, <3>2
  <2>3. Roomy
    BY <1>1 DEF Roomy, Linked
  <2>4. Owes(q) \in 0..2 /\ ((Owes(q) = 0 /\ budget' = budget) \/ (budget > 0 /\ budget' = budget - 1))
    BY <1>5, <2>2
  <2>5. Roomy'
    BY <1>0, <1>5, <2>1, <2>3, <2>4, BeginRoom
  <2>6. QED
    BY <2>5 DEF Roomy
<1>11. Pending => Pending'
  <2>1. \A d \in Conns : Tells(conn[d]) => Tells(conn'[d])
    BY <1>5, <1>6 DEF Tells
  <2>2. QED
    BY <1>0, <2>1 DEF Pending, Coming, Tells, Carries
<1>12. SameSound
  BY <1>0 DEF SameSound
<1>13. \A a : Sure(a) => SureNext(a)
  BY <1>11, <1>12, SureOn
<1>14. Answers'
  <2>1. \A a \in worker'.got : a.kind = "state" => Sure(a)
    BY <1>1, <1>2, <1>5 DEF Answers
  <2>2. conn'[Fetch].pc \notin {"song", "count", "answered"}
    BY <1>6, <1>7
  <2>3. \A a \in worker'.got : a.kind = "state" => SureNext(a)
    BY <1>13, <2>1
  <2>4. QED
    BY <2>2, <2>3 DEF Answers, Sure, Shows, SureNext, ShowsNext
<1>15. ScreenSure'
  <2>1. SureNext(remote.state) \/ remote.disabled \/ "state" \in worker.asked
    BY <1>1, <1>13 DEF ScreenSure
  <2>2. worker'.asked = worker.asked /\ remote' = remote
    BY <1>0, <1>2, <1>5
  <2>3. QED
    BY <2>1, <2>2 DEF ScreenSure, Sure, Shows, SureNext, ShowsNext
<1>16. QED
  BY <1>8, <1>9, <1>10, <1>14, <1>15 DEF Following

LEMMA FreshStep == ViewTypes /\ FreshInv /\ [Next]_vars => FreshInv'
<1> SUFFICES ASSUME ViewTypes, FreshInv, [Next]_vars PROVE FreshInv'
  OBVIOUS
<1>1. /\ IInv /\ Copies /\ Screen /\ ServerTyped /\ ScreenTyped
      /\ IInv' /\ ServerTyped'
  <2>1. ViewTypes'
    BY ViewTypesStep
  <2>2. QED
    BY <2>1 DEF ViewTypes, ViewInv
<1>2. setting' = setting
  <2>1. ServerNext \/ UNCHANGED vars => setting' = setting
    <3>1. ServerNext => setting' = setting
      BY <1>1, RestTyped
    <3>2. UNCHANGED vars => setting' = setting
      BY DEF vars, server
    <3>3. QED
      BY <3>1, <3>2
  <2>2. QED
    BY <2>1, ZenonT(60) DEF Next, Subscribe, SendState, SendNext, Disconnect, WorkerAsks, WorkerGets, Tick, SelectServer,
                SetToken, RemoveServer, ServerElse
<1>3. SUFFICES ASSUME PlainUse PROVE Following'
  BY <1>2 DEF FreshInv, PlainUse, InOrder
<1>4. Following
  BY <1>3 DEF FreshInv
<1>5. CASE ServerNext /\ UNCHANGED client
  <2>1. OnTracks(queue')
    BY <1>1 DEF ServerTyped, OnTracks
  <2>2. QED
    BY <1>1, <1>3, <1>4, <1>5, <2>1, ServerNextFollows
<1>6. ~Subscribe /\ ~SendState /\ ~Disconnect /\ ~SelectServer /\ ~SetToken /\ ~RemoveServer
  BY <1>3, <1>4 DEF Following, Linked, Subscribe, SendState, Disconnect, SelectServer, SetToken, RemoveServer, Lost,
                    PlainUse, InOrder
<1>7. CASE SendNext
  BY <1>1, <1>4, <1>7, SendNextFollows
<1>8. CASE WorkerAsks \/ WorkerGets
  BY <1>1, <1>3, <1>4, <1>8, WorkerFollows
<1>9. ASSUME NEW browsing \in BOOLEAN, Tick(browsing) PROVE Following'
  BY <1>1, <1>4, <1>9, TickFollows
<1>10. CASE UNCHANGED vars
  BY <1>4, <1>10 DEF vars, server, data, client, Following, Linked, UsedOnly, Served, Room, Tokens, Owes, Answers,
                     ScreenSure, Sure, Shows, Pending, Coming, Tells, Carries
<1>11. QED
  BY <1>5, <1>6, <1>7, <1>8, <1>9, <1>10 DEF Next

LEMMA FreshStart == Init => FreshInv
<1> SUFFICES ASSUME Init, PlainUse PROVE Following
  BY DEF FreshInv
<1>1. /\ ViewTypes /\ ServerInit /\ setting.client = "following" /\ sse = "live"
      /\ worker = NoWorker /\ wire = <<>> /\ budget = setting.budget
  BY ViewTypesStart DEF Init, PlainUse, InOrder, ServerInit
<1>2. \A c \in Conns : conn[c] = Idle
  BY <1>1 DEF ServerInit
<1>3. Stream \in Conns /\ Fetch \in Conns /\ setting.budget \in Nat
  <2>1. setting \in Settings
    BY <1>1 DEF ServerInit
  <2>2. QED
    BY <2>1, PlayerServerAssumption, RemoteViewAssumption, CapacityFacts
<1>4. Idle.pc = "idle" /\ Idle.cmd = "status"
  BY DEF Idle
<1>5. remote.state = Status /\ remote.listening = TRUE
  <2> DEFINE st == Status
             qu == [kind |-> "queue", items |-> FlatTracks(queue)]
             pg == [kind |-> "page", copy |-> 1, swap |-> 1, version |-> 1]
             follows == setting.client = "following"
             r == [NewRemote EXCEPT !.state = IF follows THEN st ELSE Missing,
                     !.queue = IF follows THEN qu ELSE Missing, !.page = IF follows THEN pg ELSE Missing,
                     !.requests = IF follows THEN {} ELSE Parts, !.listening = setting.client # "none"]
  <2>1. remote = r
    BY DEF Init
  <2>2. r.state = (IF follows THEN st ELSE Missing) /\ r.listening = (setting.client # "none")
    BY DEF NewRemote
  <2> HIDE DEF r
  <2>3. QED
    BY <1>1, <2>1, <2>2
<1>6. feed.open = TRUE /\ feed.lagged = FALSE /\ feed.events = <<>>
  <2> DEFINE open == setting.client = "following"
             f == [NoFeed EXCEPT !.open = open]
  <2>1. feed = f
    BY <1>1 DEF ServerInit
  <2>2. f.open = open /\ f.lagged = FALSE /\ f.events = <<>>
    BY DEF NoFeed
  <2> HIDE DEF f
  <2>3. QED
    BY <1>1, <2>1, <2>2
<1>7. Linked /\ UsedOnly /\ Served
  <2>1. wire \in Seq(Event)
    BY <1>1
  <2>2. QED
    BY <1>1, <1>2, <1>3, <1>4, <1>5, <1>6, <2>1 DEF Linked, UsedOnly, Served, Reads
<1>8. Room
  <2>1. Owes(Idle) = 0
    BY <1>4 DEF Owes
  <2>2. Tokens = {}
    BY <1>2, <2>1 DEF Tokens
  <2>3. Cardinality(Tokens) = 0 /\ Len(feed.events) = 0
    BY <1>6, <2>2, FS_EmptySet
  <2>4. QED
    BY <1>1, <1>3, <2>3 DEF Room
<1>9. Answers
  BY <1>1, <1>2, <1>3, <1>4 DEF Answers, NoWorker
<1>10. ScreenSure
  BY <1>5, StatusShows DEF ScreenSure, Sure
<1>11. QED
  BY <1>7, <1>8, <1>9, <1>10 DEF Following

(* For a client that was following and has lost nothing, once every event  *)
(* has been delivered and every refresh is done, the screen shows what the *)
(* server plays, in whatever order edits, broadcasts, ticks and refreshes  *)
(* came and however often a refresh failed short of giving up              *)
(* (update_remote_cache_refresh in remote/consts.rs).                      *)
THEOREM ScreenShowsPlayback == Spec => []PlaybackFresh
<1>1. ViewTypes /\ FreshInv => PlaybackFresh
  BY FreshImplies DEF ViewTypes, ViewInv
<1>2. QED
  BY <1>1, ViewTypesStart, ViewTypesStep, FreshStart, FreshStep, PTL DEF Spec
=============================================================================
