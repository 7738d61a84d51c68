--------------------------- MODULE QueueController ---------------------------
(***************************************************************************)
(* One QueueController driven by a front end that keeps the contract of    *)
(* crates/sotf-player/src/controllers/queue.rs: the undo record of a track *)
(* removal is discarded by content edits and survives navigation.          *)
(***************************************************************************)
EXTENDS QueueOps

CONSTANTS
  Albums,      \* the albums (non-empty sequences of tracks) that can be queued
  Playlists,   \* the playlists (sequences of tracks) that can be appended
  MaxTracks,   \* bound: tracks in the queue
  NoUndo       \* no undo record is held

ASSUME AlbumsAssumption ==
  /\ Albums \subseteq Seq(Tracks) \ {<<>>}
  /\ Playlists \subseteq Seq(Tracks)
  /\ MaxTracks \in Nat

VARIABLES
  ctrl,    \* the controller
  undo,    \* the UpcomingTrackRemoval held by the front end, or NoUndo
  before   \* history: the flat list just before that removal
vars == <<ctrl, undo, before>>

TypeOK ==
  /\ WellFormed(ctrl)
  /\ undo \in RemovalRecord \cup {NoUndo}
  /\ before \in Seq(Tracks)

Init == ctrl = EmptyController /\ undo = NoUndo /\ before = <<>>

Room(n) == Len(FlatTracks(ctrl)) + n <= MaxTracks
ItemPositions == DOMAIN ctrl.items
Rows == DOMAIN Upcoming(ctrl)

-----------------------------------------------------------------------------
(* Content edits discard the undo record. *)

Edit(c) == ctrl' = c /\ undo' = NoUndo /\ before' = <<>>

Add(album) == Room(Len(album)) /\ Edit(AddAlbum(ctrl, album))
PlayAlbum(album) == Room(Len(album)) /\ Edit(PlayAlbumNow(ctrl, album))
Enqueue(album) == Room(Len(album)) /\ Edit(EnqueueNext(ctrl, album))
AppendPlaylist(paths) == Room(Len(paths)) /\ Edit(EnqueuePlaylist(ctrl, paths))
RemoveItem(i) == i \in ItemPositions /\ Edit(RemoveAlbum(ctrl, i))
Reorder(from, to) == CanMoveItem(ctrl, from, to) /\ Edit(MoveItem(ctrl, from, to))
MoveTrack(from, to) == CanMoveUpcoming(ctrl, from, to) /\ Edit(MoveUpcoming(ctrl, from, to))
Clear == Edit(EmptyController)

RemoveTrack(index) ==
  /\ index \in Rows
  /\ LET pos == Upcoming(ctrl)[index]
     IN ctrl' = TakeUpcoming(ctrl, pos) /\ undo' = Removal(ctrl, pos)
  /\ before' = FlatTracks(ctrl)

(* The record is single-use: it is consumed even when it cannot be applied.*)
Undo ==
  /\ undo # NoUndo
  /\ Edit(IF CanUndoRemoval(ctrl, undo) THEN UndoRemoval(ctrl, undo) ELSE ctrl)

-----------------------------------------------------------------------------
(* Navigation keeps it. *)

Navigate(c) == ctrl' = c /\ UNCHANGED <<undo, before>>

Start == ctrl.items # <<>> /\ Navigate(JumpTo(ctrl, 1))
Jump(i) == i \in ItemPositions /\ Navigate(JumpTo(ctrl, i))
Advance == Navigate(NextTrack(ctrl))
Back == Navigate(PreviousTrack(ctrl))
PlayRow(index) == index \in Rows /\ Navigate(PlayUpcoming(ctrl, index))

(* The selected row is also moved by the pointer and the keyboard. *)
Select(i) == i \in ItemPositions /\ Navigate([ctrl EXCEPT !.selected = i])

PlaySingle(t) ==
  \/ InQueue(ctrl, t) /\ Navigate(PlaySingleFileNow(ctrl, t))
  \/ ~InQueue(ctrl, t) /\ Room(1) /\ Edit(PlaySingleFileNow(ctrl, t))

Next ==
  \/ \E album \in Albums : Add(album) \/ PlayAlbum(album) \/ Enqueue(album)
  \/ \E paths \in Playlists : AppendPlaylist(paths)
  \/ \E i \in ItemPositions : RemoveItem(i) \/ Jump(i) \/ Select(i)
  \/ \E i, j \in ItemPositions : Reorder(i, j)
  \/ \E i, j \in Rows : MoveTrack(i, j)
  \/ \E i \in Rows : RemoveTrack(i) \/ PlayRow(i)
  \/ \E t \in Tracks : PlaySingle(t)
  \/ Clear \/ Undo \/ Start \/ Advance \/ Back

Spec == Init /\ [][Next]_vars

-----------------------------------------------------------------------------
(* Properties *)

(* The track peeked for gapless pre-queueing is the first row of the       *)
(* upcoming list the user sees: two separate traversals of the albums      *)
(* (Queue::peek_next_track, upcoming_track_positions) agree.               *)
PeekIsFirstUpcoming ==
  CurrentTrack(ctrl) # NoTrack =>
    PeekNext(ctrl) = IF Upcoming(ctrl) = <<>> THEN NoTrack ELSE UpcomingTracks(ctrl)[1]

(* From every reachable queue, an edit addressed by flat row does to the   *)
(* flat list exactly what it says, whatever albums it splits on the way,   *)
(* and touches neither the playing track nor those already played          *)
(* (controllers/queue.rs:207-209, 293-294, 348-349).                       *)
UpcomingEditsExact ==
  LET u    == UpcomingTracks(ctrl)
      done == SubSeq(FlatTracks(ctrl), 1, Len(FlatTracks(ctrl)) - Len(u))
      Does(c, v) == UpcomingTracks(c) = v /\ FlatTracks(c) = done \o v
                    /\ CurrentTrack(c) = CurrentTrack(ctrl)
  IN /\ \A i, j \in Rows : i # j => Does(MoveUpcoming(ctrl, i, j), InsertAt(RemoveAt(u, i), j, u[i]))
     /\ \A i \in Rows : Does(TakeUpcoming(ctrl, Upcoming(ctrl)[i]), RemoveAt(u, i))
     /\ ctrl.current = 0 \/ CurrentTrack(ctrl) # NoTrack =>
          \A a \in Albums : Does(EnqueueNext(ctrl, a), a \o u)

(* Undoing a track removal gives back the list of before the removal and   *)
(* leaves the listener on the track playing now, however far playback has  *)
(* navigated in between (controllers/queue.rs:306-307).                    *)
UndoRestores ==
  [][Undo => /\ FlatTracks(ctrl') = before
             /\ CurrentTrack(ctrl') = CurrentTrack(ctrl)
             /\ ctrl.current = 0 <=> ctrl'.current = 0]_vars

(* The album-backed queue implements the flat track list. *)
FlatList == INSTANCE TrackList WITH list <- FlatTracks(ctrl), pos <- FlatCursor(ctrl), held <- before
ImplementsTrackList == FlatList!Spec
=============================================================================
