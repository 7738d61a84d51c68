------------------------------ MODULE QueueOps ------------------------------
(***************************************************************************)
(* The playback queue as data: crates/sotf-player/src/queue.rs (Queue,     *)
(* QueueItem) and crates/sotf-player/src/controllers/queue.rs              *)
(* (QueueController).  Every method of the two types is one operator from  *)
(* a controller value to a controller value; the state machines that own a *)
(* controller (QueueController, QueueState, ...) are built from them.      *)
(*                                                                         *)
(* A controller is a record [items, current, selected].  Positions are     *)
(* 1-based where the code's are 0-based, so `current = 0` is the code's    *)
(* `current_index = None` and `at` is `current_track_index + 1`.  An album *)
(* is the sequence of its tracks: nothing else of it matters here.         *)
(***************************************************************************)
EXTENDS Integers, SequencesExt

CONSTANTS
  Tracks,   \* the audio sources a queue can hold
  NoTrack   \* the absence of a source (Option::None)

ASSUME NoTrackAssumption == NoTrack \notin Tracks

Item == [tracks : Seq(Tracks), at : Nat \ {0}]
Controller == [items : Seq(Item), current : Nat, selected : Nat \ {0}]

NewItem(tracks) == [tracks |-> tracks, at |-> 1]
EmptyController == [items |-> <<>>, current |-> 0, selected |-> 1]

(* The cursor always names a queued item, no queued item is empty, and the *)
(* selected row exists: QueueController::remove computes `len() - 1` from  *)
(* it in unsigned arithmetic (controllers/queue.rs:468-470).               *)
WellFormed(c) ==
  /\ c \in Controller
  /\ c.current \in 0..Len(c.items)
  /\ \A i \in DOMAIN c.items : c.items[i].tracks # <<>>
  /\ c.selected <= IF c.items = <<>> THEN 1 ELSE Len(c.items)

(* Queue::current_track: None when there is no current item, and also when *)
(* the item's own track index points past its last track.                  *)
CurrentTrack(c) ==
  IF /\ c.current \in DOMAIN c.items
     /\ c.items[c.current].at \in DOMAIN c.items[c.current].tracks
  THEN c.items[c.current].tracks[c.items[c.current].at]
  ELSE NoTrack

ClampSelected(c) ==
  [c EXCEPT !.selected = IF @ > Len(c.items) THEN IF Len(c.items) = 0 THEN 1 ELSE Len(c.items)
                         ELSE @]

-----------------------------------------------------------------------------
(* Whole albums. *)

AddAlbum(c, album) == [c EXCEPT !.items = Append(@, NewItem(album))]

(* play_album_now: the new item becomes current; its `at` is already 1. *)
PlayAlbumNow(c, album) ==
  [AddAlbum(c, album) EXCEPT !.current = Len(c.items) + 1]

InQueue(c, t) == \E i \in DOMAIN c.items : t \in Range(c.items[i].tracks)

(* enqueue_playlist_tracks: one single-track item per path that is not in  *)
(* the queue yet, nor earlier in the playlist.  Paths the library does not *)
(* know are left out of `paths`.                                           *)
EnqueuePlaylist(c, paths) ==
  LET fresh(k) == ~InQueue(c, paths[k]) /\ \A j \in 1..(k - 1) : paths[j] # paths[k]
  IN [c EXCEPT !.items = @ \o FlattenSeq([k \in DOMAIN paths |->
                                IF fresh(k) THEN <<NewItem(<<paths[k]>>)>> ELSE <<>>])]

(* play_single_file_now: reuse the first queued occurrence of the file. *)
PlaySingleFileNow(c, t) ==
  IF InQueue(c, t)
  THEN LET i == Min({j \in DOMAIN c.items : t \in Range(c.items[j].tracks)})
           k == Min({j \in DOMAIN c.items[i].tracks : c.items[i].tracks[j] = t})
       IN [c EXCEPT !.items[i].at = k, !.current = i]
  ELSE PlayAlbumNow(c, <<t>>)

(* Queue::remove followed by the controller's selection clamp.  The item   *)
(* that slides under the cursor restarts at its first track; the previous  *)
(* item, taken when the last one went, keeps the index it had.             *)
RemoveAlbum(c, i) ==
  LET items == RemoveAt(c.items, i)
      moved == CASE c.current # i /\ c.current <= i -> [c EXCEPT !.items = items]
                 [] c.current > i -> [c EXCEPT !.items = items, !.current = @ - 1]
                 [] c.current = i /\ i <= Len(items) ->
                      [c EXCEPT !.items = [items EXCEPT ![i].at = 1]]
                 [] OTHER -> [c EXCEPT !.items = items, !.current = i - 1]
  IN ClampSelected(moved)

(* Where position k ends up when the item at `from` moves to `to`. *)
MovedTo(k, from, to) ==
  CASE k = from                -> to
    [] from < k /\ k <= to     -> k - 1
    [] to <= k /\ k < from     -> k + 1
    [] OTHER                   -> k

CanMoveItem(c, from, to) == from \in DOMAIN c.items /\ to \in DOMAIN c.items /\ from # to

MoveItem(c, from, to) ==
  [items    |-> InsertAt(RemoveAt(c.items, from), to, c.items[from]),
   current  |-> IF c.current = 0 THEN 0 ELSE MovedTo(c.current, from, to),
   selected |-> MovedTo(c.selected, from, to)]

(* Faulty: behind the whole current album, as if it could not be split. *)
EnqueueNextUnsplit(c, album) ==
  LET place == IF c.current \in DOMAIN c.items THEN c.current + 1 ELSE 1
  IN [c EXCEPT !.items = InsertAt(@, place, NewItem(album)),
               !.selected = IF @ >= place /\ Len(c.items) > 0 THEN @ + 1 ELSE @]

(* enqueue_next: behind the current track, in front of the rest of its     *)
(* album, which is split off into an item of its own.                      *)
EnqueueNext(c, album) ==
  LET cur   == c.items[c.current]
      split == c.current \in DOMAIN c.items /\ cur.at < Len(cur.tracks)
      place == IF c.current \in DOMAIN c.items THEN c.current + 1 ELSE 1
      kept  == IF split
               THEN [c.items EXCEPT ![c.current].tracks = SubSeq(@, 1, cur.at)]
               ELSE c.items
      extra == IF split
               THEN <<NewItem(album), NewItem(SubSeq(cur.tracks, cur.at + 1, Len(cur.tracks)))>>
               ELSE <<NewItem(album)>>
      items == SubSeq(kept, 1, place - 1) \o extra \o SubSeq(kept, place, Len(kept))
  IN [c EXCEPT !.items = items,
               !.selected = IF @ >= place /\ Len(c.items) > 0 THEN @ + Len(extra) ELSE @]

-----------------------------------------------------------------------------
(* Navigation: only the cursor moves. *)

JumpTo(c, i) == [c EXCEPT !.items[i].at = 1, !.current = i]

HasNextInItem(c) == c.items[c.current].at + 1 \in DOMAIN c.items[c.current].tracks

NextTrack(c) ==
  CASE c.current \notin DOMAIN c.items -> c
    [] c.current \in DOMAIN c.items /\ HasNextInItem(c) -> [c EXCEPT !.items[c.current].at = @ + 1]
    [] c.current \in DOMAIN c.items /\ ~HasNextInItem(c) ->
         IF c.current < Len(c.items) THEN JumpTo(c, c.current + 1) ELSE c

(* next_track answers None at the end of the queue and Some otherwise. *)
AtEnd(c) == c.current \notin DOMAIN c.items \/ (~HasNextInItem(c) /\ c.current = Len(c.items))

(* Faulty: peeks within the current album only. *)
PeekNextInAlbum(c) ==
  IF c.current \notin DOMAIN c.items \/ ~HasNextInItem(c) THEN NoTrack
  ELSE c.items[c.current].tracks[c.items[c.current].at + 1]

(* Queue::peek_next_track walks the items itself, without the cursor. *)
PeekNext(c) ==
  CASE c.current \notin DOMAIN c.items -> NoTrack
    [] c.current \in DOMAIN c.items /\ HasNextInItem(c) ->
         c.items[c.current].tracks[c.items[c.current].at + 1]
    [] c.current \in DOMAIN c.items /\ ~HasNextInItem(c) ->
         IF c.current < Len(c.items) THEN c.items[c.current + 1].tracks[1] ELSE NoTrack

(* Faulty: goes back from the first track of an album too. *)
PreviousTrackOffByOne(c) ==
  IF c.current \notin DOMAIN c.items THEN c ELSE [c EXCEPT !.items[c.current].at = @ - 1]

(* QueueItem::previous_track steps back whatever it finds there: a cursor  *)
(* past the end of its album may still be past it afterwards.              *)
HasPreviousInItem(c) == c.items[c.current].at - 1 \in DOMAIN c.items[c.current].tracks
StepBack(c) == [c EXCEPT !.items[c.current].at = IF @ > 1 THEN @ - 1 ELSE 1]

PreviousTrack(c) ==
  CASE c.current \notin DOMAIN c.items -> c
    [] c.current \in DOMAIN c.items /\ (HasPreviousInItem(c) \/ c.current = 1) -> StepBack(c)
    [] c.current \in DOMAIN c.items /\ ~HasPreviousInItem(c) /\ c.current # 1 ->
         LET p == c.current - 1
         IN [StepBack(c) EXCEPT !.current = p, !.items[p].at = Max({1, Len(c.items[p].tracks)})]

(* previous_track answers None. *)
AtStart(c) == c.current \notin DOMAIN c.items \/ (c.current = 1 /\ ~HasPreviousInItem(c))

-----------------------------------------------------------------------------
(* The upcoming list: a flat view over the items behind the cursor. *)

Upcoming(c) ==
  IF c.current # 0 /\ CurrentTrack(c) = NoTrack THEN <<>>
  ELSE LET first   == IF c.current = 0 THEN 1 ELSE c.current
           skip(i) == IF i = c.current THEN c.items[i].at ELSE 0
           rest(i) == [k \in 1..(Len(c.items[i].tracks) - skip(i)) |->
                         [item |-> i, track |-> skip(i) + k]]
       IN FlattenSeq([k \in 1..(Len(c.items) - first + 1) |-> rest(first + k - 1)])

(* The tracks those rows name. *)
UpcomingTracks(c) ==
  [r \in DOMAIN Upcoming(c) |-> c.items[Upcoming(c)[r].item].tracks[Upcoming(c)[r].track]]

(* resolve_upcoming_track: the flat index of a rendered row, or 0 when the *)
(* row no longer names the same source among the upcoming ones.            *)
ResolveUpcoming(c, pos, t) ==
  IF /\ pos.item \in DOMAIN c.items
     /\ pos.track \in DOMAIN c.items[pos.item].tracks
     /\ c.items[pos.item].tracks[pos.track] = t
     /\ Contains(Upcoming(c), pos)
  THEN SelectInSeq(Upcoming(c), LAMBDA p : p = pos)
  ELSE 0

(* take_upcoming_track: an item that loses its only track goes too. *)
TakeUpcoming(c, pos) ==
  LET rest == RemoveAt(c.items[pos.item].tracks, pos.track)
  IN ClampSelected(
       [c EXCEPT !.items = IF rest = <<>> THEN RemoveAt(@, pos.item)
                           ELSE [@ EXCEPT ![pos.item].tracks = rest]])

(* The record remove_upcoming_track returns for its undo. *)
RemovalRecord ==
  [position : [item : Nat \ {0}, track : Nat \ {0}], track : Tracks, itemRemoved : BOOLEAN]

Removal(c, pos) ==
  [position |-> pos, track |-> c.items[pos.item].tracks[pos.track],
   itemRemoved |-> Len(c.items[pos.item].tracks) = 1]

CanUndoRemoval(c, r) ==
  IF r.itemRemoved THEN r.position.item <= Len(c.items) + 1
  ELSE /\ r.position.item \in DOMAIN c.items
       /\ r.position.track <= Len(c.items[r.position.item].tracks) + 1

(* Faulty: puts the track back without shifting the cursor. *)
UndoRemovalUnshifted(c, r) ==
  ClampSelected(
    IF r.itemRemoved
    THEN [c EXCEPT !.items = InsertAt(@, r.position.item, NewItem(<<r.track>>))]
    ELSE [c EXCEPT !.items[r.position.item].tracks = InsertAt(@, r.position.track, r.track)])

(* undo_upcoming_track_removal: put the one track back, shift the cursor   *)
(* if the track lands at or before it, never move the cursor otherwise.    *)
UndoRemoval(c, r) ==
  LET i == r.position.item
      k == r.position.track
  IN IF r.itemRemoved
     THEN ClampSelected(
            [items    |-> InsertAt(c.items, i, NewItem(<<r.track>>)),
             current  |-> IF c.current >= i THEN c.current + 1 ELSE c.current,
             selected |-> IF c.selected >= i THEN c.selected + 1 ELSE c.selected])
     ELSE ClampSelected(
            [c EXCEPT !.items[i].tracks = InsertAt(@, k, r.track),
                      !.items[i].at = IF c.current = i /\ @ >= k THEN @ + 1 ELSE @])

CanMoveUpcoming(c, from, to) ==
  from \in DOMAIN Upcoming(c) /\ to \in DOMAIN Upcoming(c) /\ from # to

(* Faulty: inserts in front of the target row's album without splitting it.*)
MoveUpcomingUnsplit(c, from, to) ==
  LET pos   == Upcoming(c)[from]
      moved == NewItem(<<c.items[pos.item].tracks[pos.track]>>)
      left  == TakeUpcoming(c, pos)
      rows  == Upcoming(left)
      place == IF to \in DOMAIN rows THEN rows[to].item ELSE Len(left.items) + 1
  IN [left EXCEPT !.items = InsertAt(@, place, moved), !.selected = place]

(* move_upcoming_track: take the track out, then make it an item of its    *)
(* own in front of the row now at `to`, splitting that row's item if the   *)
(* row is not its first track.                                             *)
MoveUpcoming(c, from, to) ==
  LET pos    == Upcoming(c)[from]
      moved  == NewItem(<<c.items[pos.item].tracks[pos.track]>>)
      left   == TakeUpcoming(c, pos)
      rows   == Upcoming(left)
      splits == to \in DOMAIN rows /\ rows[to].track > 1
      items  == IF splits
                THEN LET i == rows[to].item
                         k == rows[to].track
                         s == left.items[i].tracks
                     IN InsertAt([left.items EXCEPT ![i].tracks = SubSeq(s, 1, k - 1)],
                                 i + 1, NewItem(SubSeq(s, k, Len(s))))
                ELSE left.items
      place  == CASE to \notin DOMAIN rows -> Len(items) + 1
                  [] splits                -> rows[to].item + 1
                  [] OTHER                 -> rows[to].item
  IN [left EXCEPT !.items = InsertAt(items, place, moved), !.selected = place]

PlayUpcoming(c, index) ==
  LET pos == Upcoming(c)[index]
  IN [c EXCEPT !.items[pos.item].at = pos.track, !.current = pos.item, !.selected = pos.item]

-----------------------------------------------------------------------------
(* The queue read as one list of tracks. *)

FlatTracks(c) == FlattenSeq([i \in DOMAIN c.items |-> c.items[i].tracks])

(* The cursor's place in that list; 0 when nothing is current. *)
FlatCursor(c) ==
  IF CurrentTrack(c) = NoTrack THEN 0
  ELSE Len(FlattenSeq([i \in 1..(c.current - 1) |-> c.items[i].tracks])) + c.items[c.current].at
=============================================================================
