------------------------ MODULE QueueControllerProofs ------------------------
(***************************************************************************)
(* Proofs about QueueController for any tracks, albums, playlists and any  *)
(* number of queued tracks.                                                *)
(***************************************************************************)
EXTENDS QueueController, QueueLemmas

LEMMA InitTypeOK == Init => TypeOK
<1> SUFFICES ASSUME Init PROVE TypeOK
  OBVIOUS
<1>1. <<>> \in Seq(Tracks)
  OBVIOUS
<1>2. QED
  BY <1>1, EmptyWellFormed DEF Init, TypeOK

LEMMA EditTypeOK ==
  ASSUME TypeOK, NEW c, WellFormed(c), Edit(c)
  PROVE  TypeOK'
<1>1. <<>> \in Seq(Tracks)
  OBVIOUS
<1>2. WellFormed(ctrl)'
  BY DEF Edit, WellFormed
<1>3. QED
  BY <1>1, <1>2 DEF Edit, TypeOK

LEMMA NavigateTypeOK ==
  ASSUME TypeOK, NEW c, WellFormed(c), Navigate(c)
  PROVE  TypeOK'
<1>1. WellFormed(ctrl)'
  BY DEF Navigate, WellFormed
<1>2. QED
  BY <1>1 DEF Navigate, TypeOK

(* One step per action of Next. *)
LEMMA NextTypeOK == TypeOK /\ [Next]_vars => TypeOK'
<1> SUFFICES ASSUME TypeOK, [Next]_vars PROVE TypeOK'
  OBVIOUS
<1>1. WellFormed(ctrl) /\ (undo # NoUndo => undo \in RemovalRecord)
  BY DEF TypeOK
<1>2. \A a \in Albums : a \in Seq(Tracks) /\ a # <<>>
  BY AlbumsAssumption
<1>3. ASSUME NEW album \in Albums, Add(album) PROVE TypeOK'
  <2>1. WellFormed(AddAlbum(ctrl, album))
    BY <1>1, <1>2, AddAlbumWellFormed
  <2>2. QED
    BY <1>3, <2>1, EditTypeOK DEF Add
<1>4. ASSUME NEW album \in Albums, PlayAlbum(album) PROVE TypeOK'
  <2>1. WellFormed(PlayAlbumNow(ctrl, album))
    BY <1>1, <1>2, AddAlbumWellFormed
  <2>2. QED
    BY <1>4, <2>1, EditTypeOK DEF PlayAlbum
<1>5. ASSUME NEW album \in Albums, Enqueue(album) PROVE TypeOK'
  <2>1. WellFormed(EnqueueNext(ctrl, album))
    BY <1>1, <1>2, EnqueueNextWellFormed
  <2>2. QED
    BY <1>5, <2>1, EditTypeOK DEF Enqueue
<1>6. ASSUME NEW paths \in Playlists, AppendPlaylist(paths) PROVE TypeOK'
  <2>1. paths \in Seq(Tracks)
    BY AlbumsAssumption
  <2>2. WellFormed(EnqueuePlaylist(ctrl, paths))
    BY <1>1, <2>1, EnqueuePlaylistWellFormed
  <2>3. QED
    BY <1>6, <2>2, EditTypeOK DEF AppendPlaylist
<1>7. ASSUME NEW i \in ItemPositions, RemoveItem(i) PROVE TypeOK'
  <2>1. WellFormed(RemoveAlbum(ctrl, i))
    BY <1>1, RemoveAlbumWellFormed DEF ItemPositions
  <2>2. QED
    BY <1>7, <2>1, EditTypeOK DEF RemoveItem
<1>8. ASSUME NEW i \in ItemPositions, Jump(i) PROVE TypeOK'
  <2>1. WellFormed(JumpTo(ctrl, i))
    BY <1>1, JumpToKeeps DEF ItemPositions, Keeps
  <2>2. QED
    BY <1>8, <2>1, NavigateTypeOK DEF Jump
<1>9. ASSUME NEW i \in ItemPositions, Select(i) PROVE TypeOK'
  <2>1. WellFormed([ctrl EXCEPT !.selected = i])
    BY <1>1, SelectedKeeps DEF ItemPositions, Keeps
  <2>2. QED
    BY <1>9, <2>1, NavigateTypeOK DEF Select
<1>10. ASSUME NEW i \in ItemPositions, NEW j \in ItemPositions, Reorder(i, j) PROVE TypeOK'
  <2>1. WellFormed(MoveItem(ctrl, i, j))
    BY <1>1, MoveItemWellFormed DEF ItemPositions
  <2>2. QED
    BY <1>10, <2>1, EditTypeOK DEF Reorder
<1>11. ASSUME NEW i \in Rows, NEW j \in Rows, MoveTrack(i, j) PROVE TypeOK'
  <2>1. WellFormed(MoveUpcoming(ctrl, i, j))
    BY <1>1, MoveUpcomingWellFormed DEF Rows
  <2>2. QED
    BY <1>11, <2>1, EditTypeOK DEF MoveTrack
<1>12. ASSUME NEW i \in Rows, RemoveTrack(i) PROVE TypeOK'
  <2> DEFINE pos == Upcoming(ctrl)[i]
  <2>1. pos \in AllRows(ctrl)
    BY <1>1, UpcomingRow DEF Rows
  <2>2. ctrl' = TakeUpcoming(ctrl, pos) /\ undo' = Removal(ctrl, pos) /\ before' = FlatTracks(ctrl)
    BY <1>12 DEF RemoveTrack
  <2> HIDE DEF pos
  <2>3. WellFormed(TakeUpcoming(ctrl, pos)) /\ Removal(ctrl, pos) \in RemovalRecord
        /\ FlatTracks(ctrl) \in Seq(Tracks)
    BY <1>1, <2>1, TakeUpcomingWellFormed, RemovalType, FlatTracksType
  <2>4. WellFormed(ctrl)'
    BY <2>2, <2>3 DEF WellFormed
  <2>5. QED
    BY <2>2, <2>3, <2>4 DEF TypeOK
<1>13. ASSUME NEW i \in Rows, PlayRow(i) PROVE TypeOK'
  <2>1. WellFormed(PlayUpcoming(ctrl, i))
    BY <1>1, PlayUpcomingKeeps DEF Rows, Keeps
  <2>2. QED
    BY <1>13, <2>1, NavigateTypeOK DEF PlayRow
<1>14. ASSUME NEW t \in Tracks, PlaySingle(t) PROVE TypeOK'
  <2>1. WellFormed(PlaySingleFileNow(ctrl, t))
    BY <1>1, PlaySingleFileNowKeeps
  <2>2. QED
    BY <1>14, <2>1, EditTypeOK, NavigateTypeOK DEF PlaySingle
<1>15. CASE Clear
  BY <1>15, EmptyWellFormed, EditTypeOK DEF Clear
<1>16. CASE Undo
  <2>1. CASE CanUndoRemoval(ctrl, undo)
    <3>1. WellFormed(UndoRemoval(ctrl, undo))
      BY <1>1, <1>16, <2>1, UndoRemovalWellFormed DEF Undo
    <3>2. QED
      BY <1>16, <2>1, <3>1, EditTypeOK DEF Undo
  <2>2. CASE ~CanUndoRemoval(ctrl, undo)
    BY <1>1, <1>16, <2>2, EditTypeOK DEF Undo
  <2>3. QED
    BY <2>1, <2>2
<1>17. CASE Start
  <2>1. 1 \in DOMAIN ctrl.items
    BY <1>1, <1>17, Facts, EmptySeq DEF Start
  <2>2. WellFormed(JumpTo(ctrl, 1))
    BY <1>1, <2>1, JumpToKeeps DEF Keeps
  <2>3. QED
    BY <1>17, <2>2, NavigateTypeOK DEF Start
<1>18. CASE Advance
  BY <1>1, <1>18, NextTrackKeeps, NavigateTypeOK DEF Advance, Keeps
<1>19. CASE Back
  BY <1>1, <1>19, PreviousTrackKeeps, NavigateTypeOK DEF Back, Keeps
<1>20. CASE UNCHANGED vars
  BY <1>20 DEF vars, TypeOK, WellFormed
<1>21. QED
  BY <1>3, <1>4, <1>5, <1>6, <1>7, <1>8, <1>9, <1>10, <1>11, <1>12, <1>13, <1>14, <1>15, <1>16,
     <1>17, <1>18, <1>19, <1>20 DEF Next

(* In every queue reachable by any sequence of operations, over any albums *)
(* and playlists, the cursor and the selection name queued albums and no   *)
(* queued album is empty (queue.rs, controllers/queue.rs).                 *)
THEOREM TypeCorrect == Spec => []TypeOK
<1>1. Init => TypeOK
  BY InitTypeOK
<1>2. TypeOK /\ [Next]_vars => TypeOK'
  BY NextTypeOK
<1>3. QED
  BY <1>1, <1>2, PTL DEF Spec

(* Over any albums and any edits, the track prepared for a gapless         *)
(* transition is the first row of the upcoming list (queue.rs,             *)
(* peek_next_track; controllers/queue.rs, upcoming_track_positions).       *)
THEOREM PeekAlwaysFirst == Spec => []PeekIsFirstUpcoming
<1>1. TypeOK => PeekIsFirstUpcoming
  BY PeekAgrees DEF TypeOK, PeekIsFirstUpcoming
<1>2. QED
  BY <1>1, TypeCorrect, PTL

-----------------------------------------------------------------------------
(* Undoing the removal of a track gives back the list of before, for any   *)
(* albums, any queue and any navigation in between: what the undo record   *)
(* holds always leads back to that list (UndoInv).                         *)

(* A held record leads back to the list of before: content edits discard   *)
(* it, and navigation changes neither side of the equation.                *)
UndoInv ==
  undo # NoUndo => CanPutBack(Lists(ctrl), undo) /\ FlattenSeq(PutBack(Lists(ctrl), undo)) = before


-----------------------------------------------------------------------------
(* The invariant: edits drop the record, navigation keeps the lists. *)

LEMMA EditUndoInv ==
  ASSUME NEW c, Edit(c)
  PROVE  UndoInv'
BY DEF Edit, UndoInv

LEMMA NavigateUndoInv ==
  ASSUME UndoInv, NEW c, Keeps(ctrl, c), Navigate(c)
  PROVE  UndoInv'
<1>1. Lists(ctrl)' = Lists(ctrl)
  BY DEF Navigate, Keeps, Lists
<1>2. QED
  BY <1>1 DEF Navigate, UndoInv, CanPutBack, PutBack

LEMMA NextUndoInv == TypeOK /\ UndoInv /\ [Next]_vars => UndoInv'
<1> SUFFICES ASSUME TypeOK, UndoInv, [Next]_vars PROVE UndoInv'
  OBVIOUS
<1>1. WellFormed(ctrl)
  BY DEF TypeOK
<1>2. ASSUME NEW album \in Albums, Add(album) \/ PlayAlbum(album) \/ Enqueue(album) PROVE UndoInv'
  BY <1>2, EditUndoInv DEF Add, PlayAlbum, Enqueue
<1>3. ASSUME NEW paths \in Playlists, AppendPlaylist(paths) PROVE UndoInv'
  BY <1>3, EditUndoInv DEF AppendPlaylist
<1>4. ASSUME NEW i \in ItemPositions, RemoveItem(i) PROVE UndoInv'
  BY <1>4, EditUndoInv DEF RemoveItem
<1>5. ASSUME NEW i \in ItemPositions, Jump(i) PROVE UndoInv'
  BY <1>1, <1>5, JumpToKeeps, NavigateUndoInv DEF Jump, ItemPositions
<1>6. ASSUME NEW i \in ItemPositions, Select(i) PROVE UndoInv'
  BY <1>1, <1>6, SelectedKeeps, NavigateUndoInv DEF Select, ItemPositions
<1>7. ASSUME NEW i \in ItemPositions, NEW j \in ItemPositions, Reorder(i, j) PROVE UndoInv'
  BY <1>7, EditUndoInv DEF Reorder
<1>8. ASSUME NEW i \in Rows, NEW j \in Rows, MoveTrack(i, j) PROVE UndoInv'
  BY <1>8, EditUndoInv DEF MoveTrack
<1>9. ASSUME NEW i \in Rows, RemoveTrack(i) PROVE UndoInv'
  <2> DEFINE pos == Upcoming(ctrl)[i]
             left == TakeUpcoming(ctrl, pos)
             r == Removal(ctrl, pos)
  <2>1. ctrl' = left /\ undo' = r /\ before' = FlatTracks(ctrl)
    BY <1>9 DEF RemoveTrack
  <2>2. pos \in AllRows(ctrl)
    BY <1>1, UpcomingRow DEF Rows
  <2> HIDE DEF pos
  <2>3. CanPutBack(Lists(left), r) /\ PutBack(Lists(left), r) = Lists(ctrl)
    BY <1>1, <2>2, RemovalPutsBack
  <2>4. before' = FlattenSeq(Lists(ctrl))
    BY <1>1, <2>1, FlatTracksType
  <2>5. UndoInv' <=> (r # NoUndo => CanPutBack(Lists(left), r) /\ FlattenSeq(PutBack(Lists(left), r)) = before')
    <3> HIDE DEF left, r
    <3>1. Lists(ctrl)' = Lists(left)
      BY <2>1 DEF Lists
    <3>2. QED
      BY <2>1, <3>1 DEF UndoInv, CanPutBack, PutBack
  <2> HIDE DEF left, r
  <2>6. QED
    BY <2>3, <2>4, <2>5
<1>10. ASSUME NEW i \in Rows, PlayRow(i) PROVE UndoInv'
  BY <1>1, <1>10, PlayUpcomingKeeps, NavigateUndoInv DEF PlayRow, Rows
<1>11. ASSUME NEW t \in Tracks, PlaySingle(t) PROVE UndoInv'
  BY <1>1, <1>11, PlaySingleFileNowKeeps, EditUndoInv, NavigateUndoInv DEF PlaySingle
<1>12. CASE Clear
  BY <1>12, EditUndoInv DEF Clear
<1>13. CASE Undo
  <2> DEFINE c == IF CanUndoRemoval(ctrl, undo) THEN UndoRemoval(ctrl, undo) ELSE ctrl
  <2>1. Edit(c)
    BY <1>13 DEF Undo
  <2> HIDE DEF c
  <2>2. QED
    BY <2>1, EditUndoInv
<1>14. CASE Start
  <2>1. 1 \in DOMAIN ctrl.items
    BY <1>1, <1>14, Facts, EmptySeq DEF Start
  <2>2. QED
    BY <1>1, <1>14, <2>1, JumpToKeeps, NavigateUndoInv DEF Start
<1>15. CASE Advance
  BY <1>1, <1>15, NextTrackKeeps, NavigateUndoInv DEF Advance
<1>16. CASE Back
  BY <1>1, <1>16, PreviousTrackKeeps, NavigateUndoInv DEF Back
<1>17. CASE UNCHANGED vars
  BY <1>17 DEF vars, UndoInv, Lists, CanPutBack, PutBack
<1>18. QED
  BY <1>2, <1>3, <1>4, <1>5, <1>6, <1>7, <1>8, <1>9, <1>10, <1>11, <1>12, <1>13, <1>14, <1>15,
     <1>16, <1>17 DEF Next

(* What one undo does, from any state the invariant allows. *)
LEMMA UndoStep ==
  ASSUME TypeOK, UndoInv, Undo
  PROVE  /\ FlatTracks(ctrl') = before
         /\ CurrentTrack(ctrl') = CurrentTrack(ctrl)
         /\ ctrl.current = 0 <=> ctrl'.current = 0
<1>1. WellFormed(ctrl) /\ undo # NoUndo /\ undo \in RemovalRecord
  BY DEF TypeOK, Undo
<1>2. CanPutBack(Lists(ctrl), undo) /\ FlattenSeq(PutBack(Lists(ctrl), undo)) = before
  BY <1>1 DEF UndoInv
<1>3. CanUndoRemoval(ctrl, undo)
  BY <1>1, <1>2, CanPutBackCanUndo
<1>4. ctrl' = UndoRemoval(ctrl, undo)
  BY <1>3 DEF Undo, Edit
<1>5. /\ Lists(UndoRemoval(ctrl, undo)) = PutBack(Lists(ctrl), undo)
      /\ CurrentTrack(UndoRemoval(ctrl, undo)) = CurrentTrack(ctrl)
      /\ ctrl.current = 0 <=> UndoRemoval(ctrl, undo).current = 0
  BY <1>1, <1>3, UndoPutsBackAlbum, UndoPutsBackTrack
<1>6. FlatTracks(UndoRemoval(ctrl, undo)) = FlattenSeq(Lists(UndoRemoval(ctrl, undo)))
  BY <1>1, <1>3, UndoRemovalWellFormed, FlatTracksType
<1>7. QED
  BY <1>2, <1>4, <1>5, <1>6

(* However far playback has navigated since, undoing the removal of a      *)
(* track gives back the whole list and moves the listener nowhere          *)
(* (controllers/queue.rs:306-307).                                         *)
THEOREM UndoAlwaysRestores == Spec => UndoRestores
<1>1. Init => TypeOK /\ UndoInv
  BY InitTypeOK DEF Init, UndoInv
<1>2. TypeOK /\ UndoInv /\ [Next]_vars => (TypeOK /\ UndoInv)'
  BY NextTypeOK, NextUndoInv
<1>3. TypeOK /\ UndoInv /\ [Next]_vars =>
        [Undo => /\ FlatTracks(ctrl') = before
                 /\ CurrentTrack(ctrl') = CurrentTrack(ctrl)
                 /\ ctrl.current = 0 <=> ctrl'.current = 0]_vars
  BY UndoStep
<1>4. QED
  BY <1>1, <1>2, <1>3, PTL DEF Spec, UndoRestores

-----------------------------------------------------------------------------
LEMMA EditsExact == TypeOK => UpcomingEditsExact
<1> SUFFICES ASSUME TypeOK PROVE UpcomingEditsExact
  OBVIOUS
<1> DEFINE u == UpcomingTracks(ctrl)
<1>1. WellFormed(ctrl)
  BY DEF TypeOK
<1>2. ASSUME NEW i \in Rows, NEW j \in Rows
      PROVE  Does(ctrl, MoveUpcoming(ctrl, i, j), InsertAt(RemoveAt(u, i), j, u[i]))
  <2>1. i \in DOMAIN Upcoming(ctrl) /\ j \in DOMAIN Upcoming(ctrl)
    BY DEF Rows
  <2>2. QED
    BY <1>1, <2>1, MoveUpcomingDoes
<1>3. ASSUME NEW i \in Rows
      PROVE  Does(ctrl, TakeUpcoming(ctrl, Upcoming(ctrl)[i]), RemoveAt(u, i))
  <2>1. i \in DOMAIN Upcoming(ctrl)
    BY DEF Rows
  <2>2. QED
    BY <1>1, <2>1, TakeUpcomingDoes
<1>4. ASSUME Showing(ctrl), NEW a \in Albums
      PROVE  Does(ctrl, EnqueueNext(ctrl, a), a \o u)
  <2>1. a \in Seq(Tracks) /\ a # <<>>
    BY AlbumsAssumption
  <2>2. QED
    BY <1>1, <1>4, <2>1, EnqueueNextDoes
<1> HIDE DEF u
<1>5. /\ \A i, j \in Rows : i # j => Does(ctrl, MoveUpcoming(ctrl, i, j), InsertAt(RemoveAt(u, i), j, u[i]))
      /\ \A i \in Rows : Does(ctrl, TakeUpcoming(ctrl, Upcoming(ctrl)[i]), RemoveAt(u, i))
      /\ ctrl.current = 0 \/ CurrentTrack(ctrl) # NoTrack =>
           \A a \in Albums : Does(ctrl, EnqueueNext(ctrl, a), a \o u)
  BY <1>2, <1>3, <1>4 DEF Showing
<1>6. QED
  BY <1>5 DEF UpcomingEditsExact, Does, Past, u

(* Every edit addressed by a row of the upcoming list does to the flat     *)
(* list exactly what it says and touches nothing already heard, whatever   *)
(* the albums and however they were cut before.                            *)
THEOREM UpcomingEditsAlwaysExact == Spec => []UpcomingEditsExact
BY TypeCorrect, EditsExact, PTL

(****************************************************************************)
(* The playback queue (sotf-player/src/queue.rs, controllers/queue.rs)      *)
(* implements TrackList: whatever albums it holds and however it splits and *)
(* joins them, a listener sees one list of tracks and a cursor, edited only *)
(* in the ways TrackList allows.                                            *)
(*                                                                          *)
(* The argument: album i begins in the flat list at Begin(lists, i), the    *)
(* length of what is before it, so the cursor is at the beginning of its    *)
(* album plus its place in the album (CursorIs).  Each operation is shown   *)
(* to do to these two numbers and to the flat list what one action of       *)
(* TrackList says, with a name for what it says (Appends, Schedules, Cuts,  *)
(* MovesBlock, TakesAfter, MovesAfter, PutsBack, Navigates), and NextFlat   *)
(* takes the operations one by one.                                         *)
(****************************************************************************)

(* The halves and the thirds of a list. *)
LEMMA HalvesAre ==
  ASSUME NEW S, NEW s \in Seq(S), NEW h \in Seq(S), NEW g \in Seq(S), Joins(s, h, g)
  PROVE  /\ Len(s) = Len(h) + Len(g) /\ Len(h) \in Nat /\ Len(g) \in Nat
         /\ SubSeq(s, 1, Len(h)) = h /\ SubSeq(s, Len(h) + 1, Len(s)) = g
<1> DEFINE n == Len(h)
           a == SubSeq(s, 1, n)
           b == SubSeq(s, n + 1, Len(s))
<1>1. Len(s) = Len(h) + Len(g)
  BY JoinsIs
<1>2. n \in Nat /\ n <= Len(s) /\ Len(g) \in Nat
  BY <1>1
<1> HIDE DEF n
<1>3. a \in Seq(S) /\ b \in Seq(S) /\ Len(a) = n /\ a \o b = s
  BY <1>2, Halves
<1> HIDE DEF a, b
<1>4. Joins(s, a, b)
  BY <1>3, Zenon DEF Joins
<1>5. Len(a) = Len(h)
  BY <1>3, Zenon DEF n
<1>6. a \in Seq(S) /\ b \in Seq(S)
  BY <1>3
<1>7. b = g /\ a = h
  BY <1>4, <1>5, <1>6, SameEnd
<1>8. QED
  BY <1>1, <1>2, <1>7 DEF a, b, n

(* The same with a block in the middle. *)
LEMMA ThirdsAre ==
  ASSUME NEW S, NEW s \in Seq(S), NEW h \in Seq(S), NEW x \in Seq(S),
         NEW g \in Seq(S), Joins(s, h, x \o g)
  PROVE  /\ Len(s) = Len(h) + Len(x) + Len(g) /\ Len(h) \in Nat /\ Len(x) \in Nat /\ Len(g) \in Nat
         /\ SubSeq(s, 1, Len(h)) = h
         /\ SubSeq(s, Len(h) + 1, Len(h) + Len(x)) = x
         /\ SubSeq(s, Len(h) + Len(x) + 1, Len(s)) = g
<1> DEFINE y == x \o g
           z == h \o x
           m == Len(h)
           n == Len(x)
<1>1. y \in Seq(S) /\ Len(y) = Len(x) + Len(g) /\ m \in Nat /\ n \in Nat /\ Len(g) \in Nat
      /\ \A j \in 1..n : y[j] = x[j]
  BY Joined
<1>2. z \in Seq(S) /\ Len(z) = m + n
  BY Joined
<1>3. Joins(s, z, g)
  <2>1. Joins((h \o x) \o g, h, x \o g)
    BY ThreeJoined
  <2>2. QED
    BY <2>1, Zenon DEF Joins
<1> HIDE DEF y, z
<1>4. /\ Len(s) = m + Len(y) /\ SubSeq(s, 1, m) = h
      /\ \A j \in 1..Len(y) : s[m + j] = y[j]
  <2>1. y \in Seq(S) /\ Joins(s, h, y)
    BY <1>1 DEF y
  <2>2. Len(s) = Len(h) + Len(y) /\ SubSeq(s, 1, Len(h)) = h
    BY <2>1, HalvesAre
  <2>3. \A j \in 1..Len(y) : s[Len(h) + j] = y[j]
    BY <2>1, JoinsIs
  <2>4. QED
    BY <2>2, <2>3
<1>5. SubSeq(s, Len(z) + 1, Len(s)) = g
  BY <1>2, <1>3, HalvesAre
<1>6. SubSeq(s, m + n + 1, Len(s)) = g
  BY <1>2, <1>5, Zenon
<1> HIDE DEF m, n
<1>7. SubSeq(s, m + 1, m + n) = x
  <2> DEFINE a == m + 1
             b == m + n
             t == SubSeq(s, a, b)
  <2>1. a \in 1..(Len(s) + 1) /\ b \in (a - 1)..Len(s) /\ b - a + 1 = n
    <3>1. Len(y) = n + Len(g) /\ m \in Nat /\ n \in Nat /\ Len(g) \in Nat
      BY <1>1 DEF n
    <3>2. Len(s) = m + Len(y)
      BY <1>4
    <3>3. Len(s) = m + n + Len(g) /\ Len(s) \in Nat
      BY <3>1, <3>2
    <3>4. QED
      BY <3>1, <3>3
  <2>2. \A j \in 1..n : a + j - 1 = m + j /\ j \in 1..Len(y)
    BY <1>1 DEF n
  <2> HIDE DEF a, b
  <2>3. t \in Seq(S) /\ Len(t) = b - a + 1 /\ \A j \in 1..(b - a + 1) : t[j] = s[a + j - 1]
    BY <2>1, Piece
  <2> HIDE DEF t
  <2>4. Len(t) = n /\ \A j \in 1..n : t[j] = s[a + j - 1]
    BY <2>1, <2>3, Zenon
  <2>5. \A j \in 1..n : t[j] = y[j]
    BY <1>4, <2>2, <2>4, Zenon
  <2>6. n = Len(x) /\ \A j \in 1..n : y[j] = x[j]
    BY <1>1 DEF n
  <2>7. Len(t) = Len(x) /\ \A j \in 1..Len(t) : t[j] = x[j]
    BY <2>4, <2>5, <2>6, Zenon
  <2>8. t = x
    BY <2>3, <2>7, SeqEqual
  <2>9. QED
    BY <2>8 DEF t, a, b
<1>8. Len(s) = m + n + Len(g)
  BY <1>1, <1>4 DEF n
<1>9. QED
  BY <1>1, <1>4, <1>6, <1>7, <1>8, Zenon DEF m, n

-----------------------------------------------------------------------------
(* As a predicate of its own. *)
Thirds(s, h, x, g) ==
  /\ Len(s) = Len(h) + Len(x) + Len(g) /\ Len(h) \in Nat /\ Len(x) \in Nat /\ Len(g) \in Nat
  /\ SubSeq(s, 1, Len(h)) = h
  /\ SubSeq(s, Len(h) + 1, Len(h) + Len(x)) = x
  /\ SubSeq(s, Len(h) + Len(x) + 1, Len(s)) = g

LEMMA ThirdsHold ==
  ASSUME NEW S, NEW s \in Seq(S), NEW h \in Seq(S), NEW x \in Seq(S),
         NEW g \in Seq(S), Joins(s, h, x \o g)
  PROVE  Thirds(s, h, x, g)
BY ThirdsAre DEF Thirds

(* Where the lists begin in the flat list. *)

Begin(s, i) == Len(FlattenSeq(SubSeq(s, 1, i - 1)))

(* Where a list begins is a place of the flat list, and its elements follow it. *)
LEMMA BeginIs ==
  ASSUME NEW A, NEW s \in Seq(Seq(A)), NEW i \in 1..Len(s)
  PROVE  /\ Begin(s, i) \in Nat /\ Len(s[i]) \in Nat
         /\ Begin(s, i + 1) = Begin(s, i) + Len(s[i])
<1> DEFINE h == FlattenSeq(SubSeq(s, 1, i - 1))
           x == s[i]
<1>1. h \in Seq(A) /\ x \in Seq(A) /\ FlattenSeq(SubSeq(s, 1, i)) = h \o x
  BY FlattenAround
<1>2. i + 1 - 1 = i
  BY LenProperties
<1> HIDE DEF h, x
<1>3. Begin(s, i + 1) = Len(h \o x)
  <2> DEFINE n == i + 1
             m == n - 1
  <2>1. m = i
    BY <1>2
  <2>2. Begin(s, n) = Len(FlattenSeq(SubSeq(s, 1, m)))
    BY DEF Begin
  <2> HIDE DEF m, n
  <2>3. Begin(s, n) = Len(h \o x)
    BY <1>1, <2>1, <2>2, Zenon
  <2>4. QED
    BY <2>3 DEF n
<1>4. Len(h \o x) = Len(h) + Len(x) /\ Len(h) \in Nat /\ Len(x) \in Nat
  BY <1>1, Joined
<1>5. QED
  BY <1>3, <1>4 DEF h, x, Begin

(* A later list begins behind an earlier one. *)
LEMMA BeginOrder ==
  ASSUME NEW A, NEW s \in Seq(Seq(A)), NEW j \in 1..(Len(s) + 1), NEW i \in 1..j
  PROVE  Begin(s, i) <= Begin(s, j) /\ Begin(s, i) \in Nat /\ Begin(s, j) \in Nat
<1> DEFINE m == i - 1
           n == j - 1
           p == SubSeq(s, 1, n)
           q == SubSeq(s, 1, m)
           r == SubSeq(p, m + 1, Len(p))
<1>1. n \in Nat /\ n <= Len(s) /\ m \in Nat /\ m <= n
  BY LenProperties
<1> HIDE DEF n, m
<1>2. p \in Seq(Seq(A)) /\ Len(p) = n
  BY <1>1, Halves
<1>3. q \in Seq(Seq(A))
  <2>1. m <= Len(s)
    BY <1>1
  <2>2. QED
    BY <1>1, <2>1, Halves
<1>4. SubSeq(p, 1, m) = q
  <2>1. \A k \in 1..m : p[k] = s[k]
    <3>1. 1 \in 1..(Len(s) + 1) /\ n \in (1 - 1)..Len(s) /\ n - 1 + 1 = n /\ \A k \in 1..m : k \in 1..n /\ 1 + k - 1 = k
      BY <1>1
    <3>2. \A k \in 1..(n - 1 + 1) : p[k] = s[1 + k - 1]
      BY <3>1, Piece
    <3>3. QED
      BY <3>1, <3>2
  <2>2. 1 \in Nat /\ 1 >= 1 /\ m <= Len(p) /\ m <= Len(s)
    BY <1>1, <1>2
  <2> HIDE DEF p
  <2>3. QED
    BY <1>1, <1>2, <2>1, <2>2, SubSeqAlike DEF q
<1> HIDE DEF p
<1>5. /\ FlattenSeq(SubSeq(p, 1, m)) \in Seq(A) /\ FlattenSeq(r) \in Seq(A)
      /\ FlattenSeq(p) = FlattenSeq(SubSeq(p, 1, m)) \o FlattenSeq(r)
  <2>1. m \in Nat /\ m <= Len(p)
    BY <1>1, <1>2
  <2>2. QED
    BY <1>2, <2>1, FlattenHalves
<1> DEFINE f == FlattenSeq(q)
           g == FlattenSeq(r)
<1>6. f \in Seq(A) /\ g \in Seq(A) /\ FlattenSeq(p) = f \o g
  BY <1>4, <1>5, Zenon
<1> HIDE DEF f, g
<1>7. Len(f \o g) = Len(f) + Len(g) /\ Len(f) \in Nat /\ Len(g) \in Nat
  BY <1>6, Joined
<1>8. Begin(s, i) = Len(f)
  BY Zenon DEF Begin, f, q, m
<1>9. Begin(s, j) = Len(f \o g)
  BY <1>6, Zenon DEF Begin, p, n
<1>10. QED
  BY <1>7, <1>8, <1>9

(* Where a list begins depends only on the lists before it. *)
LEMMA BeginAlike ==
  ASSUME NEW A, NEW s \in Seq(Seq(A)), NEW t \in Seq(Seq(A)),
         NEW i \in 1..(Len(s) + 1), i <= Len(t) + 1,
         SameUpTo(s, t, i - 1)
  PROVE  Begin(s, i) = Begin(t, i)
<1> DEFINE n == i - 1
<1>1. n \in Nat /\ 1 \in Nat /\ 1 >= 1 /\ n <= Len(s) /\ n <= Len(t)
  BY LenProperties
<1>2. \A j \in 1..n : s[j] = t[j]
  BY DEF SameUpTo
<1> HIDE DEF n
<1>3. SubSeq(s, 1, n) = SubSeq(t, 1, n)
  BY <1>1, <1>2, SubSeqAlike
<1>4. QED
  BY <1>3, Zenon DEF Begin, n

-----------------------------------------------------------------------------
(* The cursor in the flat list. *)
LEMMA CursorIs ==
  ASSUME NEW c, WellFormed(c)
  PROVE  /\ FlatCursor(c) \in 0..Len(FlatTracks(c)) /\ Len(FlatTracks(c)) \in Nat
         /\ FlatCursor(c) # 0 <=> Plays(c)
         /\ Plays(c) => FlatCursor(c) = HeardLen(c)
         /\ Plays(c) => FlatCursor(c) = Begin(Lists(c), c.current) + c.items[c.current].at
<1> DEFINE cur == c.current
           at == c.items[cur].at
<1>1. FlatTracks(c) \in Seq(Tracks) /\ Len(FlatTracks(c)) \in Nat
  BY FlatTracksType, LenProperties
<1>2. CASE ~Plays(c)
  BY <1>1, <1>2 DEF FlatCursor, Plays
<1>3. CASE Plays(c)
  <2>1. cur # 0 /\ cur \in DOMAIN c.items /\ cur \in 1..Len(c.items) /\ at \in 1..Len(c.items[cur].tracks)
        /\ Showing(c)
    BY <1>3, PlaysIs
  <2>2. HeardLen(c) \in Nat /\ HeardLen(c) <= Len(FlatTracks(c))
    BY <2>1, UpcomingIsEnd
  <2>3. SubSeq(Lists(c), 1, cur - 1) = [i \in 1..(cur - 1) |-> c.items[i].tracks]
    <3> DEFINE n == cur - 1
               p == SubSeq(Lists(c), 1, n)
               q == [i \in 1..n |-> c.items[i].tracks]
    <3>1. n \in Nat /\ n <= Len(c.items) /\ \A i \in 1..n : i \in DOMAIN c.items
      BY <2>1, Facts
    <3>2. Lists(c) \in Seq(Seq(Tracks)) /\ Len(Lists(c)) = Len(c.items)
          /\ \A i \in DOMAIN c.items : Lists(c)[i] = c.items[i].tracks
      BY ListsFacts
    <3> HIDE DEF n
    <3>3. 1 \in 1..(Len(Lists(c)) + 1) /\ n \in (1 - 1)..Len(Lists(c)) /\ n - 1 + 1 = n
      BY <3>1, <3>2
    <3>4. p \in Seq(Seq(Tracks)) /\ Len(p) = n - 1 + 1 /\ \A k \in 1..(n - 1 + 1) : p[k] = Lists(c)[1 + k - 1]
      BY <3>2, <3>3, Piece
    <3>5. DOMAIN p = 1..n /\ \A k \in 1..n : p[k] = c.items[k].tracks
      <4>1. DOMAIN p = 1..n /\ \A k \in 1..n : p[k] = Lists(c)[1 + k - 1] /\ 1 + k - 1 = k
        BY <3>1, <3>3, <3>4
      <4>2. \A k \in 1..n : p[k] = Lists(c)[k]
        BY <4>1
      <4>3. \A k \in 1..n : Lists(c)[k] = c.items[k].tracks
        BY <3>1, <3>2
      <4>4. QED
        BY <4>1, <4>2, <4>3
    <3>6. p = [k \in DOMAIN p |-> p[k]]
      <4>1. p \in Seq(Seq(Tracks))
        BY <3>4
      <4> HIDE DEF p
      <4>2. QED
        BY <4>1
    <3> HIDE DEF p
    <3>7. p = q
      BY <3>5, <3>6
    <3>8. QED
      BY <3>7 DEF p, q, n
  <2>4. HeardLen(c) = Begin(Lists(c), cur) + at
    BY <2>1 DEF HeardLen, Begin
  <2>5. FlatCursor(c) = Begin(Lists(c), cur) + at
    BY <1>3, <2>3, Zenon DEF FlatCursor, Plays, Begin
  <2>6. Begin(Lists(c), cur) \in Nat
    <3>1. Lists(c) \in Seq(Seq(Tracks)) /\ cur \in 1..Len(Lists(c))
      BY <2>1, ListsFacts
    <3> HIDE DEF cur
    <3>2. QED
      BY <3>1, BeginIs
  <2>7. at \in Nat /\ at >= 1
    BY <2>1, ItemFacts
  <2>8. QED
    BY <1>1, <1>3, <2>2, <2>4, <2>5, <2>6, <2>7
<1>4. QED
  BY <1>2, <1>3

LEMMA NavigatesFlat ==
  ASSUME NEW c, WellFormed(c), NEW d, Navigates(c, d)
  PROVE  /\ FlatTracks(d) = FlatTracks(c) /\ FlatCursor(d) \in 0..Len(FlatTracks(c))
         /\ FlatCursor(c) # 0 => FlatCursor(d) # 0
<1>1. WellFormed(d) /\ Lists(d) = Lists(c)
  BY DEF Navigates, Keeps
<1>2. FlatTracks(d) = FlatTracks(c)
  BY <1>1, FlatTracksType
<1>3. FlatCursor(d) \in 0..Len(FlatTracks(c))
  BY <1>1, <1>2, CursorIs
<1>4. FlatCursor(c) # 0 => FlatCursor(d) # 0
  BY <1>1, CursorIs DEF Navigates
<1>5. QED
  BY <1>2, <1>3, <1>4

(* A cursor put on a track of an album plays it. *)
(* A list begins with each of its beginnings. *)
LEMMA PrefixOf ==
  ASSUME NEW S, NEW s \in Seq(S), NEW x \in Seq(S)
  PROVE  IsPrefix(s, s \o x) /\ Len(s \o x) = Len(s) + Len(x) /\ Len(s) \in Nat /\ Len(x) \in Nat
<1> DEFINE t == s \o x
<1>1. t \in Seq(S) /\ Len(t) = Len(s) + Len(x) /\ Len(s) \in Nat /\ Len(x) \in Nat
  BY Joined
<1>2. Joins(t, s, x)
  BY Zenon DEF Joins
<1> HIDE DEF t
<1>3. SubSeq(t, 1, Len(s)) = s
  BY <1>1, <1>2, HalvesAre
<1>4. SubSeq(s, 1, Len(s)) = s
  BY SubSeqFull
<1>5. Len(s) <= Len(t)
  BY <1>1
<1>6. IsPrefix(s, t)
  BY <1>3, <1>4, <1>5, Zenon DEF IsPrefix
<1>7. QED
  BY <1>1, <1>6 DEF t

(* The cursor and everything before it are the same. *)
KeptThrough(c, items) ==
  c.current # 0 =>
    /\ c.current \in 1..Len(items)
    /\ \A j \in 1..c.current : items[j] = c.items[j]

(* Then the cursor of the flat list is the same, too. *)
LEMMA KeptCursor ==
  ASSUME NEW c, WellFormed(c), NEW d, WellFormed(d), d.current = c.current, KeptThrough(c, d.items)
  PROVE  FlatCursor(d) = FlatCursor(c)
<1> DEFINE cur == c.current
<1>1. CASE cur = 0
  <2>1. ~Plays(c) /\ ~Plays(d)
    BY <1>1, PlaysIs
  <2>2. QED
    BY <2>1, CursorIs
<1>2. CASE cur # 0
  <2>1. cur \in 1..Len(d.items) /\ cur \in 1..Len(c.items) /\ cur \in Nat /\ \A j \in 1..cur : d.items[j] = c.items[j]
    BY <1>2, Facts DEF KeptThrough
  <2>2. d.items[cur] = c.items[cur]
    BY <2>1
  <2>3. Plays(d) <=> Plays(c)
    BY <2>2, PlaysIs
  <2>4. Begin(Lists(d), cur) = Begin(Lists(c), cur)
    <3> DEFINE s == Lists(c)
               t == Lists(d)
    <3>1. s \in Seq(Seq(Tracks)) /\ t \in Seq(Seq(Tracks)) /\ Len(s) = Len(c.items) /\ Len(t) = Len(d.items)
      BY ListsFacts
    <3>2. SameUpTo(s, t, cur - 1)
      <4>1. SUFFICES ASSUME NEW j \in 1..(cur - 1) PROVE s[j] = t[j]
        BY DEF SameUpTo
      <4>2. j \in DOMAIN c.items /\ j \in DOMAIN d.items /\ j \in 1..cur
        BY <2>1, Facts
      <4>3. QED
        BY <2>1, <4>2, ListsFacts
    <3>3. s \in Seq(Seq(Tracks)) /\ t \in Seq(Seq(Tracks))
      BY <3>1
    <3>4. cur \in 1..(Len(s) + 1) /\ cur <= Len(t) + 1
      BY <2>1, <3>1
    <3> HIDE DEF s, t, cur
    <3>5. Begin(s, cur) = Begin(t, cur)
      BY <3>2, <3>3, <3>4, BeginAlike
    <3>6. QED
      BY <3>5 DEF s, t
  <2>5. CASE Plays(c)
    <3>1. FlatCursor(c) = Begin(Lists(c), cur) + c.items[cur].at
      BY <2>5, CursorIs
    <3>2. FlatCursor(d) = Begin(Lists(d), cur) + d.items[cur].at
      BY <2>3, <2>5, CursorIs
    <3>3. QED
      BY <2>2, <2>4, <3>1, <3>2, Zenon
  <2>6. CASE ~Plays(c)
    BY <2>3, <2>6, CursorIs
  <2>7. QED
    BY <2>5, <2>6
<1>3. QED
  BY <1>1, <1>2

(* d has the albums of c and more behind them. *)
LEMMA AppendedFlat ==
  ASSUME NEW c, WellFormed(c), NEW d, WellFormed(d),
         NEW more \in Seq(Stocked), d.items = c.items \o more
  PROVE  /\ FlattenSeq(TracksOf(more)) \in Seq(Tracks)
         /\ Joins(FlatTracks(d), FlatTracks(c), FlattenSeq(TracksOf(more)))
         /\ Lists(d) \in Seq(Seq(Tracks)) /\ Begin(Lists(d), Len(c.items) + 1) = Len(FlatTracks(c))
         /\ KeptThrough(c, d.items)
<1> DEFINE s == Lists(c)
           t == TracksOf(more)
           u == Lists(d)
<1>1. s \in Seq(Seq(Tracks)) /\ Len(s) = Len(c.items) /\ Len(c.items) \in Nat /\ c.items \in Seq(Stocked)
      /\ \A j \in 1..Len(c.items) : s[j] = c.items[j].tracks
  BY ListsFacts, Facts
<1>2. t \in Seq(Seq(Tracks)) /\ Len(t) = Len(more) /\ Len(more) \in Nat
      /\ \A j \in 1..Len(more) : t[j] = more[j].tracks
  BY TracksOfIs
<1>3. /\ Len(d.items) = Len(c.items) + Len(more)
      /\ \A j \in 1..Len(c.items) : d.items[j] = c.items[j]
      /\ \A j \in 1..Len(more) : d.items[Len(c.items) + j] = more[j]
  <2> DEFINE both == c.items \o more
  <2>1. /\ Len(both) = Len(c.items) + Len(more)
        /\ \A j \in 1..Len(c.items) : both[j] = c.items[j]
        /\ \A j \in 1..Len(more) : both[Len(c.items) + j] = more[j]
    BY <1>1, Joined
  <2>2. d.items = both
    OBVIOUS
  <2> HIDE DEF both
  <2>3. QED
    BY <2>1, <2>2, Zenon
<1>4. u \in Seq(Seq(Tracks)) /\ Len(u) = Len(d.items) /\ \A j \in 1..Len(d.items) : u[j] = d.items[j].tracks
  BY ListsFacts, Facts
<1> HIDE DEF s, t, u
<1>5. u = s \o t
  <2> DEFINE both == s \o t
  <2>1. /\ both \in Seq(Seq(Tracks)) /\ Len(both) = Len(s) + Len(t)
        /\ \A j \in 1..Len(s) : both[j] = s[j]
        /\ \A j \in 1..Len(t) : both[Len(s) + j] = t[j]
    <3>1. s \in Seq(Seq(Tracks)) /\ t \in Seq(Seq(Tracks))
      BY <1>1, <1>2
    <3>2. QED
      BY <3>1, Joined
  <2> HIDE DEF both
  <2>2. Len(u) = Len(both)
    BY <1>1, <1>2, <1>3, <1>4, <2>1
  <2>3. ASSUME NEW j \in 1..Len(u) PROVE u[j] = both[j]
    <3>1. CASE j <= Len(c.items)
      <4>1. j \in 1..Len(c.items) /\ j \in 1..Len(d.items) /\ j \in 1..Len(s)
        BY <1>1, <1>3, <1>4, <3>1
      <4>2. QED
        BY <1>1, <1>3, <1>4, <2>1, <4>1
    <3>2. CASE ~(j <= Len(c.items))
      <4>1. PICK k \in 1..Len(more) : j = Len(c.items) + k
        BY <1>1, <1>2, <1>3, <1>4, <3>2, j - Len(c.items) \in 1..Len(more), j = Len(c.items) + (j - Len(c.items))
      <4>2. u[j] = more[k].tracks
        BY <1>3, <1>4, <4>1
      <4>3. both[Len(s) + k] = t[k] /\ t[k] = more[k].tracks
        BY <1>2, <2>1, <4>1
      <4>4. QED
        BY <1>1, <4>1, <4>2, <4>3
    <3>3. QED
      BY <3>1, <3>2
  <2>4. u = both
    <3>1. u \in Seq(Seq(Tracks)) /\ both \in Seq(Seq(Tracks))
      BY <1>4, <2>1
    <3>2. QED
      BY <2>2, <2>3, <3>1, SeqEqual
  <2>5. QED
    BY <2>4 DEF both
<1>6. FlatTracks(c) = FlattenSeq(s) /\ FlatTracks(d) = FlattenSeq(u)
  BY FlatTracksType DEF s, u
<1>7. FlattenSeq(s \o t) = FlattenSeq(s) \o FlattenSeq(t)
  <2>1. s \in Seq(Seq(Tracks)) /\ t \in Seq(Seq(Tracks))
    BY <1>1, <1>2
  <2>2. QED
    BY <2>1, FlattenConcat
<1>8. Joins(FlatTracks(d), FlatTracks(c), FlattenSeq(t))
  BY <1>5, <1>6, <1>7, Zenon DEF Joins
<1>9. FlattenSeq(t) \in Seq(Tracks)
  BY <1>2, FlattenType
<1>10. Begin(u, Len(c.items) + 1) = Len(FlatTracks(c))
  <2> DEFINE n == Len(s)
  <2>1. Joins(u, s, t)
    BY <1>5, Zenon DEF Joins
  <2>2. u \in Seq(Seq(Tracks)) /\ s \in Seq(Seq(Tracks)) /\ t \in Seq(Seq(Tracks))
    BY <1>1, <1>2, <1>4
  <2>3. SubSeq(u, 1, Len(s)) = s
    BY <2>1, <2>2, HalvesAre
  <2> DEFINE m == Len(c.items) + 1
             k == m - 1
  <2>4. k = Len(s)
    BY <1>1
  <2>5. Begin(u, m) = Len(FlattenSeq(SubSeq(u, 1, k)))
    BY DEF Begin
  <2> HIDE DEF m, k
  <2>6. Begin(u, m) = Len(FlatTracks(c))
    BY <1>6, <2>3, <2>4, <2>5, Zenon
  <2>7. QED
    BY <2>6 DEF m
<1>11. KeptThrough(c, d.items)
  <2>1. c.current \in Nat /\ c.current <= Len(c.items) /\ \A j \in 1..c.current : j \in 1..Len(c.items)
    BY Facts
  <2>2. c.current # 0 => c.current \in 1..Len(d.items)
    BY <1>1, <1>2, <1>3, <2>1
  <2>3. \A j \in 1..c.current : d.items[j] = c.items[j]
    BY <1>3, <2>1
  <2>4. QED
    BY <2>2, <2>3 DEF KeptThrough
<1>12. u \in Seq(Seq(Tracks))
  BY <1>4
<1>13. QED
  BY <1>8, <1>9, <1>10, <1>11, <1>12 DEF t, u

(* Tracks arrive at the end, and perhaps the cursor goes to them. *)
Appends(c, d) ==
  /\ IsPrefix(FlatTracks(c), FlatTracks(d))
  /\ FlatCursor(d) \in {FlatCursor(c)} \cup (IF Len(FlatTracks(d)) > Len(FlatTracks(c))
                                             THEN {Len(FlatTracks(c)) + 1} ELSE {})

(* With the cursor left alone that is an append. *)
LEMMA AppendedAppends ==
  ASSUME NEW c, WellFormed(c), NEW d, WellFormed(d),
         NEW more \in Seq(Stocked), d.items = c.items \o more,
         d.current = c.current
  PROVE  Appends(c, d)
<1> DEFINE l == FlatTracks(c)
           x == FlattenSeq(TracksOf(more))
<1>1. x \in Seq(Tracks) /\ FlatTracks(d) = l \o x /\ KeptThrough(c, d.items)
  BY AppendedFlat, Zenon DEF Joins
<1>2. l \in Seq(Tracks)
  BY FlatTracksType
<1> HIDE DEF l, x
<1>3. IsPrefix(l, l \o x)
  BY <1>1, <1>2, PrefixOf
<1>4. FlatCursor(d) = FlatCursor(c)
  BY <1>1, KeptCursor
<1>5. QED
  BY <1>1, <1>3, <1>4, Zenon DEF Appends, l

(* add_album, and play_album_now, which also goes to the new album. *)
LEMMA AddAlbumAppends ==
  ASSUME NEW c, WellFormed(c), NEW a \in Seq(Tracks), a # <<>>
  PROVE  Appends(c, AddAlbum(c, a)) /\ Appends(c, PlayAlbumNow(c, a))
<1> DEFINE x == NewItem(a)
           more == <<x>>
           items == c.items \o more
           d == AddAlbum(c, a)
           e == PlayAlbumNow(c, a)
<1>1. x \in Stocked /\ x.tracks = a /\ x.at = 1
  BY NewItemStocked DEF NewItem
<1>2. c.items \in Seq(Stocked) /\ Len(c.items) \in Nat
  BY Facts
<1>3. WellFormed(d) /\ WellFormed(e)
  BY AddAlbumWellFormed
<1> HIDE DEF x
<1>4. Append(c.items, x) = items
  BY <1>1, <1>2, AppendIsConcat
<1>5. d = Made(items, c.current, c.selected) /\ e = Made(items, Len(c.items) + 1, c.selected)
  <2>1. d = [c EXCEPT !.items = items]
    BY <1>4 DEF AddAlbum, x
  <2> HIDE DEF items, d
  <2>2. d = Made(items, c.current, c.selected)
    BY <2>1, WellFormedFits DEF Made
  <2>3. e = [d EXCEPT !.current = Len(c.items) + 1]
    BY DEF PlayAlbumNow, d
  <2>4. QED
    BY <2>2, <2>3 DEF Made
<1>6. more \in Seq(Stocked) /\ Len(more) = 1 /\ more[1] = x
  BY <1>1
<1> HIDE DEF more, d, e
<1>7. d.items = c.items \o more /\ d.current = c.current /\ e.items = c.items \o more /\ e.current = Len(c.items) + 1
  BY <1>5 DEF Made
<1>8. Appends(c, d)
  BY <1>3, <1>6, <1>7, AppendedAppends
<1>9. Appends(c, e)
  <2> DEFINE l == FlatTracks(c)
             m == FlatTracks(e)
             f == FlattenSeq(TracksOf(more))
             n == Len(c.items) + 1
  <2>1. f \in Seq(Tracks) /\ Joins(m, l, f) /\ Begin(Lists(e), n) = Len(l)
    BY <1>3, <1>6, <1>7, AppendedFlat
  <2>2. l \in Seq(Tracks) /\ m \in Seq(Tracks)
    BY <1>3, FlatTracksType
  <2>3. e.items[n] = x /\ n \in 1..Len(e.items)
    <3>1. /\ Len(c.items \o more) = Len(c.items) + Len(more)
          /\ \A j \in 1..Len(more) : (c.items \o more)[Len(c.items) + j] = more[j]
      BY <1>2, <1>6, Joined
    <3>2. Len(e.items) = Len(c.items) + Len(more) /\ \A j \in 1..Len(more) : e.items[Len(c.items) + j] = more[j]
      BY <1>7, <3>1, Zenon
    <3>3. QED
      BY <1>2, <1>6, <3>2
  <2>4. Plays(e)
    <3>1. 1 \in 1..Len(a)
      OBVIOUS
    <3>2. e.current = n /\ n # 0
      BY <1>2, <1>7
    <3>3. e.items[e.current].at \in 1..Len(e.items[e.current].tracks) /\ e.current # 0
      BY <1>1, <2>3, <3>1, <3>2, Zenon
    <3>4. QED
      BY <1>3, <3>3, PlaysIs
  <2>5. FlatCursor(e) = Len(l) + 1
    BY <1>1, <1>3, <1>7, <2>1, <2>3, <2>4, CursorIs
  <2>6. FlatCursor(e) <= Len(m) /\ Len(m) \in Nat
    BY <1>3, CursorIs
  <2> HIDE DEF l, f, m
  <2>7. IsPrefix(l, m)
    <3>1. IsPrefix(l, l \o f)
      BY <2>1, <2>2, PrefixOf
    <3>2. QED
      BY <2>1, <3>1, Zenon DEF Joins
  <2>8. Len(l) \in Nat
    BY <2>2
  <2>9. Len(m) > Len(l)
    BY <2>5, <2>6, <2>8
  <2>10. QED
    BY <2>5, <2>7, <2>9 DEF Appends, l, m
<1>10. QED
  BY <1>8, <1>9 DEF d, e

(* A playlist is appended as albums of one track each. *)
LEMMA EnqueuePlaylistAppends ==
  ASSUME NEW c, WellFormed(c), NEW paths \in Seq(Tracks)
  PROVE  Appends(c, EnqueuePlaylist(c, paths))
<1> DEFINE fresh(k) == ~InQueue(c, paths[k]) /\ \A j \in 1..(k - 1) : paths[j] # paths[k]
           new == [k \in DOMAIN paths |-> IF fresh(k) THEN <<NewItem(<<paths[k]>>)>> ELSE <<>>]
           more == FlattenSeq(new)
           d == EnqueuePlaylist(c, paths)
<1>1. new \in Seq(Seq(Stocked))
  <2>1. Len(paths) \in Nat /\ DOMAIN paths = 1..Len(paths)
    BY LenProperties
  <2>2. ASSUME NEW k \in 1..Len(paths) PROVE <<NewItem(<<paths[k]>>)>> \in Seq(Stocked)
    <3>1. <<paths[k]>> \in Seq(Tracks) /\ <<paths[k]>> # <<>>
      BY ElementOfSeq
    <3>2. NewItem(<<paths[k]>>) \in Stocked
      BY <3>1, NewItemStocked
    <3>3. QED
      BY <3>2
  <2>3. <<>> \in Seq(Stocked)
    OBVIOUS
  <2> HIDE DEF fresh
  <2>4. QED
    BY <2>1, <2>2, <2>3
<1>2. d = [c EXCEPT !.items = @ \o more]
  BY DEF EnqueuePlaylist
<1>3. WellFormed(d)
  BY EnqueuePlaylistWellFormed
<1> HIDE DEF new, d
<1>4. more \in Seq(Stocked)
  BY <1>1, FlattenType
<1> HIDE DEF more
<1>5. d.items = c.items \o more /\ d.current = c.current
  <2> DEFINE items == c.items \o more
  <2>1. d = [c EXCEPT !.items = items]
    BY <1>2
  <2> HIDE DEF items
  <2>2. d = Made(items, c.current, c.selected)
    BY <2>1, WellFormedFits DEF Made
  <2>3. d.items = items /\ d.current = c.current
    BY <2>2 DEF Made
  <2>4. QED
    BY <2>3 DEF items
<1>6. Appends(c, d)
  BY <1>3, <1>4, <1>5, AppendedAppends
<1>7. QED
  BY <1>6 DEF d

(* Edits of the upcoming rows. *)

(* What is upcoming starts right behind the cursor of the flat list. *)
LEMMA ShownCursorIs ==
  ASSUME NEW c, WellFormed(c), Showing(c)
  PROVE  FlatCursor(c) = HeardLen(c)
<1>1. CASE c.current = 0
  <2>1. ~Plays(c)
    BY <1>1, PlaysIs
  <2>2. HeardLen(c) = 0
    BY <1>1 DEF HeardLen
  <2>3. FlatCursor(c) = 0
    BY <2>1, CursorIs
  <2>4. QED
    BY <2>2, <2>3
<1>2. CASE c.current # 0
  <2>1. Plays(c)
    BY <1>2 DEF Showing, Plays
  <2>2. QED
    BY <2>1, CursorIs
<1>3. QED
  BY <1>1, <1>2

(* An edit of the upcoming rows leaves the cursor on its place. *)
LEMMA DoesCursor ==
  ASSUME NEW c, WellFormed(c), Showing(c), NEW d, WellFormed(d), d.current = 0 <=> c.current = 0,
         NEW w \in Seq(Tracks), Does(c, d, w)
  PROVE  Joins(FlatTracks(d), Heard(c), w) /\ FlatCursor(d) = FlatCursor(c)
<1>1. UpcomingTracks(d) = w /\ CurrentTrack(d) = CurrentTrack(c)
  BY DEF Does
<1>2. Joins(FlatTracks(d), Heard(c), w)
  BY DoneIsHeard, Zenon DEF Does, Joins
<1>3. Showing(d)
  BY <1>1 DEF Showing
<1>4. Heard(c) \in Seq(Tracks) /\ Len(Heard(c)) = HeardLen(c)
  BY FlatIsHeardAndUpcoming
<1>5. Heard(d) \in Seq(Tracks) /\ Len(Heard(d)) = HeardLen(d) /\ Joins(FlatTracks(d), Heard(d), w)
  BY <1>1, <1>3, FlatIsHeardAndUpcoming
<1>6. Len(FlatTracks(d)) = HeardLen(c) + Len(w) /\ Len(FlatTracks(d)) = HeardLen(d) + Len(w)
  <2>1. Len(FlatTracks(d)) = Len(Heard(c)) + Len(w)
    BY <1>2, <1>4, JoinsIs
  <2>2. Len(FlatTracks(d)) = Len(Heard(d)) + Len(w)
    BY <1>5, JoinsIs
  <2>3. QED
    BY <1>4, <1>5, <2>1, <2>2, Zenon
<1>7. HeardLen(c) \in Nat /\ HeardLen(d) \in Nat
  BY <1>3, UpcomingIsEnd
<1>8. Len(w) \in Nat
  BY LenProperties
<1>9. HeardLen(d) = HeardLen(c)
  BY <1>6, <1>7, <1>8
<1>10. FlatCursor(d) = FlatCursor(c)
  BY <1>3, <1>9, ShownCursorIs, Zenon
<1>11. QED
  BY <1>2, <1>10

TakesAfter(l, p, m) == \E i \in (p + 1)..Len(l) : m = RemoveAt(l, i)
MovesAfter(l, p, m) == \E i, j \in (p + 1)..Len(l) : m = InsertAt(RemoveAt(l, i), j, l[i])

(* remove_upcoming_track takes one track behind the cursor. *)
LEMMA TakeUpcomingTakes ==
  ASSUME NEW c, WellFormed(c), NEW r \in DOMAIN Upcoming(c),
         NEW d, d = TakeUpcoming(c, Upcoming(c)[r])
  PROVE  TakesAfter(FlatTracks(c), FlatCursor(c), FlatTracks(d)) /\ FlatCursor(d) = FlatCursor(c)
<1> DEFINE l == FlatTracks(c)
           m == FlatTracks(d)
           h == Heard(c)
           u == UpcomingTracks(c)
           v == RemoveAt(u, r)
<1>1. Showing(c) /\ r \in 1..Len(Upcoming(c))
  BY ShowsRows
<1>2. WellFormed(d)
  BY UpcomingRow, TakeUpcomingWellFormed
<1>3. Does(c, d, v) /\ d.current = c.current
  BY TakeUpcomingDoes
<1>4. h \in Seq(Tracks) /\ u \in Seq(Tracks) /\ Len(u) = Len(Upcoming(c)) /\ Len(h) = HeardLen(c) /\ Joins(l, h, u)
  BY <1>1, FlatIsHeardAndUpcoming
<1>5. FlatCursor(c) = HeardLen(c)
  BY <1>1, ShownCursorIs
<1>6. r \in 1..Len(u)
  BY <1>1, <1>4, Zenon
<1>7. SUFFICES TakesAfter(l, FlatCursor(c), m) /\ FlatCursor(d) = FlatCursor(c)
  OBVIOUS
<1> HIDE DEF h, u
<1>8. v \in Seq(Tracks)
  <2>1. u \in Seq(Tracks)
    BY <1>4
  <2>2. QED
    BY <1>6, <2>1, Removed
<1>9. RemoveAt(h \o u, Len(h) + r) = h \o v
  <2>1. h \in Seq(Tracks) /\ u \in Seq(Tracks)
    BY <1>4
  <2>2. QED
    BY <1>6, <2>1, LaterRemoved
<1> HIDE DEF v
<1>10. Joins(m, h, v) /\ FlatCursor(d) = FlatCursor(c)
  BY <1>1, <1>2, <1>3, <1>8, DoesCursor DEF h
<1> DEFINE i == Len(h) + r
<1>11. m = RemoveAt(l, i)
  BY <1>4, <1>9, <1>10, Zenon DEF Joins
<1>12. i \in (FlatCursor(c) + 1)..Len(l)
  <2>1. Len(l) = Len(h) + Len(u)
    BY <1>4, JoinsIs
  <2>2. Len(h) \in Nat /\ Len(u) \in Nat
    BY <1>4, LenProperties
  <2>3. QED
    BY <1>4, <1>5, <1>6, <2>1, <2>2
<1> HIDE DEF i, l, m
<1>13. TakesAfter(l, FlatCursor(c), m)
  BY <1>11, <1>12 DEF TakesAfter
<1>14. QED
  BY <1>10, <1>13

(* Putting an element into the second of two joined lists, wherever it goes. *)
InsertsLater(S, s, t) ==
  \A k \in 1..(Len(t) + 1) : \A e \in S :
    InsertAt(s \o t, Len(s) + k, e) = s \o InsertAt(t, k, e)

LEMMA LaterInsertedAt ==
  ASSUME NEW S, NEW s \in Seq(S), NEW t \in Seq(S)
  PROVE  InsertsLater(S, s, t)
BY LaterInserted, SMTT(30) DEF InsertsLater

(* A move among the upcoming tracks is a move behind the cursor. *)
LEMMA MovesAfterIs ==
  ASSUME NEW S, NEW h \in Seq(S), NEW u \in Seq(S), NEW a \in 1..Len(u), NEW b \in 1..Len(u)
  PROVE  /\ InsertAt(RemoveAt(u, a), b, u[a]) \in Seq(S)
         /\ \A l, m : Joins(l, h, u) /\ Joins(m, h, InsertAt(RemoveAt(u, a), b, u[a]))
                      => MovesAfter(l, Len(h), m)
<1>1. PICK v \in Seq(S) : v = RemoveAt(u, a) /\ Len(v) = Len(u) - 1
  BY Removed
<1>2. PICK x \in S : x = u[a]
  BY ElementOfSeq
<1>3. RemoveAt(h \o u, Len(h) + a) = h \o v
  BY <1>1, LaterRemoved
<1>4. b \in 1..(Len(v) + 1)
  BY <1>1, LenProperties
<1>5. \A k \in 1..(Len(v) + 1) : \A e \in S : InsertAt(h \o v, Len(h) + k, e) = h \o InsertAt(v, k, e)
  <2>1. h \in Seq(S) /\ v \in Seq(S)
    OBVIOUS
  <2>2. InsertsLater(S, h, v)
    BY <2>1, LaterInsertedAt, Zenon
  <2>3. QED
    BY <2>2, Zenon DEF InsertsLater
<1>6. InsertAt(h \o v, Len(h) + b, x) = h \o InsertAt(v, b, x)
  BY <1>4, <1>5, Zenon
<1>7. InsertAt(v, b, x) \in Seq(S)
  BY <1>4, Inserted
<1> DEFINE w == InsertAt(v, b, x)
           i == Len(h) + a
           j == Len(h) + b
<1>8. ASSUME NEW l, NEW m, Joins(l, h, u), Joins(m, h, w) PROVE MovesAfter(l, Len(h), m)
  <2>1. l[i] = u[a] /\ Len(l) = Len(h) + Len(u)
    BY <1>8, JoinsIs
  <2>2. Len(h) \in Nat /\ Len(u) \in Nat
    BY LenProperties
  <2>3. i \in (Len(h) + 1)..Len(l) /\ j \in (Len(h) + 1)..Len(l)
    BY <2>1, <2>2
  <2>4. m = InsertAt(RemoveAt(l, i), j, l[i])
    BY <1>2, <1>3, <1>6, <1>8, <2>1, Zenon DEF Joins
  <2> HIDE DEF i, j, w
  <2>5. QED
    BY <2>3, <2>4 DEF MovesAfter
<1>9. QED
  BY <1>1, <1>2, <1>7, <1>8, Zenon

(* move_upcoming_track. *)
LEMMA MoveUpcomingMoves ==
  ASSUME NEW c, WellFormed(c), NEW a \in DOMAIN Upcoming(c), NEW b \in DOMAIN Upcoming(c),
         NEW d, d = MoveUpcoming(c, a, b)
  PROVE  MovesAfter(FlatTracks(c), FlatCursor(c), FlatTracks(d)) /\ FlatCursor(d) = FlatCursor(c)
<1> DEFINE h == Heard(c)
           u == UpcomingTracks(c)
<1>1. Showing(c) /\ a \in 1..Len(Upcoming(c)) /\ b \in 1..Len(Upcoming(c))
  BY ShowsRows
<1>2. WellFormed(d)
  BY MoveUpcomingWellFormed
<1>3. PICK w : w = InsertAt(RemoveAt(u, a), b, u[a])
  OBVIOUS
<1>4. Does(c, d, w)
  BY <1>3, MoveUpcomingDoes, Zenon
<1>5. d.current = c.current
  <2> DEFINE left == TakeUpcoming(c, Upcoming(c)[a])
  <2>1. left.current = c.current
    BY TakeUpcomingDoes
  <2> HIDE DEF left
  <2>2. Put(left, b, UpcomingTracks(c)[a], d)
    BY MoveIsPut DEF left
  <2>3. d.current = left.current
    BY <2>2 DEF Put
  <2>4. QED
    BY <2>1, <2>3
<1>6. /\ h \in Seq(Tracks) /\ u \in Seq(Tracks) /\ Len(u) = Len(Upcoming(c)) /\ Len(h) = HeardLen(c)
      /\ Joins(FlatTracks(c), h, u)
  BY <1>1, FlatIsHeardAndUpcoming
<1>7. FlatCursor(c) = Len(h)
  BY <1>1, <1>6, ShownCursorIs, Zenon
<1>8. a \in 1..Len(u) /\ b \in 1..Len(u)
  BY <1>1, <1>6, Zenon
<1> HIDE DEF h, u
<1>9. h \in Seq(Tracks) /\ u \in Seq(Tracks) /\ Joins(FlatTracks(c), h, u)
  BY <1>6
<1>10. w \in Seq(Tracks) /\ \A m : Joins(m, h, w) => MovesAfter(FlatTracks(c), Len(h), m)
  <2>1. ASSUME NEW y \in 1..Len(u), NEW z \in 1..Len(u)
        PROVE  /\ InsertAt(RemoveAt(u, y), z, u[y]) \in Seq(Tracks)
               /\ \A l, m : Joins(l, h, u) /\ Joins(m, h, InsertAt(RemoveAt(u, y), z, u[y]))
                            => MovesAfter(l, Len(h), m)
    BY <1>9, MovesAfterIs
  <2>2. QED
    BY <1>3, <1>8, <1>9, <2>1, Zenon DEF u
<1>11. w \in Seq(Tracks)
  BY <1>10
<1>12. Joins(FlatTracks(d), h, w) /\ FlatCursor(d) = FlatCursor(c)
  BY <1>1, <1>2, <1>4, <1>5, <1>11, DoesCursor DEF h
<1>13. QED
  BY <1>7, <1>10, <1>12, Zenon

-----------------------------------------------------------------------------
(* Scheduling an album next. *)

Pasted(s, k, x) == SubSeq(s, 1, k) \o x \o SubSeq(s, k + 1, Len(s))

Schedules(l, p, m) ==
  \E k \in 0..Len(l) :
    /\ Len(m) - Len(l) > 0
    /\ p # 0 => k = p
    /\ m = Pasted(l, k, SubSeq(m, k + 1, k + (Len(m) - Len(l))))

(* What a list is made of after a block went into it. *)
LEMMA PastedIs ==
  ASSUME NEW S, NEW l, NEW m, NEW h \in Seq(S), NEW a \in Seq(S),
         NEW u \in Seq(S), Joins(l, h, u), Joins(m, h, a \o u)
  PROVE  m = Pasted(l, Len(h), a)
<1>1. l \in Seq(S)
  BY JoinsIs
<1>2. SubSeq(l, 1, Len(h)) = h /\ SubSeq(l, Len(h) + 1, Len(l)) = u
  BY <1>1, HalvesAre
<1>3. (h \o a) \o u = h \o (a \o u)
  <2>1. Joins((h \o a) \o u, h, a \o u)
    BY ThreeJoined
  <2>2. QED
    BY <2>1, Zenon DEF Joins
<1>4. Pasted(l, Len(h), a) = (h \o a) \o u
  BY <1>2, Zenon DEF Pasted
<1>5. QED
  BY <1>3, <1>4, Zenon DEF Joins

(* A block put behind the cursor is scheduled next. *)
LEMMA SchedulesIs ==
  ASSUME NEW S, NEW l, NEW m, NEW h \in Seq(S), NEW a \in Seq(S), NEW u \in Seq(S), a # <<>>,
         Joins(l, h, u), Joins(m, h, a \o u), NEW p, p # 0 => p = Len(h)
  PROVE  Schedules(l, p, m)
<1> DEFINE k == Len(h)
<1>1. l \in Seq(S) /\ Len(l) = k + Len(u) /\ k \in Nat /\ Len(u) \in Nat /\ Len(a) \in Nat /\ Len(a) # 0
  <2>1. l \in Seq(S) /\ Len(l) = k + Len(u)
    BY JoinsIs
  <2>2. k \in Nat /\ Len(u) \in Nat /\ Len(a) \in Nat /\ Len(a) # 0
    BY EmptySeq, LenProperties
  <2>3. QED
    BY <2>1, <2>2
<1>2. m \in Seq(S)
  <2>1. a \o u \in Seq(S)
    BY Joined
  <2>2. QED
    BY <2>1, JoinsIs
<1>3. Len(m) = k + Len(a) + Len(u) /\ SubSeq(m, k + 1, k + Len(a)) = a
  BY <1>2, ThirdsAre
<1> HIDE DEF k
<1>4. Len(m) - Len(l) = Len(a) /\ Len(m) - Len(l) > 0 /\ k \in 0..Len(l)
  BY <1>1, <1>3
<1>5. m = Pasted(l, k, a)
  BY PastedIs DEF k
<1>6. m = Pasted(l, k, SubSeq(m, k + 1, k + (Len(m) - Len(l))))
  BY <1>3, <1>4, <1>5, Zenon
<1>7. p # 0 => k = p
  BY DEF k
<1>8. QED
  BY <1>4, <1>6, <1>7, Zenon DEF Schedules

(* enqueue_next, which may split the current album to make room. *)
LEMMA EnqueueNextSchedules ==
  ASSUME NEW c, WellFormed(c), NEW album \in Seq(Tracks), album # <<>>,
         NEW d, d = EnqueueNext(c, album)
  PROVE  Schedules(FlatTracks(c), FlatCursor(c), FlatTracks(d)) /\ FlatCursor(d) = FlatCursor(c)
<1>1. WellFormed(d)
  BY EnqueueNextWellFormed
<1>2. d.current = c.current
  BY EnqueueNextIs
<1>3. CASE Showing(c)
  <2> DEFINE h == Heard(c)
             u == UpcomingTracks(c)
             w == album \o u
  <2>1. h \in Seq(Tracks) /\ u \in Seq(Tracks) /\ Len(h) = HeardLen(c) /\ Joins(FlatTracks(c), h, u)
    BY <1>3, FlatIsHeardAndUpcoming
  <2>2. Does(c, d, w)
    BY <1>3, EnqueueNextDoes
  <2>3. FlatCursor(c) = Len(h)
    BY <1>3, <2>1, ShownCursorIs
  <2> HIDE DEF h, u
  <2>4. w \in Seq(Tracks)
    BY <2>1, Joined
  <2> HIDE DEF w
  <2>5. Joins(FlatTracks(d), h, w) /\ FlatCursor(d) = FlatCursor(c)
    BY <1>1, <1>2, <1>3, <2>2, <2>4, DoesCursor DEF h
  <2>6. Joins(FlatTracks(d), h, album \o u)
    BY <2>5 DEF w
  <2>7. h \in Seq(Tracks) /\ u \in Seq(Tracks) /\ Joins(FlatTracks(c), h, u)
    BY <2>1
  <2>8. Schedules(FlatTracks(c), FlatCursor(c), FlatTracks(d))
    BY <2>3, <2>6, <2>7, SchedulesIs
  <2>9. QED
    BY <2>5, <2>8
<1>4. CASE ~Showing(c)
  <2> DEFINE cur == c.current
             s == Lists(c)
             p == cur + 1
             new == NewItem(album)
  <2>1. ~Plays(c) /\ cur # 0 /\ cur \in DOMAIN c.items /\ cur \in 1..Len(c.items)
    BY <1>4, PlaysIs DEF Showing, Plays
  <2>2. ~Splits(c)
    BY <2>1, PlaysIs, ItemFacts DEF Splits
  <2>3. d.items = InsertAt(c.items, p, new)
    <3>1. Behind(c) = p
      BY <2>1 DEF Behind
    <3>2. EnqueueNext(c, album).items = InsertAt(c.items, Behind(c), new)
      BY <2>2, EnqueueNextIs
    <3>3. QED
      BY <3>1, <3>2
  <2>4. new \in Stocked /\ new.tracks = album
    BY NewItemStocked DEF NewItem
  <2>5. c.items \in Seq(Stocked) /\ p \in 1..(Len(c.items) + 1)
    BY <2>1, Facts
  <2> HIDE DEF new
  <2>6. /\ TracksOf(d.items) = InsertAt(s, p, album)
        /\ Len(d.items) = Len(c.items) + 1 /\ \A j \in 1..(p - 1) : d.items[j] = c.items[j]
    <3> HIDE DEF p
    <3>1. TracksOf(InsertAt(c.items, p, new)) = InsertAt(TracksOf(c.items), p, new.tracks)
      BY <2>4, <2>5, TracksOfInserted
    <3>2. TracksOf(c.items) = s
      BY DEF TracksOf, Lists
    <3>3. /\ Len(InsertAt(c.items, p, new)) = Len(c.items) + 1
          /\ \A j \in 1..(p - 1) : InsertAt(c.items, p, new)[j] = c.items[j]
      BY <2>4, <2>5, Inserted
    <3>4. QED
      BY <2>3, <2>4, <3>1, <3>2, <3>3, Zenon
  <2>7. FlatCursor(d) = FlatCursor(c)
    <3>1. cur \in 1..Len(d.items) /\ \A j \in 1..cur : d.items[j] = c.items[j]
      BY <2>1, <2>6, Facts
    <3>2. KeptThrough(c, d.items)
      BY <3>1 DEF KeptThrough
    <3>3. QED
      BY <1>1, <1>2, <3>2, KeptCursor
  <2> DEFINE h == FlattenSeq(SubSeq(s, 1, cur))
             u == FlattenSeq(SubSeq(s, cur + 1, Len(s)))
  <2>8. s \in Seq(Seq(Tracks)) /\ cur \in Nat /\ cur <= Len(s)
    BY <2>1, ListsFacts
  <2>9. FlatTracks(c) = FlattenSeq(s) /\ FlatTracks(d) = FlattenSeq(InsertAt(s, p, album))
    <3>1. FlatTracks(d) = FlattenSeq(TracksOf(d.items))
      BY <1>1, FlatTracksType DEF Lists, TracksOf
    <3>2. QED
      BY <2>6, <3>1, FlatTracksType
  <2> HIDE DEF cur, s
  <2>10. h \in Seq(Tracks) /\ u \in Seq(Tracks) /\ FlattenSeq(s) = h \o u
    BY <2>8, FlattenHalves
  <2>11. FlattenSeq(InsertAt(s, cur + 1, album)) = h \o (album \o u)
    BY <2>8, FlattenInserted
  <2> HIDE DEF h, u
  <2>12. Joins(FlatTracks(c), h, u) /\ Joins(FlatTracks(d), h, album \o u)
    BY <2>9, <2>10, <2>11, Zenon DEF Joins
  <2>13. FlatCursor(c) = 0
    BY <2>1, CursorIs
  <2>14. Schedules(FlatTracks(c), FlatCursor(c), FlatTracks(d))
    <3>1. h \in Seq(Tracks) /\ u \in Seq(Tracks)
      BY <2>10
    <3>2. QED
      BY <2>12, <2>13, <3>1, SchedulesIs
  <2>15. QED
    BY <2>7, <2>14
<1>5. QED
  BY <1>3, <1>4

(* Where the lists begin after one of them is gone. *)
LEMMA BeginRemoved ==
  ASSUME NEW A, NEW s \in Seq(Seq(A)), NEW x \in 1..Len(s), NEW y \in (x + 1)..(Len(s) + 1)
  PROVE  /\ Begin(RemoveAt(s, x), y - 1) = Begin(s, y) - Len(s[x])
         /\ Begin(RemoveAt(s, x), x) = Begin(s, x)
<1> DEFINE n == y - 1
           P == SubSeq(s, 1, n)
           R == SubSeq(s, n + 1, Len(s))
           t == RemoveAt(s, x)
           Q == RemoveAt(P, x)
<1>1. n \in Nat /\ n <= Len(s) /\ x \in 1..n /\ y = n + 1 /\ Len(s) \in Nat /\ y - 1 = n /\ x \in Nat
  BY LenProperties
<1> HIDE DEF n
<1>2. P \in Seq(Seq(A)) /\ R \in Seq(Seq(A)) /\ Len(P) = n /\ P \o R = s
  BY <1>1, Halves
<1>3. P[x] = s[x]
  <2>1. 1 \in 1..(Len(s) + 1) /\ n \in (1 - 1)..Len(s) /\ n - 1 + 1 = n /\ x \in 1..(n - 1 + 1) /\ 1 + x - 1 = x
    BY <1>1
  <2>2. \A j \in 1..(n - 1 + 1) : P[j] = s[1 + j - 1]
    BY <2>1, Piece
  <2>3. QED
    BY <2>1, <2>2
<1>4. t \in Seq(Seq(A)) /\ Len(t) = Len(s) - 1 /\ SameUpTo(s, t, x - 1)
  BY Removed DEF SameUpTo
<1> HIDE DEF P, R
<1>5. P \in Seq(Seq(A)) /\ R \in Seq(Seq(A)) /\ x \in 1..Len(P)
  BY <1>1, <1>2
<1>6. Q \in Seq(Seq(A)) /\ Len(Q) = Len(P) - 1
  BY <1>5, Removed
<1>7. RemoveAt(P \o R, x) = Q \o R
  BY <1>5, EarlierRemoved
<1> DEFINE h == FlattenSeq(SubSeq(P, 1, x - 1))
           g == FlattenSeq(SubSeq(P, x + 1, Len(P)))
<1>8. FlattenSeq(Q) = h \o g
  BY <1>5, FlattenRemoved
<1>9. h \in Seq(A) /\ g \in Seq(A) /\ P[x] \in Seq(A) /\ FlattenSeq(P) = h \o (P[x] \o g)
  BY <1>5, FlattenAround
<1> HIDE DEF Q, h, g, t
<1>10. SubSeq(t, 1, n - 1) = Q
  <2>1. Joins(t, Q, R)
    BY <1>2, <1>7, Zenon DEF Joins, t
  <2>2. t \in Seq(Seq(A)) /\ Q \in Seq(Seq(A)) /\ R \in Seq(Seq(A))
    BY <1>4, <1>5, <1>6
  <2>3. SubSeq(t, 1, Len(Q)) = Q
    BY <2>1, <2>2, HalvesAre
  <2>4. Len(Q) = n - 1
    BY <1>2, <1>6
  <2>5. QED
    BY <2>3, <2>4, Zenon
<1>11. Begin(t, n) = Len(h \o g)
  BY <1>8, <1>10, Zenon DEF Begin
<1>12. Begin(s, y) = Len(h \o (P[x] \o g))
  <2>1. Begin(s, y) = Len(FlattenSeq(SubSeq(s, 1, n)))
    BY <1>1, Zenon DEF Begin
  <2>2. QED
    BY <1>9, <2>1, Zenon DEF P
<1>13. /\ Len(h \o g) = Len(h) + Len(g) /\ Len(h \o (P[x] \o g)) = Len(h) + (Len(P[x]) + Len(g))
       /\ Len(h) \in Nat /\ Len(g) \in Nat /\ Len(P[x]) \in Nat
  <2> DEFINE z == P[x] \o g
  <2>1. z \in Seq(A) /\ Len(z) = Len(P[x]) + Len(g)
    BY <1>9, Joined
  <2> HIDE DEF z
  <2>2. Len(h \o z) = Len(h) + Len(z) /\ Len(h) \in Nat
    BY <1>9, <2>1, Joined
  <2>3. Len(h \o g) = Len(h) + Len(g) /\ Len(g) \in Nat
    BY <1>9, Joined
  <2>4. Len(P[x]) \in Nat
    BY <1>9, LenProperties
  <2>5. Len(h \o z) = Len(h) + (Len(P[x]) + Len(g))
    BY <2>1, <2>2, Zenon
  <2>6. QED
    BY <2>2, <2>3, <2>4, <2>5 DEF z
<1>14. Begin(t, n) = Begin(s, y) - Len(s[x])
  <2>1. Len(P[x]) = Len(s[x])
    BY <1>3, Zenon
  <2>2. Begin(t, n) = Len(h) + Len(g)
    BY <1>11, <1>13, Zenon
  <2>3. Begin(s, y) = Len(h) + (Len(P[x]) + Len(g))
    BY <1>12, <1>13, Zenon
  <2> DEFINE a == Len(h)
             b == Len(g)
             e == Len(P[x])
  <2>4. a \in Nat /\ b \in Nat /\ e \in Nat
    BY <1>13
  <2> HIDE DEF a, b, e
  <2>5. (a + (e + b)) - e = a + b
    BY <2>4
  <2>6. Begin(t, n) = Begin(s, y) - e
    BY <2>2, <2>3, <2>5, Zenon DEF a, b, e
  <2>7. QED
    BY <2>1, <2>6, Zenon DEF e
<1>15. Begin(t, x) = Begin(s, x)
  <2>1. x \in 1..(Len(s) + 1) /\ x <= Len(t) + 1
    BY <1>1, <1>4
  <2>2. t \in Seq(Seq(A))
    BY <1>4
  <2>3. QED
    BY <1>4, <2>1, <2>2, BeginAlike
<1>16. QED
  BY <1>1, <1>14, <1>15, Zenon DEF t

-----------------------------------------------------------------------------
(* A block of the list is taken out. *)

Kept(l, i, j) == SubSeq(l, 1, i - 1) \o SubSeq(l, j + 1, Len(l))

CursorAfterCut(p, i, j, m, q) ==
  CASE p # 0 /\ p < i -> q = p
    [] p > j          -> q = p - (j - i + 1)
    [] p \in i..j     -> IF i <= Len(m) THEN q = i ELSE q \in 0..Len(m)
    [] p = 0          -> q \in 0..Len(m)

Cuts(l, p, m, q) ==
  \E i, j \in 1..Len(l) : i <= j /\ m = Kept(l, i, j) /\ CursorAfterCut(p, i, j, m, q)

(* The tracks of list x, and what is left without them. *)
BlockOf(s, x, l, i, j) ==
  /\ i \in 1..Len(l) /\ j \in 1..Len(l) /\ i <= j
  /\ SubSeq(l, i, j) = s[x]
  /\ FlattenSeq(RemoveAt(s, x)) = Kept(l, i, j)
  /\ Len(FlattenSeq(RemoveAt(s, x))) = Len(l) - Len(s[x])
  /\ x = Len(s) => Len(FlattenSeq(RemoveAt(s, x))) = Begin(s, x)

(* The tracks of an album are a block of the flat list. *)
LEMMA BlockIs ==
  ASSUME NEW A, NEW s \in Seq(Seq(A)), NEW x \in 1..Len(s), s[x] # <<>>,
         NEW l, l = FlattenSeq(s), NEW i, i = Begin(s, x) + 1, NEW j, j = Begin(s, x) + Len(s[x])
  PROVE  BlockOf(s, x, l, i, j)
<1> DEFINE h == FlattenSeq(SubSeq(s, 1, x - 1))
           g == FlattenSeq(SubSeq(s, x + 1, Len(s)))
           b == s[x]
<1>1. h \in Seq(A) /\ g \in Seq(A) /\ b \in Seq(A) /\ FlattenSeq(s) = h \o (b \o g)
  BY FlattenAround
<1>2. FlattenSeq(RemoveAt(s, x)) = h \o g
  BY FlattenRemoved
<1>3. Begin(s, x) = Len(h)
  BY DEF Begin
<1>4. x = Len(s) => g = <<>>
  <2>1. SUFFICES ASSUME x = Len(s) PROVE g = <<>>
    OBVIOUS
  <2>2. Len(s) \in Nat
    BY LenProperties
  <2>3. SubSeq(s, x + 1, Len(s)) = <<>>
    BY <2>1, <2>2, SubSeqEmpty
  <2>4. QED
    BY <2>3, FlattenNone
<1>5. Len(b) # 0
  BY <1>1, EmptySeq
<1> HIDE DEF h, g, b
<1>6. Joins(l, h, b \o g)
  BY <1>1, Zenon DEF Joins
<1>7. l \in Seq(A)
  BY FlattenType
<1>8. /\ Len(l) = Len(h) + Len(b) + Len(g) /\ Len(h) \in Nat /\ Len(b) \in Nat /\ Len(g) \in Nat
      /\ SubSeq(l, 1, Len(h)) = h
      /\ SubSeq(l, Len(h) + 1, Len(h) + Len(b)) = b
      /\ SubSeq(l, Len(h) + Len(b) + 1, Len(l)) = g
  <2>1. h \in Seq(A) /\ b \in Seq(A) /\ g \in Seq(A)
    BY <1>1
  <2>2. Thirds(l, h, b, g)
    BY <1>6, <1>7, <2>1, ThirdsHold
  <2>3. QED
    BY <2>2, Zenon DEF Thirds
<1>9. i = Len(h) + 1 /\ j = Len(h) + Len(b)
  BY <1>3, Zenon DEF b
<1>10. i - 1 = Len(h)
  BY <1>8, <1>9
<1>11. SubSeq(l, i, j) = b
  BY <1>8, <1>9, Zenon
<1>12. FlattenSeq(RemoveAt(s, x)) = Kept(l, i, j)
  BY <1>2, <1>8, <1>9, <1>10, Zenon DEF Kept
<1>13. Len(h \o g) = Len(h) + Len(g)
  BY <1>1, Joined
<1>14. Len(FlattenSeq(RemoveAt(s, x))) = Len(l) - Len(b)
  BY <1>2, <1>8, <1>13
<1>15. x = Len(s) => Len(FlattenSeq(RemoveAt(s, x))) = Begin(s, x)
  <2>1. SUFFICES ASSUME x = Len(s) PROVE Len(FlattenSeq(RemoveAt(s, x))) = Begin(s, x)
    OBVIOUS
  <2>2. Len(g) = 0
    BY <1>4, <2>1
  <2>3. Len(h) \in Nat
    BY <1>8, Zenon
  <2>4. Len(h) + Len(g) = Len(h)
    BY <2>2, <2>3
  <2>5. QED
    BY <1>2, <1>3, <1>13, <2>4, Zenon
<1>16. i \in 1..Len(l) /\ j \in 1..Len(l) /\ i <= j
  BY <1>5, <1>8, <1>9
<1>17. QED
  BY <1>11, <1>12, <1>14, <1>15, <1>16, Zenon DEF b, BlockOf

(* A track before the block, in it and behind it. *)
LEMMA CursorAround ==
  ASSUME NEW c, WellFormed(c), Plays(c), NEW x \in DOMAIN c.items,
         NEW i, i = Begin(Lists(c), x) + 1, NEW j, j = Begin(Lists(c), x) + Len(Lists(c)[x]),
         NEW p, p = FlatCursor(c)
  PROVE  /\ p \in Nat /\ p # 0 /\ i \in Nat /\ j \in Nat /\ i <= j
         /\ c.current < x => p < i
         /\ c.current > x => p > j
         /\ c.current = x => p \in i..j /\ p = i - 1 + c.items[x].at
<1> DEFINE s == Lists(c)
           cur == c.current
           at == c.items[cur].at
<1>1. s \in Seq(Seq(Tracks)) /\ Len(s) = Len(c.items) /\ x \in 1..Len(s) /\ s[x] = c.items[x].tracks
  BY ListsFacts, Facts
<1>2. /\ cur \in DOMAIN c.items /\ cur \in 1..Len(s) /\ at \in 1..Len(c.items[cur].tracks)
      /\ s[cur] = c.items[cur].tracks
  BY <1>1, PlaysIs, ListsFacts
<1>3. p = Begin(s, cur) + at
  BY CursorIs
<1>4. Len(s[x]) \in Nat /\ Len(s[x]) >= 1
  BY <1>1, ItemFacts
<1>5. cur \in Nat /\ x \in Nat /\ Len(s) \in Nat
  BY <1>1, <1>2, Facts
<1> HIDE DEF s, cur
<1>6. /\ Begin(s, x) \in Nat /\ Begin(s, cur) \in Nat
      /\ Begin(s, x + 1) = Begin(s, x) + Len(s[x]) /\ Begin(s, cur + 1) = Begin(s, cur) + Len(s[cur])
      /\ Len(s[cur]) \in Nat
  <2>1. s \in Seq(Seq(Tracks))
    BY <1>1
  <2>2. QED
    BY <1>1, <1>2, <2>1, BeginIs
<1>7. at \in 1..Len(s[cur])
  BY <1>2, Zenon
<1>8. cur < x => Begin(s, cur + 1) <= Begin(s, x)
  <2>1. SUFFICES ASSUME cur < x PROVE Begin(s, cur + 1) <= Begin(s, x)
    OBVIOUS
  <2>2. x \in 1..Len(s) /\ cur \in 1..Len(s)
    BY <1>1, <1>2, Zenon
  <2>3. x \in 1..(Len(s) + 1) /\ cur + 1 \in 1..x
    BY <1>5, <2>1, <2>2
  <2>4. s \in Seq(Seq(Tracks))
    BY <1>1, Zenon
  <2>5. QED
    BY <2>3, <2>4, BeginOrder
<1>9. cur > x => Begin(s, x + 1) <= Begin(s, cur)
  <2>1. SUFFICES ASSUME cur > x PROVE Begin(s, x + 1) <= Begin(s, cur)
    OBVIOUS
  <2>2. x \in 1..Len(s) /\ cur \in 1..Len(s)
    BY <1>1, <1>2, Zenon
  <2>3. cur \in 1..(Len(s) + 1) /\ x + 1 \in 1..cur
    BY <1>5, <2>1, <2>2
  <2>4. s \in Seq(Seq(Tracks))
    BY <1>1, Zenon
  <2>5. QED
    BY <2>3, <2>4, BeginOrder
<1> DEFINE B == Begin(s, x)
           C == Begin(s, cur)
           X == Len(s[x])
           Y == Len(s[cur])
<1>10. i = B + 1 /\ j = B + X /\ p = C + at /\ B \in Nat /\ C \in Nat /\ at \in Nat /\ at >= 1 /\ at <= Y
      /\ X \in Nat /\ X >= 1 /\ Y \in Nat
  BY <1>3, <1>4, <1>6, <1>7 DEF s
<1>11. cur < x => C + Y <= B
  BY <1>6, <1>8
<1>12. cur > x => B + X <= C
  BY <1>6, <1>9
<1>13. cur = x => B = C /\ X = Y /\ at = c.items[x].at
  OBVIOUS
<1> HIDE DEF B, C, at, X, Y
<1>14. /\ p \in Nat /\ p # 0 /\ i \in Nat /\ j \in Nat /\ i <= j
       /\ cur < x => p < i
       /\ cur > x => p > j
       /\ cur = x => p \in i..j /\ p = i - 1 + c.items[x].at
  <2>1. /\ p \in Nat /\ p # 0 /\ i \in Nat /\ j \in Nat /\ i <= j
        /\ cur < x => p < i
        /\ cur > x => p > j
    BY <1>10, <1>11, <1>12
  <2>2. cur = x => p \in i..j /\ p = i - 1 + at
    <3>1. SUFFICES ASSUME cur = x PROVE p \in i..j /\ p = i - 1 + at
      OBVIOUS
    <3>2. B = C /\ X = Y
      BY <1>13, <3>1
    <3>3. QED
      BY <1>10, <3>2
  <2>3. QED
    BY <1>13, <2>1, <2>2
<1>15. QED
  BY <1>14 DEF cur

(* Queue::remove, album by album. *)
LEMMA CursorAfterCutIs ==
  ASSUME NEW p \in Nat, NEW i \in Nat, NEW j \in Nat, i >= 1, i <= j, NEW m, NEW q
  PROVE  /\ p # 0 /\ p < i /\ q = p => CursorAfterCut(p, i, j, m, q)
         /\ p > j /\ q = p - (j - i + 1) => CursorAfterCut(p, i, j, m, q)
         /\ p \in i..j /\ i <= Len(m) /\ q = i => CursorAfterCut(p, i, j, m, q)
         /\ p \in i..j /\ ~(i <= Len(m)) /\ q \in 0..Len(m) => CursorAfterCut(p, i, j, m, q)
         /\ p = 0 /\ q \in 0..Len(m) => CursorAfterCut(p, i, j, m, q)
<1>1. ASSUME p # 0 /\ p < i /\ q = p PROVE CursorAfterCut(p, i, j, m, q)
  <2>1. p # 0 /\ p < i /\ ~(p > j) /\ ~(p \in i..j) /\ ~(p = 0)
    BY <1>1
  <2>2. QED
    BY <1>1, <2>1, Zenon DEF CursorAfterCut
<1>2. ASSUME p > j /\ q = p - (j - i + 1) PROVE CursorAfterCut(p, i, j, m, q)
  <2>1. ~(p # 0 /\ p < i) /\ p > j /\ ~(p \in i..j) /\ ~(p = 0)
    BY <1>2
  <2>2. QED
    BY <1>2, <2>1, Zenon DEF CursorAfterCut
<1>3. ASSUME p \in i..j /\ i <= Len(m) /\ q = i PROVE CursorAfterCut(p, i, j, m, q)
  <2>1. ~(p # 0 /\ p < i) /\ ~(p > j) /\ ~(p = 0)
    BY <1>3
  <2>2. QED
    BY <1>3, <2>1, Zenon DEF CursorAfterCut
<1>4. ASSUME p \in i..j /\ ~(i <= Len(m)) /\ q \in 0..Len(m) PROVE CursorAfterCut(p, i, j, m, q)
  <2>1. ~(p # 0 /\ p < i) /\ ~(p > j) /\ ~(p = 0)
    BY <1>4
  <2>2. QED
    BY <1>4, <2>1, Zenon DEF CursorAfterCut
<1>5. ASSUME p = 0 /\ q \in 0..Len(m) PROVE CursorAfterCut(p, i, j, m, q)
  <2>1. ~(p # 0 /\ p < i) /\ ~(p > j) /\ ~(p \in i..j)
    BY <1>5
  <2>2. QED
    BY <1>5, <2>1, Zenon DEF CursorAfterCut
<1>6. QED
  BY <1>1, <1>2, <1>3, <1>4, <1>5

(* Removing an album cuts its block out of the flat list. *)
LEMMA RemoveAlbumCuts ==
  ASSUME NEW c, WellFormed(c), NEW x \in DOMAIN c.items, NEW d, d = RemoveAlbum(c, x)
  PROVE  Cuts(FlatTracks(c), FlatCursor(c), FlatTracks(d), FlatCursor(d))
<1> DEFINE s == Lists(c)
           t == Lists(d)
           l == FlatTracks(c)
           m == FlatTracks(d)
           p == FlatCursor(c)
           q == FlatCursor(d)
           B == Begin(s, x)
           n == Len(s[x])
           i == B + 1
           j == B + n
<1>1. WellFormed(d)
  BY RemoveAlbumWellFormed
<1>2. /\ s \in Seq(Seq(Tracks)) /\ Len(s) = Len(c.items) /\ x \in 1..Len(s) /\ s[x] # <<>>
      /\ Len(c.items) \in Nat /\ x \in Nat /\ s[x] = c.items[x].tracks
  BY ListsFacts, Facts, ItemFacts
<1>3. t = RemoveAt(s, x)
  BY RemoveAlbumIs
<1>4. l = FlattenSeq(s) /\ m = FlattenSeq(t)
  BY <1>1, FlatTracksType
<1>5. q \in 0..Len(m) /\ Len(m) \in Nat
  BY <1>1, CursorIs
<1>6. B \in Nat /\ n \in Nat /\ n >= 1
  <2>1. s \in Seq(Seq(Tracks)) /\ x \in 1..Len(s)
    BY <1>2
  <2> HIDE DEF s
  <2>2. B \in Nat /\ n \in Nat
    BY <2>1, BeginIs
  <2>3. n >= 1
    BY <1>2, ItemFacts
  <2>4. QED
    BY <2>2, <2>3
<1>7. /\ i \in 1..Len(l) /\ j \in 1..Len(l) /\ i <= j
      /\ FlattenSeq(t) = Kept(l, i, j)
      /\ x = Len(s) => Len(FlattenSeq(t)) = B
  <2>1. s \in Seq(Seq(Tracks)) /\ x \in 1..Len(s) /\ s[x] # <<>>
    BY <1>2
  <2>2. l = FlattenSeq(s)
    BY <1>4
  <2>3. i = Begin(s, x) + 1 /\ j = Begin(s, x) + Len(s[x])
    OBVIOUS
  <2> HIDE DEF s, l, t, i, j
  <2>4. /\ i \in 1..Len(l) /\ j \in 1..Len(l) /\ i <= j
        /\ FlattenSeq(RemoveAt(s, x)) = Kept(l, i, j)
        /\ x = Len(s) => Len(FlattenSeq(RemoveAt(s, x))) = Begin(s, x)
    <3>1. BlockOf(s, x, l, i, j)
      BY <2>1, <2>2, <2>3, BlockIs
    <3>2. QED
      BY <3>1, Zenon DEF BlockOf
  <2>5. QED
    BY <1>3, <2>4, Zenon
<1>8. SUFFICES CursorAfterCut(p, i, j, m, q)
  <2> HIDE DEF i, j, l, m, p, q
  <2>1. ASSUME CursorAfterCut(p, i, j, m, q) PROVE Cuts(l, p, m, q)
    BY <1>4, <1>7, <2>1 DEF Cuts
  <2>2. QED
    BY <2>1 DEF l, m, p, q
<1>9. i \in Nat /\ j \in Nat /\ i >= 1 /\ i <= j /\ j - i + 1 = n
  BY <1>6
<1>10. CASE ~Plays(c)
  <2>1. p = 0
    BY <1>10, CursorIs
  <2>2. p \in Nat
    BY <2>1
  <2> HIDE DEF i, j, m, p, q
  <2>3. QED
    BY <1>5, <1>9, <2>1, <2>2, CursorAfterCutIs
<1>11. CASE Plays(c)
  <2>1. /\ p \in Nat /\ p # 0
        /\ c.current < x => p < i
        /\ c.current > x => p > j
        /\ c.current = x => p \in i..j /\ p = i - 1 + c.items[x].at
    <3> DEFINE i0 == i
               j0 == j
    <3>1. i0 = Begin(s, x) + 1 /\ j0 = Begin(s, x) + Len(s[x])
      OBVIOUS
    <3> HIDE DEF i0, j0
    <3>2. /\ p \in Nat /\ p # 0
          /\ c.current < x => p < i0
          /\ c.current > x => p > j0
          /\ c.current = x => p \in i0..j0 /\ p = i0 - 1 + c.items[x].at
      BY <1>11, <3>1, CursorAround
    <3>3. QED
      BY <3>2 DEF i0, j0
  <2>2. c.current \in Nat /\ c.current \in 1..Len(s) /\ c.current # 0 /\ c.current \in DOMAIN c.items
    BY <1>2, <1>11, PlaysIs, Facts
  <2>3. CASE c.current < x
    <3>1. d.current = c.current /\ \A y \in 1..(x - 1) : d.items[y] = c.items[y]
      BY <2>3, RemoveAlbumIs
    <3>2. Len(d.items) = Len(c.items) - 1
      <4>1. Len(d.items) = Len(t)
        BY <1>1, ListsFacts
      <4>2. Len(RemoveAt(s, x)) = Len(s) - 1
        <5>1. s \in Seq(Seq(Tracks)) /\ x \in 1..Len(s)
          BY <1>2
        <5> HIDE DEF s
        <5>2. QED
          BY <5>1, Removed
      <4>3. QED
        BY <1>2, <1>3, <4>1, <4>2, Zenon
    <3>3. KeptThrough(c, d.items)
      <4> DEFINE cur == c.current
      <4>1. cur \in Nat /\ cur # 0 /\ cur < x /\ x <= Len(c.items)
        BY <1>2, <2>2, <2>3
      <4> HIDE DEF cur
      <4>2. cur \in 1..Len(d.items) /\ \A y \in 1..cur : y \in 1..(x - 1)
        BY <1>2, <3>2, <4>1
      <4>3. \A y \in 1..cur : d.items[y] = c.items[y]
        BY <3>1, <4>2
      <4>4. QED
        BY <4>2, <4>3 DEF KeptThrough, cur
    <3>4. q = p
      BY <1>1, <3>1, <3>3, KeptCursor
    <3>5. p < i
      BY <2>1, <2>3
    <3> HIDE DEF i, j, m, p, q
    <3>6. QED
      BY <1>9, <2>1, <3>4, <3>5, CursorAfterCutIs
  <2>4. CASE c.current > x
    <3> DEFINE cur == c.current
               e == cur - 1
    <3>1. d.current = e /\ d.items[e] = c.items[cur]
      BY <2>4, RemoveAlbumIs
    <3>2. e # 0
      BY <1>2, <2>2, <2>4
    <3>3. Begin(t, e) = Begin(s, cur) - n
      <4>1. s \in Seq(Seq(Tracks)) /\ x \in 1..Len(s) /\ cur \in (x + 1)..(Len(s) + 1)
        BY <1>2, <2>2, <2>4
      <4> HIDE DEF s, cur, t
      <4>2. Begin(RemoveAt(s, x), cur - 1) = Begin(s, cur) - Len(s[x])
        BY <4>1, BeginRemoved
      <4>3. QED
        BY <1>3, <4>2, Zenon
    <3>4. Plays(d)
      <4>1. c.items[cur].at \in 1..Len(c.items[cur].tracks)
        BY <1>11, PlaysIs
      <4>2. d.current # 0 /\ d.items[d.current].at \in 1..Len(d.items[d.current].tracks)
        BY <3>1, <3>2, <4>1, Zenon
      <4>3. QED
        BY <1>1, <4>2, PlaysIs
    <3>5. p = Begin(s, cur) + c.items[cur].at /\ c.items[cur].at \in Nat
      BY <1>11, <2>2, CursorIs, ItemFacts
    <3>6. q = Begin(t, e) + c.items[cur].at
      <4>1. q = Begin(t, d.current) + d.items[d.current].at
        BY <1>1, <3>4, CursorIs
      <4>2. QED
        BY <3>1, <4>1, Zenon
    <3>7. Begin(s, cur) \in Nat
      <4>1. s \in Seq(Seq(Tracks)) /\ cur \in 1..Len(s)
        BY <1>2, <2>2
      <4> HIDE DEF s, cur
      <4>2. QED
        BY <4>1, BeginIs
    <3>8. q = p - (j - i + 1)
      <4>1. q = p - n
        <5> HIDE DEF p, q, n
        <5>1. QED
          BY <1>6, <3>3, <3>5, <3>6, <3>7
      <4> HIDE DEF i, j, p, q
      <4>2. QED
        BY <1>9, <4>1
    <3>9. p > j
      BY <2>1, <2>4
    <3> HIDE DEF i, j, m, p, q
    <3>10. QED
      BY <1>9, <2>1, <3>8, <3>9, CursorAfterCutIs
  <2>5. CASE c.current = x /\ x < Len(c.items)
    <3>1. d.current = x /\ d.items[x].at = 1
      BY <2>5, RemoveAlbumIs
    <3>2. x \in DOMAIN d.items
      BY <1>1, <1>2, <3>1, Facts
    <3>3. Plays(d)
      <4>1. 1 \in 1..Len(d.items[x].tracks)
        BY <1>1, <3>2, ItemFacts
      <4>2. d.current # 0
        BY <1>2, <3>1
      <4>3. d.items[d.current].at \in 1..Len(d.items[d.current].tracks)
        BY <3>1, <4>1, Zenon
      <4>4. QED
        BY <1>1, <4>2, <4>3, PlaysIs
    <3>4. q = Begin(t, x) + 1
      BY <1>1, <3>1, <3>3, CursorIs
    <3>5. Begin(t, x) = B
      <4>1. s \in Seq(Seq(Tracks)) /\ x \in 1..Len(s) /\ x + 1 \in (x + 1)..(Len(s) + 1)
        BY <1>2
      <4> HIDE DEF s, t
      <4>2. Begin(RemoveAt(s, x), x) = Begin(s, x)
        BY <4>1, BeginRemoved
      <4>3. QED
        BY <1>3, <4>2, Zenon
    <3>6. q = i
      BY <3>4, <3>5
    <3>7. p \in i..j
      BY <2>1, <2>5
    <3> HIDE DEF i, j, m, p, q
    <3>8. i <= Len(m)
      BY <1>5, <3>6
    <3>9. QED
      BY <1>9, <2>1, <3>6, <3>7, <3>8, CursorAfterCutIs
  <2>6. CASE c.current = x /\ ~(x < Len(c.items))
    <3>1. x = Len(s)
      BY <1>2, <2>6
    <3>2. Len(m) = B
      BY <1>4, <1>7, <3>1, Zenon
    <3>3. ~(i <= Len(m))
      BY <1>6, <3>2
    <3>4. p \in i..j
      BY <2>1, <2>6
    <3> HIDE DEF i, j, m, p, q
    <3>5. QED
      BY <1>5, <1>9, <2>1, <3>3, <3>4, CursorAfterCutIs
  <2>7. QED
    BY <1>2, <2>2, <2>3, <2>4, <2>5, <2>6
<1>12. QED
  BY <1>10, <1>11

(* Where the lists begin after one was put among them. *)
LEMMA BeginInserted ==
  ASSUME NEW A, NEW s \in Seq(Seq(A)), NEW x \in 1..(Len(s) + 1), NEW v \in Seq(A),
         NEW y \in 1..(Len(s) + 1)
  PROVE  /\ y >= x => Begin(InsertAt(s, x, v), y + 1) = Begin(s, y) + Len(v)
         /\ y <= x => Begin(InsertAt(s, x, v), y) = Begin(s, y)
<1> DEFINE n == y - 1
           P == SubSeq(s, 1, n)
           R == SubSeq(s, n + 1, Len(s))
           t == InsertAt(s, x, v)
           Q == InsertAt(P, x, v)
<1>1. n \in Nat /\ n <= Len(s) /\ y = n + 1 /\ Len(s) \in Nat /\ (y + 1) - 1 = n + 1
  BY LenProperties
<1> HIDE DEF n
<1>2. P \in Seq(Seq(A)) /\ R \in Seq(Seq(A)) /\ Len(P) = n /\ P \o R = s
  BY <1>1, Halves
<1>3. t \in Seq(Seq(A)) /\ Len(t) = Len(s) + 1 /\ SameUpTo(s, t, x - 1)
  BY Inserted DEF SameUpTo
<1> HIDE DEF P, R, t
<1>4. ASSUME y >= x PROVE Begin(t, y + 1) = Begin(s, y) + Len(v)
  <2>1. P \in Seq(Seq(A)) /\ R \in Seq(Seq(A)) /\ x \in 1..(Len(P) + 1)
    BY <1>1, <1>2, <1>4
  <2>2. Q \in Seq(Seq(A)) /\ Len(Q) = Len(P) + 1
    BY <2>1, Inserted
  <2>3. InsertAt(P \o R, x, v) = Q \o R
    BY <2>1, EarlierInserted
  <2> DEFINE m == x - 1
             h == FlattenSeq(SubSeq(P, 1, m))
             g == FlattenSeq(SubSeq(P, m + 1, Len(P)))
  <2>4. m \in Nat /\ m <= Len(P) /\ m + 1 = x
    BY <2>1, LenProperties
  <2> HIDE DEF m
  <2>5. FlattenSeq(InsertAt(P, m + 1, v)) = h \o (v \o g)
    BY <2>1, <2>4, FlattenInserted
  <2>6. h \in Seq(A) /\ g \in Seq(A) /\ FlattenSeq(P) = h \o g
    BY <2>1, <2>4, FlattenHalves
  <2>7. FlattenSeq(Q) = h \o (v \o g)
    BY <2>4, <2>5, Zenon
  <2> HIDE DEF Q, h, g
  <2>8. SubSeq(t, 1, n + 1) = Q
    <3>1. Joins(t, Q, R)
      BY <1>2, <2>3, Zenon DEF Joins, t
    <3>2. t \in Seq(Seq(A)) /\ Q \in Seq(Seq(A)) /\ R \in Seq(Seq(A))
      BY <1>3, <2>1, <2>2
    <3>3. SubSeq(t, 1, Len(Q)) = Q
      BY <3>1, <3>2, HalvesAre
    <3>4. Len(Q) = n + 1
      BY <1>2, <2>2
    <3>5. QED
      BY <3>3, <3>4, Zenon
  <2>9. Begin(t, y + 1) = Len(h \o (v \o g))
    <3> DEFINE a == y + 1
               b == a - 1
    <3>1. b = n + 1
      BY <1>1
    <3>2. Begin(t, a) = Len(FlattenSeq(SubSeq(t, 1, b)))
      BY DEF Begin
    <3> HIDE DEF a, b
    <3>3. Begin(t, a) = Len(h \o (v \o g))
      BY <2>7, <2>8, <3>1, <3>2, Zenon
    <3>4. QED
      BY <3>3 DEF a
  <2>10. Begin(s, y) = Len(h \o g)
    <3>1. Begin(s, y) = Len(FlattenSeq(P))
      BY Zenon DEF Begin, P, n
    <3>2. QED
      BY <2>6, <3>1, Zenon
  <2>11. Len(h \o (v \o g)) = Len(h \o g) + Len(v)
    <3> DEFINE z == v \o g
    <3>1. z \in Seq(A) /\ Len(z) = Len(v) + Len(g) /\ Len(v) \in Nat /\ Len(g) \in Nat
      BY <2>6, Joined
    <3> HIDE DEF z
    <3>2. Len(h \o z) = Len(h) + Len(z) /\ Len(h) \in Nat
      BY <2>6, <3>1, Joined
    <3>3. Len(h \o g) = Len(h) + Len(g)
      BY <2>6, Joined
    <3>4. Len(h \o z) = Len(h \o g) + Len(v)
      BY <3>1, <3>2, <3>3
    <3>5. QED
      BY <3>4 DEF z
  <2>12. QED
    BY <2>9, <2>10, <2>11, Zenon
<1>5. ASSUME y <= x PROVE Begin(t, y) = Begin(s, y)
  <2>1. y \in 1..(Len(s) + 1) /\ y <= Len(t) + 1
    BY <1>1, <1>3
  <2>2. t \in Seq(Seq(A))
    BY <1>3
  <2>3. SameUpTo(s, t, y - 1)
    <3>1. \A j \in 1..(y - 1) : j \in 1..(x - 1)
      BY <1>5
    <3>2. QED
      BY <1>3, <3>1 DEF SameUpTo
  <2>4. QED
    BY <2>1, <2>2, <2>3, BeginAlike
<1>6. QED
  BY <1>4, <1>5 DEF t

-----------------------------------------------------------------------------
(* A block of the list goes to another place. *)

MovedCursor(p, i, j, k) ==
  CASE p \in i..j                         -> k + (p - i + 1)
    [] p < i /\ p > k                     -> p + (j - i + 1)
    [] p > j /\ p <= k + (j - i + 1)      -> p - (j - i + 1)
    [] OTHER                              -> p

MovesBlock(l, p, m, q) ==
  \E i, j \in 1..Len(l) :
    \E k \in 0..(Len(l) - (j - i + 1)) :
      /\ i <= j
      /\ m = Pasted(Kept(l, i, j), k, SubSeq(l, i, j))
      /\ q = MovedCursor(p, i, j, k)

(* The cursor follows its track through the move of a block. *)
LEMMA MovedCursorIs ==
  ASSUME NEW p \in Nat, NEW i \in Nat, NEW j \in Nat, NEW k \in Nat, i >= 1, i <= j
  PROVE  /\ p \in i..j => MovedCursor(p, i, j, k) = k + (p - i + 1)
         /\ p < i /\ p > k => MovedCursor(p, i, j, k) = p + (j - i + 1)
         /\ p > j /\ p <= k + (j - i + 1) => MovedCursor(p, i, j, k) = p - (j - i + 1)
         /\ p < i /\ ~(p > k) => MovedCursor(p, i, j, k) = p
         /\ p > j /\ ~(p <= k + (j - i + 1)) => MovedCursor(p, i, j, k) = p
<1>1. ASSUME p \in i..j PROVE MovedCursor(p, i, j, k) = k + (p - i + 1)
  <2>1. p \in i..j /\ ~(p < i) /\ ~(p > j)
    BY <1>1
  <2>2. QED
    BY <2>1, Zenon DEF MovedCursor
<1>2. ASSUME p < i /\ p > k PROVE MovedCursor(p, i, j, k) = p + (j - i + 1)
  <2>1. ~(p \in i..j) /\ ~(p > j)
    BY <1>2
  <2>2. QED
    BY <1>2, <2>1, Zenon DEF MovedCursor
<1>3. ASSUME p > j /\ p <= k + (j - i + 1) PROVE MovedCursor(p, i, j, k) = p - (j - i + 1)
  <2>1. ~(p \in i..j) /\ ~(p < i)
    BY <1>3
  <2>2. QED
    BY <1>3, <2>1, Zenon DEF MovedCursor
<1>4. ASSUME p < i /\ ~(p > k) PROVE MovedCursor(p, i, j, k) = p
  <2>1. ~(p \in i..j) /\ ~(p > j)
    BY <1>4
  <2>2. QED
    BY <1>4, <2>1, Zenon DEF MovedCursor
<1>5. ASSUME p > j /\ ~(p <= k + (j - i + 1)) PROVE MovedCursor(p, i, j, k) = p
  <2>1. ~(p \in i..j) /\ ~(p < i)
    BY <1>5
  <2>2. QED
    BY <1>5, <2>1, Zenon DEF MovedCursor
<1>6. QED
  BY <1>1, <1>2, <1>3, <1>4, <1>5

(* A list of X tracks beginning at C, at place `cur` of the lists, while the one of n *)
(* tracks beginning at B goes from `from` to `to`, which begins at k without it; the  *)
(* first one is then at place e and begins at D.                                      *)
PlacesFit(B, C, D, n, X, at, k, cur, from, e, to) ==
  /\ B \in Nat /\ C \in Nat /\ D \in Nat /\ n \in Nat /\ X \in Nat /\ at \in Nat /\ k \in Nat
  /\ cur \in Nat /\ from \in Nat /\ e \in Nat /\ to \in Nat /\ n >= 1 /\ at >= 1 /\ at <= X
  /\ cur < from => D = C /\ C + X <= B
  /\ ~(cur < from) => D = C - n /\ B + n <= C
  /\ e < to => D + X <= k
  /\ ~(e < to) => k <= D

(* The arithmetic of the move, for a cursor in the block, before and behind it. *)
LEMMA MovedPlaces ==
  ASSUME NEW B, NEW C, NEW D, NEW n, NEW X, NEW at, NEW k, NEW cur, NEW from, NEW e, NEW to,
         PlacesFit(B, C, D, n, X, at, k, cur, from, e, to)
  PROVE  /\ e < to => D + at = MovedCursor(C + at, B + 1, B + n, k)
         /\ ~(e < to) => D + n + at = MovedCursor(C + at, B + 1, B + n, k)
<1> DEFINE p == C + at
           i == B + 1
           j == B + n
           ahead == e < to
           early == cur < from
<1>1. p \in Nat /\ i \in Nat /\ j \in Nat /\ k \in Nat /\ i >= 1 /\ i <= j /\ j - i + 1 = n
  BY DEF PlacesFit
<1>2. early => p < i
  BY DEF PlacesFit
<1>3. ~early => p > j
  BY DEF PlacesFit
<1>4. early /\ ahead => ~(p > k) /\ D + at = p
  BY DEF PlacesFit
<1>5. early /\ ~ahead => p > k /\ D + n + at = p + n
  BY DEF PlacesFit
<1>6. ~early /\ ahead => p <= k + n /\ D + at = p - n
  BY DEF PlacesFit
<1>7. ~early /\ ~ahead => ~(p <= k + n) /\ D + n + at = p
  BY DEF PlacesFit
<1> HIDE DEF p, i, j, ahead, early
<1>8. /\ p < i /\ p > k => MovedCursor(p, i, j, k) = p + n
      /\ p > j /\ p <= k + n => MovedCursor(p, i, j, k) = p - n
      /\ p < i /\ ~(p > k) => MovedCursor(p, i, j, k) = p
      /\ p > j /\ ~(p <= k + n) => MovedCursor(p, i, j, k) = p
  <2>1. /\ p < i /\ p > k => MovedCursor(p, i, j, k) = p + (j - i + 1)
        /\ p > j /\ p <= k + (j - i + 1) => MovedCursor(p, i, j, k) = p - (j - i + 1)
        /\ p < i /\ ~(p > k) => MovedCursor(p, i, j, k) = p
        /\ p > j /\ ~(p <= k + (j - i + 1)) => MovedCursor(p, i, j, k) = p
    <3>1. p \in Nat /\ i \in Nat /\ j \in Nat /\ k \in Nat /\ i >= 1 /\ i <= j
      BY <1>1
    <3>2. ASSUME p < i, p > k PROVE MovedCursor(p, i, j, k) = p + (j - i + 1)
      BY <3>1, <3>2, MovedCursorIs
    <3>3. ASSUME p > j, p <= k + (j - i + 1) PROVE MovedCursor(p, i, j, k) = p - (j - i + 1)
      BY <3>1, <3>3, MovedCursorIs
    <3>4. ASSUME p < i, ~(p > k) PROVE MovedCursor(p, i, j, k) = p
      BY <3>1, <3>4, MovedCursorIs
    <3>5. ASSUME p > j, ~(p <= k + (j - i + 1)) PROVE MovedCursor(p, i, j, k) = p
      BY <3>1, <3>5, MovedCursorIs
    <3>6. QED
      BY <3>2, <3>3, <3>4, <3>5
  <2>2. QED
    BY <1>1, <2>1, Zenon
<1>9. /\ ahead => D + at = MovedCursor(p, i, j, k)
      /\ ~ahead => D + n + at = MovedCursor(p, i, j, k)
  <2>1. CASE early
    BY <1>2, <1>4, <1>5, <1>8, <2>1, Zenon
  <2>2. CASE ~early
    BY <1>3, <1>6, <1>7, <1>8, <2>2, Zenon
  <2>3. QED
    BY <2>1, <2>2
<1>10. QED
  BY <1>9 DEF p, i, j, ahead, early

(* Positions of lists while the one at `from` moves to `to`: where the one at *)
(* `cur` is without it, and where it ends up. *)
(* The two agree with each other. *)
LEMMA WithoutIs ==
  ASSUME NEW A, NEW s \in Seq(Seq(A)), NEW from \in 1..Len(s), NEW cur \in 1..Len(s), cur # from,
         NEW e, e = Without(cur, from), NEW r, r = RemoveAt(s, from)
  PROVE  /\ r \in Seq(Seq(A)) /\ Len(r) = Len(s) - 1 /\ e \in 1..Len(r) /\ r[e] = s[cur]
         /\ cur < from => Begin(r, e) = Begin(s, cur) /\ Begin(s, cur + 1) <= Begin(s, from)
         /\ ~(cur < from) => Begin(r, e) = Begin(s, cur) - Len(s[from]) /\ Begin(s, from + 1) <= Begin(s, cur)
<1>1. from \in Nat /\ cur \in Nat /\ Len(s) \in Nat
  BY LenProperties
<1>2. /\ RemoveAt(s, from) \in Seq(Seq(A)) /\ Len(RemoveAt(s, from)) = Len(s) - 1
      /\ \A y \in 1..(from - 1) : RemoveAt(s, from)[y] = s[y]
      /\ \A y \in from..(Len(s) - 1) : RemoveAt(s, from)[y] = s[y + 1]
  BY Removed
<1>3. /\ r \in Seq(Seq(A)) /\ Len(r) = Len(s) - 1
      /\ \A y \in 1..(from - 1) : r[y] = s[y]
      /\ \A y \in from..(Len(s) - 1) : r[y] = s[y + 1]
  BY <1>2, Zenon
<1>4. CASE cur < from
  <2>1. e = cur
    BY <1>4 DEF Without
  <2>2. cur \in 1..Len(r) /\ r[cur] = s[cur]
    <3>1. Len(r) = Len(s) - 1
      BY <1>3, Zenon
    <3>2. cur \in 1..Len(r) /\ cur \in 1..(from - 1)
      BY <1>1, <1>4, <3>1
    <3>3. QED
      BY <1>3, <3>2, Zenon
  <2>3. cur \in 1..(Len(s) + 1) /\ cur <= Len(r) + 1
    BY <1>1, <1>3, <2>2
  <2>4. SameUpTo(s, r, cur - 1)
    <3>1. \A y \in 1..(cur - 1) : y \in 1..(from - 1)
      BY <1>1, <1>4
    <3>2. QED
      BY <1>3, <3>1 DEF SameUpTo
  <2>5. r \in Seq(Seq(A))
    BY <1>3
  <2>6. Begin(s, cur) = Begin(r, cur)
    BY <2>3, <2>4, <2>5, BeginAlike
  <2>7. Begin(s, cur + 1) <= Begin(s, from)
    <3>1. cur + 1 \in 1..from /\ from \in 1..(Len(s) + 1)
      BY <1>1, <1>4
    <3>2. \A v \in 1..from : Begin(s, v) <= Begin(s, from)
      BY <3>1, BeginOrder
    <3>3. QED
      BY <3>1, <3>2
  <2>8. QED
    BY <1>3, <1>4, <2>1, <2>2, <2>6, <2>7, Zenon
<1>5. CASE ~(cur < from)
  <2>1. e = cur - 1
    BY <1>5 DEF Without
  <2>2. cur - 1 \in from..(Len(s) - 1) /\ (cur - 1) + 1 = cur /\ cur \in (from + 1)..(Len(s) + 1)
    BY <1>1, <1>5
  <2>3. r[cur - 1] = s[cur]
    BY <1>3, <2>2, Zenon
  <2>4. cur - 1 \in 1..Len(r)
    BY <1>1, <1>3, <2>2
  <2>5. Begin(RemoveAt(s, from), cur - 1) = Begin(s, cur) - Len(s[from])
    BY <2>2, BeginRemoved
  <2>6. Begin(s, from + 1) <= Begin(s, cur)
    <3>1. from + 1 \in 1..cur /\ cur \in 1..(Len(s) + 1)
      BY <1>1, <1>5
    <3>2. \A v \in 1..cur : Begin(s, v) <= Begin(s, cur)
      BY <3>1, BeginOrder
    <3>3. QED
      BY <3>1, <3>2
  <2>7. QED
    BY <1>3, <1>5, <2>1, <2>3, <2>4, <2>5, <2>6, Zenon
<1>6. QED
  BY <1>4, <1>5, Zenon

(* The place an album ends up at. *)
LEMMA AroundInserted ==
  ASSUME NEW A, NEW r \in Seq(Seq(A)), NEW e \in 1..Len(r), NEW to \in 1..(Len(r) + 1),
         NEW v \in Seq(A)
  PROVE  /\ e < to => Begin(InsertAt(r, to, v), e) = Begin(r, e) /\ Begin(r, e) + Len(r[e]) <= Begin(r, to)
         /\ ~(e < to) => Begin(InsertAt(r, to, v), e + 1) = Begin(r, e) + Len(v) /\ Begin(r, to) <= Begin(r, e)
         /\ Begin(r, to) \in Nat /\ Begin(r, e) \in Nat
<1>1. e \in Nat /\ to \in Nat /\ Len(r) \in Nat /\ e \in 1..(Len(r) + 1)
  BY LenProperties
<1>2. /\ e >= to => Begin(InsertAt(r, to, v), e + 1) = Begin(r, e) + Len(v)
      /\ e <= to => Begin(InsertAt(r, to, v), e) = Begin(r, e)
  BY <1>1, BeginInserted
<1>3. Begin(r, e + 1) = Begin(r, e) + Len(r[e]) /\ Begin(r, e) \in Nat
  BY BeginIs
<1>4. \A w \in 1..to : Begin(r, w) <= Begin(r, to) /\ Begin(r, to) \in Nat
  BY BeginOrder
<1>5. \A w \in 1..e : Begin(r, w) <= Begin(r, e)
  BY <1>1, BeginOrder
<1>6. Begin(r, to) \in Nat
  <2>1. 1 \in 1..to
    BY <1>1
  <2>2. QED
    BY <1>4, <2>1
<1>7. ASSUME e < to PROVE Begin(InsertAt(r, to, v), e) = Begin(r, e) /\ Begin(r, e) + Len(r[e]) <= Begin(r, to)
  <2>1. e <= to /\ e + 1 \in 1..to
    BY <1>1, <1>7
  <2>2. Begin(r, e + 1) <= Begin(r, to)
    BY <1>4, <2>1
  <2>3. QED
    BY <1>2, <1>3, <2>1, <2>2, Zenon
<1>8. ASSUME ~(e < to) PROVE Begin(InsertAt(r, to, v), e + 1) = Begin(r, e) + Len(v) /\ Begin(r, to) <= Begin(r, e)
  <2>1. e >= to /\ to \in 1..e
    BY <1>1, <1>8
  <2>2. QED
    BY <1>2, <1>5, <2>1
<1>9. QED
  BY <1>3, <1>6, <1>7, <1>8, Zenon

(* Where the current album begins after another one moved. *)
LEMMA MovedBegin ==
  ASSUME NEW A, NEW s \in Seq(Seq(A)), NEW from \in 1..Len(s), NEW to \in 1..Len(s),
         NEW cur \in 1..Len(s),
         cur # from, NEW at \in 1..Len(s[cur]), s[from] # <<>>
  PROVE  Begin(InsertAt(RemoveAt(s, from), to, s[from]), MovedTo(cur, from, to)) + at
           = MovedCursor(Begin(s, cur) + at, Begin(s, from) + 1, Begin(s, from) + Len(s[from]),
                         Begin(RemoveAt(s, from), to))
<1> DEFINE v == s[from]
           r == RemoveAt(s, from)
           t == InsertAt(r, to, v)
           e == Without(cur, from)
           B == Begin(s, from)
           C == Begin(s, cur)
           D == Begin(r, e)
           X == Len(s[cur])
           n == Len(v)
           k == Begin(r, to)
           ahead == e < to
           early == cur < from
<1>1. from \in Nat /\ to \in Nat /\ cur \in Nat /\ Len(s) \in Nat
  BY LenProperties
<1>2. /\ r \in Seq(Seq(A)) /\ Len(r) = Len(s) - 1 /\ e \in 1..Len(r) /\ r[e] = s[cur]
      /\ early => D = C /\ Begin(s, cur + 1) <= B
      /\ ~early => D = C - n /\ Begin(s, from + 1) <= C
  BY WithoutIs
<1>3. B \in Nat /\ n \in Nat /\ Begin(s, from + 1) = B + n
  BY BeginIs
<1>4. C \in Nat /\ X \in Nat /\ Begin(s, cur + 1) = C + X
  BY BeginIs
<1>5. v \in Seq(A)
  BY ElementOfSeq
<1>6. n >= 1
  <2>1. n # 0
    BY <1>5, EmptySeq
  <2> HIDE DEF n
  <2>2. QED
    BY <1>3, <2>1
<1>7. MovedTo(cur, from, to) = IF e < to THEN e ELSE e + 1
  BY <1>1, MovedToIs
<1> HIDE DEF r, e, v
<1>8. to \in 1..(Len(r) + 1)
  BY <1>1, <1>2
<1>9. /\ ahead => Begin(t, e) = D /\ D + Len(r[e]) <= k
      /\ ~ahead => Begin(t, e + 1) = D + n /\ k <= D
      /\ k \in Nat /\ D \in Nat
  BY <1>2, <1>5, <1>8, AroundInserted
<1>10. at \in Nat /\ at >= 1 /\ at <= X
  <2> HIDE DEF X
  <2>1. at \in 1..X
    BY DEF X
  <2>2. QED
    BY <1>4, <2>1
<1> HIDE DEF X, n, k, D, C, B, t
<1>11. /\ early => D = C /\ C + X <= B
       /\ ~early => D = C - n /\ B + n <= C
  BY <1>2, <1>3, <1>4, Zenon
<1>12. ahead => D + X <= k
  BY <1>2, <1>9, Zenon DEF X
<1>13. ~ahead => k <= D
  BY <1>9, Zenon
<1>14. e \in Nat
  BY <1>2
<1>15. ahead => Begin(t, MovedTo(cur, from, to)) = D
  BY <1>7, <1>9, Zenon
<1>16. ~ahead => Begin(t, MovedTo(cur, from, to)) = D + n
  BY <1>7, <1>9, Zenon
<1>17. /\ ahead => D + at = MovedCursor(C + at, B + 1, B + n, k)
       /\ ~ahead => D + n + at = MovedCursor(C + at, B + 1, B + n, k)
  <2>1. /\ B \in Nat /\ C \in Nat /\ D \in Nat /\ n \in Nat /\ X \in Nat /\ at \in Nat /\ k \in Nat
        /\ cur \in Nat /\ from \in Nat /\ e \in Nat /\ to \in Nat /\ n >= 1 /\ at >= 1 /\ at <= X
    BY <1>1, <1>3, <1>4, <1>6, <1>9, <1>10, <1>14, Zenon
  <2>2. QED
    <3>1. PlacesFit(B, C, D, n, X, at, k, cur, from, e, to)
      <4>1. cur < from => D = C /\ C + X <= B
        BY <1>11
      <4>2. ~(cur < from) => D = C - n /\ B + n <= C
        BY <1>11
      <4>3. e < to => D + X <= k
        BY <1>12
      <4>4. ~(e < to) => k <= D
        BY <1>13
      <4> HIDE DEF e
      <4>5. QED
        BY <2>1, <4>1, <4>2, <4>3, <4>4 DEF PlacesFit
    <3>2. QED
      BY <3>1, MovedPlaces
<1> HIDE DEF ahead, early
<1>18. Begin(t, MovedTo(cur, from, to)) + at = MovedCursor(C + at, B + 1, B + n, k)
  <2>1. CASE ahead
    BY <1>15, <1>17, <2>1, Zenon
  <2>2. CASE ~ahead
    BY <1>16, <1>17, <2>2, Zenon
  <2>3. QED
    BY <2>1, <2>2
<1>19. QED
  BY <1>18, Zenon DEF t, r, v, B, C, n, k

(* The moved element itself ends up where it was sent. *)
BlockMoved(l, p, m, q, i, j, k) ==
  /\ i \in 1..Len(l) /\ j \in 1..Len(l) /\ k \in 0..(Len(l) - (j - i + 1)) /\ i <= j
  /\ m = Pasted(Kept(l, i, j), k, SubSeq(l, i, j))
  /\ q = MovedCursor(p, i, j, k)

(* A move of a known block is a move of a block. *)
LEMMA BlockMovedMoves ==
  ASSUME NEW l, NEW p, NEW m, NEW q, NEW i, NEW j, NEW k, BlockMoved(l, p, m, q, i, j, k)
  PROVE  MovesBlock(l, p, m, q)
BY DEF BlockMoved, MovesBlock

(* The tracks of one list are put in among the flat list of the others. *)
LEMMA PastedList ==
  ASSUME NEW A, NEW r \in Seq(Seq(A)), NEW to \in 1..(Len(r) + 1), NEW v \in Seq(A)
  PROVE  /\ FlattenSeq(InsertAt(r, to, v)) = Pasted(FlattenSeq(r), Begin(r, to), v)
         /\ Begin(r, to) \in 0..Len(FlattenSeq(r))
<1> DEFINE n == to - 1
           h == FlattenSeq(SubSeq(r, 1, n))
           g == FlattenSeq(SubSeq(r, n + 1, Len(r)))
           l == FlattenSeq(r)
           m == FlattenSeq(InsertAt(r, to, v))
<1>1. n \in Nat /\ n <= Len(r) /\ n + 1 = to
  BY LenProperties
<1>2. Begin(r, to) = Len(h)
  BY DEF Begin
<1> HIDE DEF n
<1>3. FlattenSeq(InsertAt(r, n + 1, v)) = h \o (v \o g)
  BY <1>1, FlattenInserted
<1>4. h \in Seq(A) /\ g \in Seq(A) /\ l = h \o g
  BY <1>1, FlattenHalves
<1>5. m = h \o (v \o g)
  BY <1>1, <1>3, Zenon
<1> HIDE DEF h, g, l, m
<1>6. Joins(l, h, g) /\ Joins(m, h, v \o g)
  BY <1>4, <1>5, Zenon DEF Joins
<1>7. m = Pasted(l, Len(h), v)
  BY <1>4, <1>6, PastedIs
<1>8. Len(h) \in 0..Len(l)
  BY <1>4, Joined
<1>9. QED
  BY <1>2, <1>7, <1>8, Zenon DEF l, m

(* Moving an album moves its block of the flat list, and the cursor follows. *)
LEMMA MoveItemMovesBlock ==
  ASSUME NEW c, WellFormed(c), NEW from \in DOMAIN c.items, NEW to \in DOMAIN c.items,
         NEW d, d = MoveItem(c, from, to)
  PROVE  MovesBlock(FlatTracks(c), FlatCursor(c), FlatTracks(d), FlatCursor(d))
<1> DEFINE s == Lists(c)
           t == Lists(d)
           v == s[from]
           r == RemoveAt(s, from)
           l == FlatTracks(c)
           m == FlatTracks(d)
           p == FlatCursor(c)
           q == FlatCursor(d)
           B == Begin(s, from)
           n == Len(v)
           i == B + 1
           j == B + n
           k == Begin(r, to)
<1>1. WellFormed(d)
  BY MoveItemWellFormed
<1>2. /\ s \in Seq(Seq(Tracks)) /\ Len(s) = Len(c.items) /\ from \in 1..Len(s) /\ to \in 1..Len(s)
      /\ v # <<>> /\ Len(s) \in Nat
  <2>1. s \in Seq(Seq(Tracks)) /\ Len(s) = Len(c.items) /\ v = c.items[from].tracks
    BY ListsFacts
  <2>2. DOMAIN c.items = 1..Len(c.items) /\ Len(c.items) \in Nat
    BY Facts
  <2>3. c.items[from].tracks # <<>>
    BY ItemFacts
  <2>4. QED
    BY <2>1, <2>2, <2>3, Zenon
<1>3. t = InsertAt(r, to, v)
  BY MoveItemIs
<1>4. l = FlattenSeq(s) /\ m = FlattenSeq(t)
  BY <1>1, FlatTracksType
<1> HIDE DEF s, t, l, m
<1>5. v \in Seq(Tracks)
  BY <1>2, ElementOfSeq
<1>6. B \in Nat /\ n \in Nat
  BY <1>2, BeginIs
<1>7. n >= 1
  <2>1. n # 0
    BY <1>2, <1>5, EmptySeq
  <2> HIDE DEF n
  <2>2. QED
    BY <1>6, <2>1
<1>8. /\ i \in 1..Len(l) /\ j \in 1..Len(l) /\ i <= j
      /\ SubSeq(l, i, j) = v
      /\ FlattenSeq(r) = Kept(l, i, j)
      /\ Len(FlattenSeq(r)) = Len(l) - n
  <2>1. s \in Seq(Seq(Tracks)) /\ from \in 1..Len(s) /\ s[from] # <<>> /\ l = FlattenSeq(s)
    BY <1>2, <1>4
  <2>2. i = Begin(s, from) + 1 /\ j = Begin(s, from) + Len(s[from])
    OBVIOUS
  <2> HIDE DEF i, j
  <2>3. BlockOf(s, from, l, i, j)
    BY <2>1, <2>2, BlockIs
  <2>4. QED
    BY <2>3, Zenon DEF BlockOf
<1>9. r \in Seq(Seq(Tracks)) /\ Len(r) = Len(s) - 1
  BY <1>2, Removed
<1> HIDE DEF r, v
<1>10. to \in 1..(Len(r) + 1)
  BY <1>2, <1>9
<1>11. /\ FlattenSeq(InsertAt(r, to, v)) = Pasted(FlattenSeq(r), k, v)
       /\ k \in 0..Len(FlattenSeq(r))
  BY <1>5, <1>9, <1>10, PastedList
<1>12. j - i + 1 = n
  BY <1>6
<1> HIDE DEF B, n, i, j, k, p, q
<1>13. m = Pasted(Kept(l, i, j), k, SubSeq(l, i, j))
  BY <1>3, <1>4, <1>8, <1>11, Zenon
<1>14. k \in 0..(Len(l) - (j - i + 1))
  BY <1>8, <1>11, <1>12, Zenon
<1>15. k \in Nat /\ i \in Nat /\ j \in Nat /\ i >= 1 /\ i <= j
  BY <1>6, <1>7, <1>11, <1>8
<1>16. q = MovedCursor(p, i, j, k)
  <2>1. CASE ~Plays(c)
    <3>1. ~Plays(d)
      <4>1. CASE c.current = 0
        <5>1. d.current = 0
          BY <4>1, MoveItemIs
        <5>2. QED
          BY <1>1, <5>1, PlaysIs
      <4>2. CASE c.current # 0
        <5>1. d.items[d.current] = c.items[c.current]
          BY <4>2, MoveItemIs
        <5>2. ~(c.items[c.current].at \in 1..Len(c.items[c.current].tracks))
          BY <2>1, <4>2, PlaysIs
        <5>3. ~(d.items[d.current].at \in 1..Len(d.items[d.current].tracks))
          BY <5>1, <5>2, Zenon
        <5>4. QED
          BY <1>1, <5>3, PlaysIs
      <4>3. QED
        BY <4>1, <4>2
    <3>2. p = 0 /\ q = 0
      BY <1>1, <2>1, <3>1, CursorIs DEF p, q
    <3>3. p \in Nat /\ p < i /\ ~(p > k)
      BY <1>15, <3>2
    <3>4. MovedCursor(p, i, j, k) = p
      BY <1>15, <3>3, MovedCursorIs
    <3>5. QED
      BY <3>2, <3>4
  <2>2. CASE Plays(c)
    <3> DEFINE cur == c.current
               at == c.items[cur].at
    <3>1. cur # 0 /\ cur \in DOMAIN c.items /\ at \in 1..Len(c.items[cur].tracks)
      BY <2>2, PlaysIs
    <3>2. d.current = MovedTo(cur, from, to) /\ d.items[d.current] = c.items[cur]
      BY <3>1, MoveItemIs
    <3>3. p = Begin(s, cur) + at
      BY <2>2, CursorIs DEF p, s
    <3>4. d.current # 0
      <4>1. cur \in 1..Len(s)
        BY <1>2, <3>1, Facts
      <4>2. cur \in Nat /\ from \in Nat /\ to \in Nat /\ to >= 1 /\ cur >= 1 /\ from >= 1
        BY <1>2, <4>1
      <4> HIDE DEF cur
      <4>3. MovedTo(cur, from, to) # 0
        BY <4>2 DEF MovedTo
      <4>4. QED
        BY <3>2, <4>3
    <3>5. Plays(d)
      <4>1. d.items[d.current].at \in 1..Len(d.items[d.current].tracks)
        BY <3>1, <3>2, Zenon
      <4>2. QED
        BY <1>1, <3>4, <4>1, PlaysIs
    <3>6. q = Begin(t, MovedTo(cur, from, to)) + at
      <4>1. q = Begin(t, d.current) + d.items[d.current].at
        BY <1>1, <3>5, CursorIs DEF q, t
      <4>2. QED
        BY <3>2, <4>1, Zenon
    <3>7. cur \in 1..Len(s) /\ at \in 1..Len(s[cur])
      BY <1>2, <3>1, ListsFacts, Facts DEF s
    <3> HIDE DEF cur, at
    <3>8. CASE cur = from
      <4>1. MovedTo(cur, from, to) = to
        BY <1>2, <3>8, MovedOwn
      <4>2. Begin(t, to) = k
        <5>1. /\ to >= to => Begin(InsertAt(r, to, v), to + 1) = Begin(r, to) + Len(v)
              /\ to <= to => Begin(InsertAt(r, to, v), to) = Begin(r, to)
          BY <1>5, <1>9, <1>10, BeginInserted
        <5>2. to <= to
          BY <1>2
        <5>3. QED
          BY <1>3, <5>1, <5>2, Zenon DEF k
      <4>3. q = k + at
        BY <3>6, <4>1, <4>2, Zenon
      <4>4. p = B + at /\ at \in Nat /\ at >= 1 /\ at <= n
        <5>1. p = B + at /\ at \in 1..n
          BY <3>3, <3>7, <3>8, Zenon DEF B, n, v
        <5>2. QED
          BY <1>6, <5>1
      <4>5. p \in Nat /\ p \in i..j /\ p - i + 1 = at
        BY <1>6, <4>4 DEF i, j
      <4>6. MovedCursor(p, i, j, k) = k + (p - i + 1)
        BY <1>15, <4>5, MovedCursorIs
      <4>7. QED
        BY <4>3, <4>5, <4>6, Zenon
    <3>9. CASE cur # from
      <4>1. Begin(InsertAt(RemoveAt(s, from), to, s[from]), MovedTo(cur, from, to)) + at
              = MovedCursor(Begin(s, cur) + at, Begin(s, from) + 1, Begin(s, from) + Len(s[from]),
                            Begin(RemoveAt(s, from), to))
        BY <1>2, <3>7, <3>9, MovedBegin DEF v
      <4>2. QED
        BY <1>3, <3>3, <3>6, <4>1, Zenon DEF r, v, B, n, i, j, k
    <3>10. QED
      BY <3>8, <3>9
  <2>3. QED
    BY <2>1, <2>2
<1>17. BlockMoved(l, p, m, q, i, j, k)
  BY <1>8, <1>13, <1>14, <1>16, Zenon DEF BlockMoved
<1>18. MovesBlock(l, p, m, q)
  BY <1>17, BlockMovedMoves
<1>19. QED
  BY <1>18 DEF l, m, p, q

(* Taking back what was put in. *)
LEMMA TakenBack ==
  ASSUME NEW S, NEW s \in Seq(S), NEW i \in 1..(Len(s) + 1), NEW e \in S
  PROVE  RemoveAt(InsertAt(s, i, e), i) = s
<1> DEFINE t == InsertAt(s, i, e)
           r == RemoveAt(t, i)
<1>1. /\ t \in Seq(S) /\ Len(t) = Len(s) + 1
      /\ \A j \in 1..(i - 1) : t[j] = s[j]
      /\ \A j \in i..Len(s) : t[j + 1] = s[j]
  BY Inserted
<1>2. Len(s) \in Nat /\ i \in Nat /\ i >= 1
  BY LenProperties
<1> HIDE DEF t
<1>3. i \in 1..Len(t) /\ t \in Seq(S)
  BY <1>1, <1>2
<1>4. /\ r \in Seq(S) /\ Len(r) = Len(t) - 1
      /\ \A j \in 1..(i - 1) : r[j] = t[j]
      /\ \A j \in i..(Len(t) - 1) : r[j] = t[j + 1]
  BY <1>3, Removed
<1> HIDE DEF r
<1>5. Len(r) = Len(s)
  BY <1>1, <1>2, <1>4
<1>6. \A j \in 1..Len(r) : r[j] = s[j]
  <2>1. ASSUME NEW j \in 1..Len(r) PROVE r[j] = s[j]
    <3>1. CASE j < i
      <4>1. j \in 1..(i - 1)
        BY <1>2, <3>1
      <4>2. QED
        BY <1>1, <1>4, <4>1
    <3>2. CASE ~(j < i)
      <4>1. j \in i..Len(s) /\ j \in i..(Len(t) - 1)
        BY <1>1, <1>2, <1>5, <3>2
      <4>2. QED
        BY <1>1, <1>4, <4>1
    <3>3. QED
      BY <3>1, <3>2
  <2>2. QED
    BY <2>1
<1>7. r \in Seq(S)
  BY <1>4
<1>8. r = s
  BY <1>5, <1>6, <1>7, SeqEqual
<1>9. QED
  BY <1>8 DEF r, t

(* Where the lists begin after one of them has another content. *)
LEMMA BeginReplaced ==
  ASSUME NEW A, NEW s \in Seq(Seq(A)), NEW i \in 1..Len(s), NEW x \in Seq(A)
  PROVE  \A cur \in 1..(Len(s) + 1) :
           /\ cur <= i => Begin(WithPart(s, i, x), cur) = Begin(s, cur)
           /\ cur > i => Begin(WithPart(s, i, x), cur) - Len(x) = Begin(s, cur) - Len(s[i])
<1> DEFINE t == WithPart(s, i, x)
<1>1. /\ t \in Seq(Seq(A)) /\ Len(t) = Len(s) /\ Len(s) \in Nat
      /\ \A j \in 1..Len(s) : t[j] = IF j = i THEN x ELSE s[j]
  <2>1. Len(s) \in Nat
    BY LenProperties
  <2>2. /\ WithPart(s, i, x) \in Seq(Seq(A)) /\ Len(WithPart(s, i, x)) = Len(s)
        /\ \A j \in 1..Len(s) : WithPart(s, i, x)[j] = IF j = i THEN x ELSE s[j]
    BY PartReplaced
  <2>3. QED
    BY <2>1, <2>2, Zenon
<1>2. \A n \in 0..(i - 1) : SubSeq(t, 1, n) = SubSeq(s, 1, n)
  BY StartsAlike
<1> HIDE DEF t
<1> SUFFICES ASSUME NEW cur \in 1..(Len(s) + 1)
             PROVE  /\ cur <= i => Begin(t, cur) = Begin(s, cur)
                    /\ cur > i => Begin(t, cur) - Len(x) = Begin(s, cur) - Len(s[i])
  BY DEF t
<1>3. t[i] = x /\ \A j \in 1..Len(s) : j # i => t[j] = s[j]
  BY <1>1
<1>4. t \in Seq(Seq(A)) /\ i \in Nat /\ cur \in Nat
  BY <1>1
<1>5. ASSUME cur <= i PROVE Begin(t, cur) = Begin(s, cur)
  <2>1. cur <= Len(t) + 1
    BY <1>1, <1>4
  <2>2. SameUpTo(s, t, cur - 1)
    <3>1. \A j \in 1..(cur - 1) : j \in 1..Len(s) /\ j # i
      BY <1>1, <1>4, <1>5
    <3>2. QED
      BY <1>3, <3>1 DEF SameUpTo
  <2>3. QED
    BY <1>4, <2>1, <2>2, BeginAlike
<1>6. ASSUME cur > i PROVE Begin(t, cur) - Len(x) = Begin(s, cur) - Len(s[i])
  <2>1. RemoveAt(t, i) = RemoveAt(s, i)
    <3>1. SubSeq(t, 1, i - 1) = SubSeq(s, 1, i - 1)
      <4>1. i - 1 \in 0..(i - 1)
        BY <1>4
      <4>2. QED
        BY <1>2, <4>1
    <3>2. SubSeq(t, i + 1, Len(t)) = SubSeq(s, i + 1, Len(s))
      <4> DEFINE m == i + 1
                 n == Len(s)
      <4>1. m \in Nat /\ n \in Nat /\ m >= 1 /\ n <= Len(s) /\ n <= Len(t) /\ \A j \in m..n : j \in 1..Len(s) /\ j # i
        BY <1>1, <1>4
      <4>2. \A j \in m..n : t[j] = s[j]
        BY <1>3, <4>1
      <4> HIDE DEF m, n
      <4>3. SubSeq(t, m, n) = SubSeq(s, m, n)
        BY <1>4, <4>1, <4>2, SubSeqAlike
      <4>4. QED
        BY <1>1, <4>3 DEF m, n
    <3>3. QED
      BY <3>1, <3>2, Zenon DEF RemoveAt
  <2>2. cur \in (i + 1)..(Len(s) + 1) /\ cur \in (i + 1)..(Len(t) + 1) /\ i \in 1..Len(t)
    BY <1>1, <1>4, <1>6
  <2>3. Begin(RemoveAt(s, i), cur - 1) = Begin(s, cur) - Len(s[i])
    BY <2>2, BeginRemoved
  <2>4. Begin(RemoveAt(t, i), cur - 1) = Begin(t, cur) - Len(t[i])
    BY <1>4, <2>2, BeginRemoved
  <2>5. QED
    BY <1>3, <2>1, <2>3, <2>4, Zenon
<1>7. QED
  BY <1>5, <1>6

-----------------------------------------------------------------------------
(* The undo, track by track and album by album. *)

Shifted(p, i, q) == q = IF p # 0 /\ i <= p THEN p + 1 ELSE p

PutsBack(l, p, m, q) == \E i \in 1..Len(m) : l = RemoveAt(m, i) /\ Shifted(p, i, q)

(* Element k of list i of t is what the flat list l lacks. *)
Lacks(t, i, k, l) ==
  /\ Begin(t, i) + k \in 1..Len(FlattenSeq(t))
  /\ l = RemoveAt(FlattenSeq(t), Begin(t, i) + k)

(* A place of an album is a place of the flat list. *)
LEMMA WithinBlock ==
  ASSUME NEW A, NEW t \in Seq(Seq(A)), NEW i \in 1..Len(t), NEW k \in 1..Len(t[i]), t[i] # <<>>
  PROVE  Begin(t, i) + k \in 1..Len(FlattenSeq(t))
<1> DEFINE l == FlattenSeq(t)
           a == Begin(t, i) + 1
           b == Begin(t, i) + Len(t[i])
<1>1. a = Begin(t, i) + 1 /\ b = Begin(t, i) + Len(t[i]) /\ l = FlattenSeq(t)
  OBVIOUS
<1>2. Begin(t, i) \in Nat /\ Len(t[i]) \in Nat
  BY BeginIs
<1> HIDE DEF l, a, b
<1>3. BlockOf(t, i, l, a, b)
  BY <1>1, BlockIs
<1>4. b \in 1..Len(l)
  BY <1>3, Zenon DEF BlockOf
<1>5. Len(l) \in Nat
  <2>1. l \in Seq(A)
    BY <1>1, FlattenType
  <2>2. QED
    BY <2>1, LenProperties
<1>6. Begin(t, i) + k \in 1..Len(l)
  <2> DEFINE B == Begin(t, i)
             n == Len(t[i])
             m == Len(l)
  <2>1. B \in Nat /\ n \in Nat /\ m \in Nat /\ k \in 1..n /\ B + n \in 1..m
    BY <1>1, <1>2, <1>4, <1>5, Zenon
  <2> HIDE DEF B, n, m
  <2>2. B + k \in 1..m
    BY <2>1
  <2>3. QED
    BY <2>2 DEF B, m
<1>7. QED
  BY <1>6 DEF l

(* A list that lost a track: the flat list lacks it, too. *)
LEMMA LacksTrack ==
  ASSUME NEW A, NEW s \in Seq(Seq(A)), NEW i \in 1..Len(s), NEW k \in 1..(Len(s[i]) + 1),
         NEW e \in A,
         NEW t, t = WithPart(s, i, InsertAt(s[i], k, e))
  PROVE  Lacks(t, i, k, FlattenSeq(s)) /\ t \in Seq(Seq(A)) /\ Len(InsertAt(s[i], k, e)) = Len(s[i]) + 1
<1> DEFINE x == s[i]
           y == InsertAt(x, k, e)
<1>1. x \in Seq(A)
  BY ElementOfSeq
<1>2. k \in 1..(Len(x) + 1)
  OBVIOUS
<1> HIDE DEF x
<1>3. y \in Seq(A) /\ Len(y) = Len(x) + 1 /\ Len(x) \in Nat
  BY <1>1, <1>2, Inserted, LenProperties
<1>4. RemoveAt(y, k) = x
  BY <1>1, <1>2, TakenBack
<1>5. t = WithPart(s, i, y)
  BY DEF x
<1> HIDE DEF y
<1>6. t \in Seq(Seq(A)) /\ Len(t) = Len(s) /\ t[i] = y /\ i \in 1..Len(t)
  <2>1. y \in Seq(A)
    BY <1>3
  <2>2. /\ WithPart(s, i, y) \in Seq(Seq(A)) /\ Len(WithPart(s, i, y)) = Len(s)
        /\ \A j \in 1..Len(s) : WithPart(s, i, y)[j] = IF j = i THEN y ELSE s[j]
    BY <2>1, PartReplaced
  <2>3. WithPart(s, i, y)[i] = y
    BY <2>2
  <2>4. QED
    BY <1>5, <2>2, <2>3, Zenon
<1>7. k \in 1..Len(t[i])
  BY <1>2, <1>3, <1>6
<1>8. WithPart(t, i, RemoveAt(t[i], k)) = s
  <2>1. WithPart(t, i, RemoveAt(t[i], k)) = WithPart(WithPart(s, i, y), i, s[i])
    BY <1>4, <1>5, <1>6, Zenon DEF x
  <2>2. s = [j \in 1..Len(s) |-> s[j]]
    BY LenProperties
  <2>3. [[s EXCEPT ![i] = y] EXCEPT ![i] = s[i]] = s
    BY <2>2
  <2>4. QED
    BY <2>1, <2>3, Zenon DEF WithPart
<1>9. t[i] # <<>>
  BY <1>3, <1>6, EmptySeq
<1> HIDE <1>5
<1>10. FlattenSeq(s) = RemoveAt(FlattenSeq(t), Begin(t, i) + k)
  <2> DEFINE p == Begin(t, i) + k
  <2>1. p = Len(FlattenSeq(SubSeq(t, 1, i - 1))) + k
    BY DEF Begin
  <2> HIDE DEF p
  <2>2. FlattenSeq(WithPart(t, i, RemoveAt(t[i], k))) = RemoveAt(FlattenSeq(t), p)
    BY <1>6, <1>7, <2>1, FlattenDropped
  <2>3. QED
    BY <1>8, <2>2, Zenon DEF p
<1>11. Begin(t, i) + k \in 1..Len(FlattenSeq(t))
  BY <1>6, <1>7, <1>9, WithinBlock
<1>12. QED
  BY <1>3, <1>6, <1>10, <1>11, Zenon DEF Lacks, x, y

(* Lists that lost one of a single track: the same. *)
LEMMA LacksAlbum ==
  ASSUME NEW A, NEW s \in Seq(Seq(A)), NEW i \in 1..(Len(s) + 1), NEW e \in A
  PROVE  Lacks(InsertAt(s, i, <<e>>), i, 1, FlattenSeq(s))
<1> DEFINE y == <<e>>
           t == InsertAt(s, i, y)
<1>1. y \in Seq(A) /\ Len(y) = 1 /\ y # <<>>
  OBVIOUS
<1> HIDE DEF y
<1>2. t \in Seq(Seq(A)) /\ Len(t) = Len(s) + 1 /\ t[i] = y /\ RemoveAt(t, i) = s
  BY <1>1, Inserted, TakenBack
<1>3. i \in 1..Len(t)
  BY <1>2, LenProperties
<1> HIDE DEF t
<1>4. 1 \in 1..Len(t[i]) /\ Len(t[i]) = 1 /\ t[i] # <<>>
  BY <1>1, <1>2
<1>5. FlattenSeq(s) = RemoveAt(FlattenSeq(t), Begin(t, i) + 1)
  <2> DEFINE p == Begin(t, i) + 1
  <2>1. p = Len(FlattenSeq(SubSeq(t, 1, i - 1))) + 1
    BY DEF Begin
  <2> HIDE DEF p
  <2>2. FlattenSeq(RemoveAt(t, i)) = RemoveAt(FlattenSeq(t), p)
    BY <1>2, <1>3, <1>4, <2>1, FlattenDropped
  <2>3. QED
    BY <1>2, <2>2, Zenon DEF p
<1>6. Begin(t, i) + 1 \in 1..Len(FlattenSeq(t))
  BY <1>2, <1>3, <1>4, WithinBlock
<1>7. QED
  BY <1>5, <1>6, Zenon DEF Lacks, t, y

(* The undo when the album was removed with its only track. *)
LEMMA UndoAlbumIs ==
  ASSUME NEW c, WellFormed(c), NEW r \in RemovalRecord, CanUndoRemoval(c, r), r.itemRemoved,
         NEW i, i = r.position.item
  PROVE  /\ i \in Nat /\ i \in 1..(Len(c.items) + 1) /\ r.track \in Tracks
         /\ Lists(UndoRemoval(c, r)) = InsertAt(Lists(c), i, <<r.track>>)
         /\ c.current >= i => UndoRemoval(c, r).current = c.current + 1
         /\ ~(c.current >= i) => UndoRemoval(c, r).current = c.current
         /\ c.current # 0 =>
              UndoRemoval(c, r).items[UndoRemoval(c, r).current] = c.items[c.current]
<1> DEFINE x == NewItem(<<r.track>>)
           items == InsertAt(c.items, i, x)
           current == IF c.current >= i THEN c.current + 1 ELSE c.current
           selected == IF c.selected >= i THEN c.selected + 1 ELSE c.selected
           d == UndoRemoval(c, r)
<1>1. i \in Nat /\ i >= 1 /\ r.track \in Tracks
  BY DEF RemovalRecord
<1>2. /\ c.items \in Seq(Stocked) /\ Len(c.items) \in Nat /\ DOMAIN c.items = 1..Len(c.items)
      /\ c.current \in Nat /\ c.current <= Len(c.items) /\ i \in 1..(Len(c.items) + 1)
  BY <1>1, Facts DEF CanUndoRemoval
<1>3. x \in Stocked
  <2>1. <<r.track>> \in Seq(Tracks) /\ <<r.track>> # <<>>
    BY <1>1
  <2>2. QED
    BY <2>1, NewItemStocked
<1>4. d = ClampSelected(Made(items, current, selected))
  BY DEF UndoRemoval, Made
<1> HIDE DEF x, d
<1>5. /\ \A j \in 1..(i - 1) : items[j] = c.items[j]
      /\ \A j \in i..Len(c.items) : items[j + 1] = c.items[j]
  <2>1. c.items \in Seq(Stocked) /\ i \in 1..(Len(c.items) + 1)
    BY <1>2, Zenon
  <2>2. QED
    BY <1>3, <2>1, Inserted, SMTT(30)
<1> HIDE DEF items, current, selected
<1>6. d.items = items /\ d.current = current
  BY <1>4 DEF ClampSelected, Made
<1>7. Lists(d) = InsertAt(Lists(c), i, <<r.track>>)
  <2>1. Lists(d) = PutBack(Lists(c), r)
    BY UndoPutsBackAlbum DEF d
  <2>2. QED
    BY <2>1 DEF PutBack
<1>8. ASSUME c.current # 0 PROVE items[current] = c.items[c.current]
  <2>1. CASE c.current >= i
    <3>1. c.current \in i..Len(c.items)
      BY <1>1, <1>2, <2>1
    <3>2. current = c.current + 1
      BY <2>1 DEF current
    <3>3. QED
      BY <1>5, <3>1, <3>2
  <2>2. CASE ~(c.current >= i)
    <3>1. c.current \in 1..(i - 1)
      BY <1>1, <1>2, <1>8, <2>2
    <3>2. current = c.current
      BY <2>2 DEF current
    <3>3. QED
      BY <1>5, <3>1, <3>2
  <2>3. QED
    BY <2>1, <2>2
<1>9. /\ c.current >= i => current = c.current + 1
      /\ ~(c.current >= i) => current = c.current
  BY DEF current
<1>10. QED
  BY <1>1, <1>2, <1>6, <1>7, <1>8, <1>9, Zenon DEF d

(* d is c with the track e back at place k of item i. *)
UndoneTrack(c, i, k, e, d) ==
  /\ i \in DOMAIN c.items /\ i \in 1..Len(c.items) /\ i \in Nat /\ k \in Nat
  /\ k \in 1..(Len(Lists(c)[i]) + 1) /\ e \in Tracks
  /\ Lists(d) = WithPart(Lists(c), i, InsertAt(Lists(c)[i], k, e))
  /\ d.current = c.current
  /\ c.current # i /\ c.current # 0 => d.items[c.current] = c.items[c.current]
  /\ c.items[i].at >= k /\ c.current = i => d.items[i].at = c.items[i].at + 1
  /\ ~(c.items[i].at >= k) /\ c.current = i => d.items[i].at = c.items[i].at

(* The undo when the album is still there. *)
LEMMA UndoTrackIs ==
  ASSUME NEW c, WellFormed(c), NEW r \in RemovalRecord, CanUndoRemoval(c, r), ~r.itemRemoved
  PROVE  UndoneTrack(c, r.position.item, r.position.track, r.track, UndoRemoval(c, r))
<1> DEFINE i == r.position.item
           k == r.position.track
           tracks == InsertAt(c.items[i].tracks, k, r.track)
           at == IF c.current = i /\ c.items[i].at >= k THEN c.items[i].at + 1 ELSE c.items[i].at
           x == [[c.items[i] EXCEPT !.tracks = tracks] EXCEPT !.at = at]
           items == [c.items EXCEPT ![i] = x]
           d == UndoRemoval(c, r)
<1>1. k \in Nat /\ k >= 1 /\ r.track \in Tracks /\ i \in Nat
  BY DEF RemovalRecord
<1>2. i \in DOMAIN c.items /\ k <= Len(c.items[i].tracks) + 1
  BY DEF CanUndoRemoval
<1>3. /\ c.items[i] \in Stocked /\ Len(c.items[i].tracks) \in Nat
      /\ c.items \in Seq(Stocked) /\ DOMAIN c.items = 1..Len(c.items) /\ c.current \in Nat
      /\ c.current <= Len(c.items) /\ Len(c.items) \in Nat
  BY <1>2, ItemFacts, Facts
<1>4. d = ClampSelected([c EXCEPT !.items = items])
  BY <1>2, <1>3 DEF UndoRemoval, Stocked
<1>5. d = ClampSelected(Made(items, c.current, c.selected))
  BY <1>4, Updated, Zenon
<1>6. Lists(c)[i] = c.items[i].tracks
  BY <1>2 DEF Lists
<1>7. Lists(d) = WithPart(Lists(c), i, InsertAt(Lists(c)[i], k, r.track))
  <2>1. Lists(d) = PutBack(Lists(c), r)
    BY UndoPutsBackTrack
  <2>2. QED
    BY <2>1 DEF PutBack, WithPart
<1>8. k \in 1..(Len(Lists(c)[i]) + 1)
  BY <1>1, <1>2, <1>3, <1>6
<1>9. x.at = at
  <2> HIDE DEF tracks, at
  <2>1. QED
    BY <1>3 DEF Stocked
<1> HIDE DEF x, at, d
<1>10. items[i] = x /\ \A j \in DOMAIN c.items : j # i => items[j] = c.items[j]
  BY <1>2
<1> HIDE DEF items
<1>11. d.items = items /\ d.current = c.current
  BY <1>5 DEF ClampSelected, Made
<1>12. c.current # i /\ c.current # 0 => items[c.current] = c.items[c.current]
  BY <1>3, <1>10
<1>13. /\ c.items[i].at >= k /\ c.current = i => at = c.items[i].at + 1
       /\ ~(c.items[i].at >= k) /\ c.current = i => at = c.items[i].at
  BY DEF at
<1>14. i \in 1..Len(c.items)
  BY <1>2, <1>3
<1>15. QED
  BY <1>1, <1>2, <1>7, <1>8, <1>9, <1>10, <1>11, <1>12, <1>13, <1>14, Zenon DEF d, UndoneTrack

-----------------------------------------------------------------------------

(* The cursor makes room for a track that comes back before it. *)
LEMMA ShiftedIs ==
  ASSUME NEW p \in Nat, NEW i \in Nat, NEW q
  PROVE  /\ p = 0 /\ q = p => Shifted(p, i, q)
         /\ i <= p /\ p # 0 /\ q = p + 1 => Shifted(p, i, q)
         /\ ~(i <= p) /\ q = p => Shifted(p, i, q)
BY DEF Shifted

(* So it does when an album comes back. *)
LEMMA UndoAlbumShifts ==
  ASSUME NEW c, WellFormed(c), NEW r \in RemovalRecord, CanUndoRemoval(c, r), r.itemRemoved,
         NEW i, i = r.position.item, Plays(c), Plays(UndoRemoval(c, r)), WellFormed(UndoRemoval(c, r))
  PROVE  Shifted(FlatCursor(c), Begin(Lists(UndoRemoval(c, r)), i) + 1, FlatCursor(UndoRemoval(c, r)))
<1> DEFINE d == UndoRemoval(c, r)
           s == Lists(c)
           t == Lists(d)
           cur == c.current
           at == c.items[cur].at
           p == FlatCursor(c)
           q == FlatCursor(d)
           y == <<r.track>>
           P == Begin(t, i) + 1
<1>1. /\ i \in Nat /\ i \in 1..(Len(c.items) + 1) /\ r.track \in Tracks
      /\ t = InsertAt(s, i, y)
      /\ cur >= i => d.current = cur + 1
      /\ ~(cur >= i) => d.current = cur
      /\ cur # 0 => d.items[d.current] = c.items[cur]
  BY UndoAlbumIs
<1>2. y \in Seq(Tracks) /\ Len(y) = 1
  BY <1>1
<1>3. s \in Seq(Seq(Tracks)) /\ Len(s) = Len(c.items) /\ i \in 1..(Len(s) + 1)
  BY <1>1, ListsFacts
<1>4. cur \in 1..Len(s) /\ cur \in Nat /\ cur # 0 /\ at \in 1..Len(s[cur])
  BY <1>3, PlaysIs, ListsFacts, Facts
<1>5. p = Begin(s, cur) + at /\ p \in Nat
  BY CursorIs
<1>6. q = Begin(t, d.current) + at
  <2>1. q = Begin(t, d.current) + d.items[d.current].at
    BY CursorIs
  <2>2. QED
    BY <1>1, <1>4, <2>1, Zenon
<1> HIDE DEF s, y, cur, t, d, p, q, at
<1>7. /\ cur < i => Begin(InsertAt(s, i, y), cur) = Begin(s, cur) /\ Begin(s, cur) + Len(s[cur]) <= Begin(s, i)
      /\ ~(cur < i) => Begin(InsertAt(s, i, y), cur + 1) = Begin(s, cur) + Len(y) /\ Begin(s, i) <= Begin(s, cur)
      /\ Begin(s, i) \in Nat /\ Begin(s, cur) \in Nat
  <2>1. s \in Seq(Seq(Tracks)) /\ cur \in 1..Len(s) /\ i \in 1..(Len(s) + 1) /\ y \in Seq(Tracks)
    BY <1>2, <1>3, <1>4
  <2>2. QED
    BY <2>1, AroundInserted
<1>8. Begin(t, i) = Begin(s, i)
  <2>1. i <= i
    BY <1>1
  <2>2. i <= i => Begin(InsertAt(s, i, y), i) = Begin(s, i)
    BY <1>2, <1>3, BeginInserted
  <2>3. QED
    BY <1>1, <2>1, <2>2, Zenon
<1>9. Len(s[cur]) \in Nat
  BY <1>3, <1>4, BeginIs
<1> DEFINE B == Begin(s, i)
           C == Begin(s, cur)
           X == Len(s[cur])
<1>10. B \in Nat /\ C \in Nat /\ X \in Nat /\ at \in 1..X /\ p = C + at /\ P = B + 1
  BY <1>4, <1>5, <1>7, <1>8, <1>9, Zenon
<1>11. cur < i => q = C + at /\ C + X <= B
  <2>1. SUFFICES ASSUME cur < i PROVE q = C + at /\ C + X <= B
    OBVIOUS
  <2>2. ~(cur >= i)
    BY <1>1, <1>4, <2>1
  <2>3. QED
    BY <1>1, <1>6, <1>7, <2>1, <2>2, Zenon
<1>12. ~(cur < i) => q = (C + 1) + at /\ B <= C
  <2>1. SUFFICES ASSUME ~(cur < i) PROVE q = (C + 1) + at /\ B <= C
    OBVIOUS
  <2>2. cur >= i
    BY <1>1, <1>4, <2>1
  <2>3. QED
    BY <1>1, <1>2, <1>6, <1>7, <2>1, <2>2, Zenon
<1> HIDE DEF P, B, C, X
<1>13. Shifted(p, P, q)
  <2>1. P \in Nat /\ p \in Nat
    BY <1>5, <1>10
  <2>2. CASE cur < i
    <3>1. ~(P <= p) /\ q = p
      BY <1>10, <1>11, <2>2
    <3>2. QED
      BY <2>1, <3>1, ShiftedIs
  <2>3. CASE ~(cur < i)
    <3>1. P <= p /\ p # 0 /\ q = p + 1
      BY <1>10, <1>12, <2>3
    <3>2. QED
      BY <2>1, <3>1, ShiftedIs
  <2>4. QED
    BY <2>2, <2>3
<1>14. QED
  BY <1>13 DEF p, P, q, t, d

(* And when a track comes back into its album. *)
LEMMA UndoTrackShifts ==
  ASSUME NEW c, WellFormed(c), NEW r \in RemovalRecord, CanUndoRemoval(c, r), ~r.itemRemoved,
         NEW i, i = r.position.item, NEW k, k = r.position.track,
         Plays(c), Plays(UndoRemoval(c, r)), WellFormed(UndoRemoval(c, r))
  PROVE  Shifted(FlatCursor(c), Begin(Lists(UndoRemoval(c, r)), i) + k, FlatCursor(UndoRemoval(c, r)))
<1> DEFINE d == UndoRemoval(c, r)
           s == Lists(c)
           t == Lists(d)
           cur == c.current
           at == c.items[cur].at
           now == d.items[cur].at
           p == FlatCursor(c)
           q == FlatCursor(d)
           y == InsertAt(s[i], k, r.track)
           P == Begin(t, i) + k
<1>1. /\ i \in 1..Len(c.items) /\ i \in Nat /\ k \in Nat /\ k \in 1..(Len(s[i]) + 1) /\ r.track \in Tracks
      /\ t = WithPart(s, i, y)
      /\ d.current = cur
      /\ cur # i /\ cur # 0 => d.items[cur] = c.items[cur]
      /\ c.items[i].at >= k /\ cur = i => d.items[i].at = c.items[i].at + 1
      /\ ~(c.items[i].at >= k) /\ cur = i => d.items[i].at = c.items[i].at
  <2>1. UndoneTrack(c, r.position.item, r.position.track, r.track, UndoRemoval(c, r))
    BY UndoTrackIs
  <2>2. UndoneTrack(c, i, k, r.track, d)
    BY <2>1, Zenon
  <2>3. QED
    BY <2>2, Zenon DEF UndoneTrack
<1>2. s \in Seq(Seq(Tracks)) /\ Len(s) = Len(c.items) /\ i \in 1..Len(s)
  BY <1>1, ListsFacts
<1>3. cur \in 1..Len(s) /\ cur \in Nat /\ cur # 0 /\ at \in 1..Len(s[cur])
  BY <1>2, PlaysIs, ListsFacts, Facts
<1>4. p = Begin(s, cur) + at /\ p \in Nat
  BY CursorIs
<1>5. q = Begin(t, cur) + now
  BY <1>1, CursorIs
<1>6. /\ cur # i => now = at
      /\ cur = i /\ at >= k => now = at + 1
      /\ cur = i /\ ~(at >= k) => now = at
  BY <1>1, <1>3, Zenon
<1> HIDE DEF s, cur, t, d, p, q, at, now
<1>7. y \in Seq(Tracks) /\ Len(y) = Len(s[i]) + 1 /\ Len(s[i]) \in Nat
  <2>1. s[i] \in Seq(Tracks)
    BY <1>2, ElementOfSeq
  <2>2. k \in 1..(Len(s[i]) + 1) /\ r.track \in Tracks
    BY <1>1
  <2>3. QED
    BY <2>1, <2>2, Inserted, LenProperties
<1> HIDE DEF y
<1>8. \A z \in 1..(Len(s) + 1) :
        /\ z <= i => Begin(WithPart(s, i, y), z) = Begin(s, z)
        /\ z > i => Begin(WithPart(s, i, y), z) - Len(y) = Begin(s, z) - Len(s[i])
  BY <1>2, <1>7, BeginReplaced
<1>9. i <= i /\ i \in 1..(Len(s) + 1) /\ cur \in 1..(Len(s) + 1) /\ Len(s) \in Nat
  BY <1>2, <1>3, LenProperties
<1>10. /\ Begin(t, i) = Begin(s, i)
       /\ cur <= i => Begin(t, cur) = Begin(s, cur)
       /\ cur > i => Begin(t, cur) - Len(y) = Begin(s, cur) - Len(s[i])
  BY <1>1, <1>8, <1>9, Zenon
<1>11. /\ Begin(s, i) \in Nat /\ Begin(s, cur) \in Nat /\ Len(s[cur]) \in Nat
       /\ Begin(s, i + 1) = Begin(s, i) + Len(s[i]) /\ Begin(s, cur + 1) = Begin(s, cur) + Len(s[cur])
  BY <1>2, <1>3, BeginIs
<1>12. cur < i => Begin(s, cur + 1) <= Begin(s, i)
  <2>1. \A z \in 1..i : Begin(s, z) <= Begin(s, i)
    BY <1>2, <1>9, BeginOrder
  <2>2. cur < i => cur + 1 \in 1..i
    BY <1>9
  <2>3. QED
    BY <2>1, <2>2
<1>13. cur > i => Begin(s, i + 1) <= Begin(s, cur) /\ Begin(t, cur) \in Nat
  <2>1. \A z \in 1..cur : Begin(s, z) <= Begin(s, cur)
    BY <1>2, <1>9, BeginOrder
  <2>2. cur > i => i + 1 \in 1..cur
    BY <1>9
  <2>3. Begin(t, cur) \in Nat
    <3>1. WithPart(s, i, y) \in Seq(Seq(Tracks)) /\ Len(WithPart(s, i, y)) = Len(s)
      BY <1>2, <1>7, PartReplaced
    <3>2. t \in Seq(Seq(Tracks)) /\ cur \in 1..Len(t)
      BY <1>1, <1>3, <3>1, Zenon
    <3>3. QED
      BY <3>2, BeginIs
  <2>4. QED
    BY <2>1, <2>2, <2>3
<1> DEFINE B == Begin(s, i)
           C == Begin(s, cur)
           D == Begin(t, cur)
           X == Len(s[cur])
           n == Len(s[i])
<1>14. B \in Nat /\ C \in Nat /\ X \in Nat /\ n \in Nat /\ k \in 1..(n + 1) /\ at \in 1..X /\ p = C + at
       /\ P = B + k /\ q = D + now
  BY <1>1, <1>3, <1>4, <1>5, <1>7, <1>10, <1>11, Zenon
<1>15. cur < i => D = C /\ C + X <= B /\ now = at
  <2>1. cur < i => cur <= i /\ cur # i
    BY <1>9
  <2>2. QED
    BY <1>6, <1>10, <1>11, <1>12, <2>1
<1>16. cur = i => D = C /\ C = B
  <2>1. cur = i => cur <= i
    BY <1>9
  <2>2. QED
    BY <1>10, <2>1
<1>17. cur > i => D - (n + 1) = C - n /\ B + n <= C /\ D \in Nat /\ now = at
  <2>1. cur > i => cur # i
    BY <1>9
  <2>2. cur > i => D - (n + 1) = C - n
    BY <1>7, <1>10, Zenon
  <2>3. QED
    BY <1>6, <1>11, <1>13, <2>1, <2>2
<1> HIDE DEF P, B, C, X, D, n
<1>18. Shifted(p, P, q)
  <2>1. P \in Nat /\ p \in Nat
    <3>1. p \in Nat
      BY <1>4, Zenon
    <3>2. P \in Nat
      BY <1>14
    <3>3. QED
      BY <3>1, <3>2
  <2>2. CASE cur < i
    <3>1. ~(P <= p) /\ q = p
      BY <1>14, <1>15, <2>2
    <3>2. QED
      BY <2>1, <3>1, ShiftedIs
  <2>3. CASE cur > i
    <3>1. P <= p /\ p # 0 /\ q = p + 1
      BY <1>14, <1>17, <2>3
    <3>2. QED
      BY <2>1, <3>1, ShiftedIs
  <2>4. CASE cur = i /\ at >= k
    <3>1. P <= p /\ p # 0 /\ q = p + 1
      BY <1>6, <1>14, <1>16, <2>4
    <3>2. QED
      BY <2>1, <3>1, ShiftedIs
  <2>5. CASE cur = i /\ ~(at >= k)
    <3>1. ~(P <= p) /\ q = p
      BY <1>6, <1>14, <1>16, <2>5
    <3>2. QED
      BY <2>1, <3>1, ShiftedIs
  <2>6. QED
    BY <1>1, <1>3, <2>2, <2>3, <2>4, <2>5
<1>19. QED
  BY <1>18 DEF p, P, q, t, d

(* A known place is a place. *)
LEMMA PutsBackIs ==
  ASSUME NEW t, NEW i, NEW k, NEW l, NEW p, NEW q, NEW m, m = FlattenSeq(t),
         Lacks(t, i, k, l), Shifted(p, Begin(t, i) + k, q)
  PROVE  PutsBack(l, p, m, q)
BY DEF Lacks, PutsBack

(* undo_upcoming_track_removal puts the track back and the cursor stays on its own. *)
LEMMA UndoPutsBack ==
  ASSUME NEW c, WellFormed(c), NEW r \in RemovalRecord, CanUndoRemoval(c, r),
         NEW d, d = UndoRemoval(c, r)
  PROVE  PutsBack(FlatTracks(c), FlatCursor(c), FlatTracks(d), FlatCursor(d))
<1> DEFINE i == r.position.item
           k == r.position.track
           t == Lists(d)
           p == FlatCursor(c)
           q == FlatCursor(d)
           l == FlatTracks(c)
           m == FlatTracks(d)
<1>1. WellFormed(d)
  BY UndoRemovalWellFormed
<1>2. l = FlattenSeq(Lists(c)) /\ m = FlattenSeq(t)
  BY <1>1, FlatTracksType
<1>3. Plays(d) <=> Plays(c)
  BY UndoPutsBackAlbum, UndoPutsBackTrack DEF Plays
<1>4. Lists(c) \in Seq(Seq(Tracks)) /\ Len(Lists(c)) = Len(c.items)
  BY ListsFacts
<1>5. ~Plays(c) => p = 0 /\ q = 0
  BY <1>1, <1>3, CursorIs
<1>6. \A z : ~Plays(c) => Shifted(p, z, q)
  BY <1>5 DEF Shifted
<1>7. CASE r.itemRemoved
  <2>1. i \in 1..(Len(Lists(c)) + 1) /\ r.track \in Tracks /\ t = InsertAt(Lists(c), i, <<r.track>>)
    BY <1>4, <1>7, UndoAlbumIs
  <2>2. Lacks(t, i, 1, l)
    BY <1>2, <1>4, <2>1, LacksAlbum
  <2>3. Shifted(p, Begin(t, i) + 1, q)
    <3>1. CASE Plays(c)
      BY <1>1, <1>3, <1>7, <3>1, UndoAlbumShifts
    <3>2. CASE ~Plays(c)
      BY <1>6, <3>2
    <3>3. QED
      BY <3>1, <3>2
  <2> HIDE DEF t, l, p, q, m, i
  <2>4. PutsBack(l, p, m, q)
    BY <1>2, <2>2, <2>3, PutsBackIs
  <2>5. QED
    BY <2>4 DEF l, p, m, q
<1>8. CASE ~r.itemRemoved
  <2>1. /\ i \in 1..Len(Lists(c)) /\ k \in 1..(Len(Lists(c)[i]) + 1) /\ r.track \in Tracks
        /\ t = WithPart(Lists(c), i, InsertAt(Lists(c)[i], k, r.track))
    <3>1. UndoneTrack(c, r.position.item, r.position.track, r.track, UndoRemoval(c, r))
      BY <1>8, UndoTrackIs
    <3>2. UndoneTrack(c, i, k, r.track, d)
      BY <3>1, Zenon
    <3>3. QED
      BY <1>4, <3>2, Zenon DEF UndoneTrack
  <2>2. Lacks(t, i, k, l)
    <3> HIDE DEF t, l, i, k
    <3>1. Lacks(t, i, k, FlattenSeq(Lists(c)))
      BY <1>4, <2>1, LacksTrack
    <3>2. QED
      BY <1>2, <3>1, Zenon
  <2>3. Shifted(p, Begin(t, i) + k, q)
    <3>1. CASE Plays(c)
      BY <1>1, <1>3, <1>8, <3>1, UndoTrackShifts
    <3>2. CASE ~Plays(c)
      BY <1>6, <3>2
    <3>3. QED
      BY <3>1, <3>2
  <2> HIDE DEF t, l, p, q, m, i, k
  <2>4. PutsBack(l, p, m, q)
    BY <1>2, <2>2, <2>3, PutsBackIs
  <2>5. QED
    BY <2>4 DEF l, p, m, q
<1>9. QED
  BY <1>7, <1>8

(* The flat list after a step is that of the new queue. *)
LEMMA NowFlat ==
  ASSUME NEW d, ctrl' = d
  PROVE  FlatTracks(ctrl)' = FlatTracks(d) /\ FlatCursor(ctrl)' = FlatCursor(d)
OBVIOUS

(* TrackList sees the same sequence operators as the queue. *)
LEMMA SameOperators ==
  /\ \A s, t : FlatList!IsPrefix(s, t) = IsPrefix(s, t)
  /\ \A s, i : FlatList!RemoveAt(s, i) = RemoveAt(s, i)
  /\ \A s, i, e : FlatList!InsertAt(s, i, e) = InsertAt(s, i, e)
<1>1. ASSUME NEW s, NEW t PROVE FlatList!IsPrefix(s, t) = IsPrefix(s, t)
  BY Zenon DEF IsPrefix, FlatList!IsPrefix
<1>2. ASSUME NEW s, NEW i PROVE FlatList!RemoveAt(s, i) = RemoveAt(s, i)
  BY Zenon DEF RemoveAt, FlatList!RemoveAt
<1>3. ASSUME NEW s, NEW i, NEW e PROVE FlatList!InsertAt(s, i, e) = InsertAt(s, i, e)
  BY Zenon DEF InsertAt, FlatList!InsertAt
<1>4. QED
  BY <1>1, <1>2, <1>3, Zenon

(* Each of the things an operation may do to the flat list is an action of TrackList. *)
LEMMA AppendsStep ==
  ASSUME NEW d, ctrl' = d, before' = <<>>, Appends(ctrl, d)
  PROVE  FlatList!Next
<1>1. FlatTracks(ctrl)' = FlatTracks(d) /\ FlatCursor(ctrl)' = FlatCursor(d)
  BY NowFlat
<1>2. FlatList!AppendTracks
  BY <1>1, SameOperators, Zenon DEF FlatList!AppendTracks, Appends
<1>3. QED
  BY <1>2, Zenon DEF FlatList!Edit, FlatList!Next

LEMMA SchedulesStep ==
  ASSUME NEW d, ctrl' = d, before' = <<>>, FlatCursor(d) = FlatCursor(ctrl),
         Schedules(FlatTracks(ctrl), FlatCursor(ctrl), FlatTracks(d))
  PROVE  FlatList!Next
<1>1. FlatTracks(ctrl)' = FlatTracks(d) /\ FlatCursor(ctrl)' = FlatCursor(d)
  BY NowFlat
<1>2. FlatList!ScheduleNext
  BY <1>1, Zenon DEF FlatList!ScheduleNext, FlatList!Paste, Schedules, Pasted
<1>3. QED
  BY <1>2, Zenon DEF FlatList!Edit, FlatList!Next

LEMMA MovesStep ==
  ASSUME NEW d, ctrl' = d, before' = <<>>, FlatCursor(d) = FlatCursor(ctrl),
         MovesAfter(FlatTracks(ctrl), FlatCursor(ctrl), FlatTracks(d))
  PROVE  FlatList!Next
<1>1. FlatTracks(ctrl)' = FlatTracks(d) /\ FlatCursor(ctrl)' = FlatCursor(d)
  BY NowFlat
<1>2. FlatCursor(ctrl)' = FlatCursor(ctrl)
  BY <1>1, Zenon
<1>3. PICK i, j \in FlatCursor(ctrl) + 1 .. Len(FlatTracks(ctrl)) :
         FlatTracks(d) = InsertAt(RemoveAt(FlatTracks(ctrl), i), j, FlatTracks(ctrl)[i])
  BY Zenon DEF MovesAfter
<1>4. FlatTracks(ctrl)' = InsertAt(RemoveAt(FlatTracks(ctrl), i), j, FlatTracks(ctrl)[i])
  BY <1>1, <1>3, Zenon
<1>5. FlatList!MoveUpcoming
  BY <1>2, <1>4, SameOperators, Zenon DEF FlatList!MoveUpcoming
<1>6. QED
  BY <1>5, Zenon DEF FlatList!Edit, FlatList!Next

LEMMA CutsStep ==
  ASSUME WellFormed(ctrl), NEW d, ctrl' = d, before' = <<>>,
         Cuts(FlatTracks(ctrl), FlatCursor(ctrl), FlatTracks(d), FlatCursor(d))
  PROVE  FlatList!Next
<1>1. FlatTracks(ctrl)' = FlatTracks(d) /\ FlatCursor(ctrl)' = FlatCursor(d)
  BY NowFlat
<1>2. DOMAIN FlatTracks(ctrl) = 1..Len(FlatTracks(ctrl))
  BY FlatTracksType, LenProperties
<1>3. FlatList!RemoveBlock
  BY <1>1, <1>2, Zenon DEF FlatList!RemoveBlock, FlatList!Cut, Cuts, Kept, CursorAfterCut
<1>4. QED
  BY <1>3, Zenon DEF FlatList!Edit, FlatList!Next

LEMMA MovesBlockStep ==
  ASSUME WellFormed(ctrl), NEW d, ctrl' = d, before' = <<>>,
         MovesBlock(FlatTracks(ctrl), FlatCursor(ctrl), FlatTracks(d), FlatCursor(d))
  PROVE  FlatList!Next
<1>1. FlatTracks(ctrl)' = FlatTracks(d) /\ FlatCursor(ctrl)' = FlatCursor(d)
  BY NowFlat
<1>2. DOMAIN FlatTracks(ctrl) = 1..Len(FlatTracks(ctrl))
  BY FlatTracksType, LenProperties
<1>3. FlatList!MoveBlock
  BY <1>1, <1>2, Zenon
     DEF FlatList!MoveBlock, FlatList!Cut, FlatList!Paste, MovesBlock, Kept, Pasted, MovedCursor
<1>4. QED
  BY <1>3, Zenon DEF FlatList!Edit, FlatList!Next

LEMMA TakesStep ==
  ASSUME NEW d, ctrl' = d, before' = FlatTracks(ctrl), FlatCursor(d) = FlatCursor(ctrl),
         TakesAfter(FlatTracks(ctrl), FlatCursor(ctrl), FlatTracks(d))
  PROVE  FlatList!Next
<1>1. FlatTracks(ctrl)' = FlatTracks(d) /\ FlatCursor(ctrl)' = FlatCursor(d)
  BY NowFlat
<1>2. FlatCursor(ctrl)' = FlatCursor(ctrl)
  BY <1>1, Zenon
<1>3. PICK i \in FlatCursor(ctrl) + 1 .. Len(FlatTracks(ctrl)) :
         FlatTracks(d) = RemoveAt(FlatTracks(ctrl), i)
  BY Zenon DEF TakesAfter
<1>4. FlatTracks(ctrl)' = RemoveAt(FlatTracks(ctrl), i)
  BY <1>1, <1>3, Zenon
<1>5. FlatList!RemoveUpcoming
  BY <1>2, <1>4, SameOperators, Zenon DEF FlatList!RemoveUpcoming
<1>6. QED
  BY <1>5, Zenon DEF FlatList!Next

LEMMA PutsBackStep ==
  ASSUME NEW d, WellFormed(d), ctrl' = d, before' = <<>>, FlatTracks(d) = before,
         PutsBack(FlatTracks(ctrl), FlatCursor(ctrl), FlatTracks(d), FlatCursor(d))
  PROVE  FlatList!Next
<1>1. FlatTracks(ctrl)' = FlatTracks(d) /\ FlatCursor(ctrl)' = FlatCursor(d)
  BY NowFlat
<1>2. DOMAIN before = 1..Len(FlatTracks(d))
  <2>1. FlatTracks(d) \in Seq(Tracks)
    BY FlatTracksType
  <2>2. DOMAIN FlatTracks(d) = 1..Len(FlatTracks(d))
    BY <2>1
  <2>3. QED
    BY <2>2, Zenon
<1>3. FlatList!PutBack
  BY <1>1, <1>2, SameOperators, Zenon DEF FlatList!PutBack, PutsBack, Shifted
<1>4. QED
  BY <1>3, Zenon DEF FlatList!Next

LEMMA NavigatesStep ==
  ASSUME WellFormed(ctrl), NEW d, Navigate(d), Navigates(ctrl, d)
  PROVE  FlatList!Next
<1>1. FlatTracks(ctrl)' = FlatTracks(d) /\ FlatCursor(ctrl)' = FlatCursor(d) /\ before' = before
  BY NowFlat DEF Navigate
<1>2. FlatList!Navigate
  BY <1>1, NavigatesFlat DEF FlatList!Navigate
<1>3. QED
  BY <1>2, Zenon DEF FlatList!Next

(* The empty queue is the empty list. *)
LEMMA NothingQueued ==
  /\ FlatTracks(EmptyController) = <<>>
  /\ FlatCursor(EmptyController) = 0
<1>1. EmptyController.items = <<>> /\ EmptyController.current = 0
  BY DEF EmptyController
<1>2. [i \in DOMAIN EmptyController.items |-> EmptyController.items[i].tracks] = <<>>
  BY <1>1
<1>3. FlatTracks(EmptyController) = <<>>
  BY <1>2, FlattenNone, Zenon DEF FlatTracks
<1>4. CurrentTrack(EmptyController) = NoTrack
  BY <1>1 DEF CurrentTrack
<1>5. QED
  BY <1>3, <1>4 DEF FlatCursor

LEMMA ClearStep ==
  ASSUME ctrl' = EmptyController, before' = <<>>
  PROVE  FlatList!Next
<1>1. FlatTracks(ctrl)' = <<>> /\ FlatCursor(ctrl)' = 0
  BY NothingQueued, NowFlat
<1>2. FlatList!Clear
  BY <1>1 DEF FlatList!Clear
<1>3. QED
  BY <1>2, Zenon DEF FlatList!Edit, FlatList!Next

(* Initial states map to initial states. *)
LEMMA InitFlat == Init => FlatList!Init
BY NothingQueued DEF Init, FlatList!Init

FlatStep == [FlatList!Next]_(<<FlatTracks(ctrl), FlatCursor(ctrl), before>>)

(* Every step maps to a step of TrackList or to a stutter. The type invariant gives the
   shape of the albums, UndoInv that an undo brings back what `held` says. *)
LEMMA NextFlat == TypeOK /\ UndoInv /\ [Next]_vars => FlatStep
<1> SUFFICES ASSUME TypeOK, UndoInv, [Next]_vars PROVE FlatStep
  OBVIOUS
<1>1. WellFormed(ctrl)
  BY DEF TypeOK
<1>2. FlatList!Next => FlatStep
  BY DEF FlatStep
<1> HIDE DEF FlatStep
<1>3. ASSUME NEW album \in Albums, Add(album) \/ PlayAlbum(album) PROVE FlatStep
  <2>1. album \in Seq(Tracks) /\ album # <<>>
    BY AlbumsAssumption
  <2>2. Appends(ctrl, AddAlbum(ctrl, album)) /\ Appends(ctrl, PlayAlbumNow(ctrl, album))
    BY <1>1, <2>1, AddAlbumAppends
  <2>3. QED
    BY <1>2, <1>3, <2>2, AppendsStep DEF Add, PlayAlbum, Edit
<1>4. ASSUME NEW album \in Albums, Enqueue(album) PROVE FlatStep
  <2>1. album \in Seq(Tracks) /\ album # <<>>
    BY AlbumsAssumption
  <2>2. PICK d : d = EnqueueNext(ctrl, album)
    OBVIOUS
  <2>3. Schedules(FlatTracks(ctrl), FlatCursor(ctrl), FlatTracks(d)) /\ FlatCursor(d) = FlatCursor(ctrl)
    BY <1>1, <2>1, <2>2, EnqueueNextSchedules
  <2>4. ctrl' = d /\ before' = <<>>
    BY <1>4, <2>2 DEF Enqueue, Edit
  <2>5. QED
    BY <1>2, <2>3, <2>4, SchedulesStep
<1>5. ASSUME NEW paths \in Playlists, AppendPlaylist(paths) PROVE FlatStep
  <2>1. paths \in Seq(Tracks)
    BY AlbumsAssumption
  <2>2. Appends(ctrl, EnqueuePlaylist(ctrl, paths))
    BY <1>1, <2>1, EnqueuePlaylistAppends
  <2>3. QED
    BY <1>2, <1>5, <2>2, AppendsStep DEF AppendPlaylist, Edit
<1>6. ASSUME NEW i \in ItemPositions, RemoveItem(i) PROVE FlatStep
  <2>1. PICK d : d = RemoveAlbum(ctrl, i)
    OBVIOUS
  <2>2. Cuts(FlatTracks(ctrl), FlatCursor(ctrl), FlatTracks(d), FlatCursor(d))
    BY <1>1, <2>1, RemoveAlbumCuts DEF ItemPositions
  <2>3. ctrl' = d /\ before' = <<>>
    BY <1>6, <2>1 DEF RemoveItem, Edit
  <2>4. QED
    BY <1>1, <1>2, <2>2, <2>3, CutsStep
<1>7. ASSUME NEW i \in ItemPositions, Jump(i) PROVE FlatStep
  <2>1. Navigates(ctrl, JumpTo(ctrl, i)) /\ Navigate(JumpTo(ctrl, i))
    BY <1>1, <1>7, JumpToNavigates DEF Jump, ItemPositions
  <2>2. QED
    BY <1>1, <1>2, <2>1, NavigatesStep
<1>8. ASSUME NEW i \in ItemPositions, Select(i) PROVE FlatStep
  <2>1. Navigates(ctrl, [ctrl EXCEPT !.selected = i]) /\ Navigate([ctrl EXCEPT !.selected = i])
    BY <1>1, <1>8, SelectNavigates DEF Select, ItemPositions
  <2>2. QED
    BY <1>1, <1>2, <2>1, NavigatesStep
<1>9. ASSUME NEW i \in ItemPositions, NEW j \in ItemPositions, Reorder(i, j) PROVE FlatStep
  <2>1. PICK d : d = MoveItem(ctrl, i, j)
    OBVIOUS
  <2>2. MovesBlock(FlatTracks(ctrl), FlatCursor(ctrl), FlatTracks(d), FlatCursor(d))
    BY <1>1, <2>1, MoveItemMovesBlock DEF ItemPositions
  <2>3. ctrl' = d /\ before' = <<>>
    BY <1>9, <2>1 DEF Reorder, Edit
  <2>4. QED
    BY <1>1, <1>2, <2>2, <2>3, MovesBlockStep
<1>10. ASSUME NEW i \in Rows, NEW j \in Rows, MoveTrack(i, j) PROVE FlatStep
  <2>1. PICK d : d = MoveUpcoming(ctrl, i, j)
    OBVIOUS
  <2>2. MovesAfter(FlatTracks(ctrl), FlatCursor(ctrl), FlatTracks(d)) /\ FlatCursor(d) = FlatCursor(ctrl)
    BY <1>1, <2>1, MoveUpcomingMoves DEF Rows
  <2>3. ctrl' = d /\ before' = <<>>
    BY <1>10, <2>1 DEF MoveTrack, Edit
  <2>4. QED
    BY <1>2, <2>2, <2>3, MovesStep
<1>11. ASSUME NEW i \in Rows, RemoveTrack(i) PROVE FlatStep
  <2>1. PICK d : d = TakeUpcoming(ctrl, Upcoming(ctrl)[i])
    OBVIOUS
  <2>2. TakesAfter(FlatTracks(ctrl), FlatCursor(ctrl), FlatTracks(d)) /\ FlatCursor(d) = FlatCursor(ctrl)
    BY <1>1, <2>1, TakeUpcomingTakes DEF Rows
  <2>3. ctrl' = d /\ before' = FlatTracks(ctrl)
    BY <1>11, <2>1 DEF RemoveTrack
  <2>4. QED
    BY <1>2, <2>2, <2>3, TakesStep
<1>12. ASSUME NEW i \in Rows, PlayRow(i) PROVE FlatStep
  <2>1. Navigates(ctrl, PlayUpcoming(ctrl, i)) /\ Navigate(PlayUpcoming(ctrl, i))
    BY <1>1, <1>12, PlayUpcomingNavigates DEF PlayRow, Rows
  <2>2. QED
    BY <1>1, <1>2, <2>1, NavigatesStep
<1>13. ASSUME NEW t \in Tracks, PlaySingle(t) PROVE FlatStep
  <2>1. CASE InQueue(ctrl, t) /\ Navigate(PlaySingleFileNow(ctrl, t))
    <3>1. Navigates(ctrl, PlaySingleFileNow(ctrl, t))
      BY <1>1, <2>1, PlaySingleNavigates
    <3>2. QED
      BY <1>1, <1>2, <2>1, <3>1, NavigatesStep
  <2>2. CASE ~InQueue(ctrl, t) /\ Edit(PlaySingleFileNow(ctrl, t))
    <3>1. PlaySingleFileNow(ctrl, t) = PlayAlbumNow(ctrl, <<t>>)
      BY <2>2 DEF PlaySingleFileNow
    <3>2. <<t>> \in Seq(Tracks) /\ <<t>> # <<>>
      OBVIOUS
    <3>3. Appends(ctrl, PlayAlbumNow(ctrl, <<t>>))
      BY <1>1, <3>2, AddAlbumAppends
    <3>4. ctrl' = PlayAlbumNow(ctrl, <<t>>) /\ before' = <<>>
      BY <2>2, <3>1 DEF Edit
    <3>5. QED
      BY <1>2, <3>3, <3>4, AppendsStep
  <2>3. QED
    BY <1>13, <2>1, <2>2 DEF PlaySingle
<1>14. CASE Clear
  BY <1>2, <1>14, ClearStep DEF Clear, Edit
<1>15. CASE Undo
  <2>1. undo \in RemovalRecord
    BY <1>15 DEF TypeOK, Undo
  <2>2. CanUndoRemoval(ctrl, undo)
    BY <1>1, <1>15, <2>1, CanPutBackCanUndo DEF UndoInv, Undo
  <2>3. PICK d : d = UndoRemoval(ctrl, undo)
    OBVIOUS
  <2>4. ctrl' = d /\ before' = <<>>
    BY <1>15, <2>2, <2>3 DEF Undo, Edit
  <2>5. WellFormed(d)
    BY <1>1, <2>1, <2>2, <2>3, UndoRemovalWellFormed
  <2>6. PutsBack(FlatTracks(ctrl), FlatCursor(ctrl), FlatTracks(d), FlatCursor(d))
    BY <1>1, <2>1, <2>2, <2>3, UndoPutsBack
  <2>7. FlatTracks(ctrl') = before
    BY <1>15, UndoStep
  <2>8. FlatTracks(d) = before
    BY <2>4, <2>7
  <2>9. QED
    BY <1>2, <2>4, <2>5, <2>6, <2>8, PutsBackStep
<1>16. CASE Start
  <2>1. 1 \in DOMAIN ctrl.items
    BY <1>1, <1>16, Facts, EmptySeq DEF Start
  <2>2. Navigates(ctrl, JumpTo(ctrl, 1)) /\ Navigate(JumpTo(ctrl, 1))
    BY <1>1, <1>16, <2>1, JumpToNavigates DEF Start
  <2>3. QED
    BY <1>1, <1>2, <2>2, NavigatesStep
<1>17. CASE Advance
  <2>1. Navigates(ctrl, NextTrack(ctrl)) /\ Navigate(NextTrack(ctrl))
    BY <1>1, <1>17, NextTrackNavigates DEF Advance
  <2>2. QED
    BY <1>1, <1>2, <2>1, NavigatesStep
<1>18. CASE Back
  <2>1. Navigates(ctrl, PreviousTrack(ctrl)) /\ Navigate(PreviousTrack(ctrl))
    BY <1>1, <1>18, PreviousTrackNavigates DEF Back
  <2>2. QED
    BY <1>1, <1>2, <2>1, NavigatesStep
<1>19. CASE UNCHANGED vars
  BY <1>19 DEF vars, FlatStep
<1>20. QED
  BY <1>3, <1>4, <1>5, <1>6, <1>7, <1>8, <1>9, <1>10, <1>11, <1>12, <1>13, <1>14, <1>15, <1>16,
     <1>17, <1>18, <1>19 DEF Next

(* The queue of albums (queue.rs and controllers/queue.rs, with their splitting, joining and
   cursor corrections) implements the list of tracks: no operation plays, skips, loses or
   repeats a track that the list with one cursor would not. *)
THEOREM AlwaysATrackList == Spec => ImplementsTrackList
<1>1. Init => TypeOK /\ UndoInv
  BY InitTypeOK DEF Init, UndoInv
<1>2. TypeOK /\ UndoInv /\ [Next]_vars => (TypeOK /\ UndoInv)'
  BY NextTypeOK, NextUndoInv
<1>3. TypeOK /\ UndoInv /\ [Next]_vars => [FlatList!Next]_(<<FlatTracks(ctrl), FlatCursor(ctrl), before>>)
  BY NextFlat DEF FlatStep
<1>4. Init => FlatList!Init
  BY InitFlat
<1>5. QED
  BY <1>1, <1>2, <1>3, <1>4, PTL DEF Spec, ImplementsTrackList, FlatList!Spec
==============================================================================
