----------------------------- MODULE QueueState -----------------------------
(***************************************************************************)
(* The GPUI application around the queue: QueueState (crates/app-gpui/app/ *)
(* state/app/queue_state.rs: the controller, the rows shown for it and one *)
(* undo slot), the App methods of app/queue.rs that keep the playback      *)
(* state beside it, and the handlers of ui/ and components/ that call them *)
(* and pass the effect on to the player.                                   *)
(*                                                                         *)
(* Every handler runs to completion on the UI thread, and the commands it  *)
(* sends reach the player in order (PlayerHandle), so a handler is one     *)
(* step here.  Only the engine itself and the timer tick come in between.  *)
(***************************************************************************)
EXTENDS QueueOps

CONSTANTS
  Albums,     \* the library's albums, which share no track
  Playlists,  \* the playlists that can be queued
  Files,      \* files played on their own, from outside the library or in it
  MaxTracks,  \* bound: tracks in the queue, and items
  Interfaces  \* the sets of surfaces that can be in use together

AllSurfaces == {"library", "queue", "flat_queue", "transport", "playlists", "phone", "files"}

ASSUME QueueStateAssumption ==
  /\ Albums \subseteq Seq(Tracks) \ {<<>>}
  /\ \A a, b \in Albums : a # b => Range(a) \cap Range(b) = {}
  /\ Playlists \subseteq Seq(Tracks) /\ Files \subseteq Tracks
  /\ MaxTracks \in Nat
  /\ \A shell \in Interfaces : shell \subseteq AllSurfaces

VARIABLES
  surfaces,   \* the parts of the interface in use; none once the application is gone
  ctrl,       \* QueueState.ctrl
  rows,       \* the length of QueueState.expanded
  selected,   \* QueueState.selected_index
  slot,       \* last_cleared, last_removed or last_removed_track: one at most is set
  uiCurrent,  \* playback.current_queue_index
  isPlaying,  \* playback.is_playing
  engine,     \* [track, state] of the player behind the handle
  after       \* history: the flat list the last destructive action left behind
queue == <<ctrl, rows, selected, slot>>
vars == <<surfaces, queue, uiCurrent, isPlaying, engine, after>>

NoSlot == [kind |-> "none"]
UndoSlot ==
  [kind : {"cleared", "removed"}, ctrl : Controller, rows : Nat, selected : Nat \ {0},
   wasCurrent : BOOLEAN]
  \cup [kind : {"track"}, removal : RemovalRecord]
  \cup {NoSlot}

TypeOK ==
  /\ surfaces \in Interfaces \cup {{}}
  /\ ctrl \in Controller
  /\ rows \in Nat
  /\ selected \in Nat \ {0}
  /\ slot \in UndoSlot
  /\ uiCurrent \in Nat
  /\ isPlaying \in BOOLEAN
  /\ engine \in [track : Tracks \cup {NoTrack}, state : {"stopped", "playing", "paused", "ended"}]
  /\ after \in Seq(Tracks)

Stopped == [track |-> NoTrack, state |-> "stopped"]
Ended == [track |-> NoTrack, state |-> "ended"]   \* stopped, and the UI not told yet
Audible(e) == e.state \in {"playing", "paused"}

Init ==
  /\ surfaces \in Interfaces
  /\ ctrl = EmptyController /\ rows = 0 /\ selected = 1 /\ slot = NoSlot
  /\ uiCurrent = 0 /\ isPlaying = FALSE /\ engine = Stopped
  /\ after = <<>>

On(surface) == surface \in surfaces /\ UNCHANGED surfaces
Room(n) == Len(FlatTracks(ctrl)) + n <= MaxTracks /\ Len(ctrl.items) + n <= MaxTracks
Items == DOMAIN ctrl.items
Rows == DOMAIN Upcoming(ctrl)

-----------------------------------------------------------------------------
(* What handlers do with the audio, and with the copy of the cursor the    *)
(* rest of the UI reads (App::sync_queue_index).                           *)

Play(t) == engine' = [track |-> t, state |-> "playing"] /\ isPlaying' = TRUE
PlayCursor == IF CurrentTrack(ctrl') = NoTrack THEN UNCHANGED <<engine, isPlaying>>
              ELSE Play(CurrentTrack(ctrl'))
SameAudio == UNCHANGED <<engine, isPlaying>>
Sync == uiCurrent' = ctrl'.current

InvalidateUndo == slot' = NoSlot /\ after' = <<>>
KeepUndo == UNCHANGED <<slot, after>>
Offer(record) == slot' = record /\ after' = FlatTracks(ctrl')
Snapshot(kind, wasCurrent) ==
  [kind |-> kind, ctrl |-> ctrl, rows |-> rows, selected |-> selected, wasCurrent |-> wasCurrent]

(* Faulty: clamps to the last row even when there is none. *)
ClampToLast(index, c) == IF index > Len(c.items) THEN Len(c.items) ELSE index

ClampTo(index, c) == IF index > Len(c.items) THEN IF c.items = <<>> THEN 1 ELSE Len(c.items)
                     ELSE index

(* A panic in a handler takes the application and its player down. *)
Panic ==
  /\ surfaces' = {} /\ ctrl' = EmptyController /\ rows' = 0 /\ selected' = 1
  /\ uiCurrent' = 0 /\ isPlaying' = FALSE /\ engine' = Stopped /\ InvalidateUndo

-----------------------------------------------------------------------------
(* The library, the album page and the playlists. *)

(* "Append" on the album page, a stream, and one album of fill_magic. *)
AppendAlbum(album) ==
  /\ On("library") /\ Room(Len(album))
  /\ ctrl' = AddAlbum(ctrl, album)
  /\ rows' = rows + 1
  /\ InvalidateUndo /\ SameAudio /\ UNCHANGED <<selected, uiCurrent>>

(* The items with the album's id: every item cut from an album keeps it. *)
Queued(album) == {i \in Items : Range(ctrl.items[i].tracks) \subseteq Range(album)}

(* The library's own append leaves a queued album alone.  A file played on *)
(* its own has no album id, so it need not count as the album.             *)
AddAlbumToQueue(album) ==
  \/ /\ On("library") /\ Queued(album) # {}
     /\ KeepUndo /\ SameAudio /\ UNCHANGED <<ctrl, rows, selected, uiCurrent>>
  \/ (Queued(album) = {} \/ "files" \in surfaces) /\ AppendAlbum(album)

PlayAlbumFromPage(album) ==
  /\ On("library") /\ Room(Len(album))
  /\ ctrl' = PlayAlbumNow(ctrl, album)
  /\ rows' = rows + 1
  /\ InvalidateUndo /\ Sync /\ PlayCursor /\ UNCHANGED selected

(* The library's own play action goes back to the album if it is queued. *)
PlayQueuedAlbum(album) ==
  /\ On("library") /\ Queued(album) # {}
  /\ ctrl' = JumpTo(ctrl, CHOOSE i \in Queued(album) : \A j \in Queued(album) : i <= j)
  /\ KeepUndo /\ Sync /\ PlayCursor /\ UNCHANGED <<rows, selected>>

(* Faulty: shows one more row although an album may have been split. *)
EnqueueAlbumNextOneRow(album) ==
  /\ On("library") /\ Room(Len(album))
  /\ ctrl' = EnqueueNext(ctrl, album)
  /\ rows' = rows + 1 /\ selected' = ctrl'.selected
  /\ InvalidateUndo /\ SameAudio /\ UNCHANGED uiCurrent

(* Vec::splice panics past the end of the rows. *)
EnqueueAlbumNext(album) ==
  LET place == IF ctrl.current \in Items THEN ctrl.current + 1 ELSE 1
      added == Len(EnqueueNext(ctrl, album).items) - Len(ctrl.items)
  IN \/ /\ On("library") /\ Room(Len(album)) /\ place <= rows + 1
        /\ ctrl' = EnqueueNext(ctrl, album)
        /\ rows' = rows + added
        /\ selected' = IF selected >= place /\ ctrl.items # <<>> THEN selected + added
                       ELSE selected
        /\ InvalidateUndo /\ SameAudio /\ UNCHANGED uiCurrent
     \/ "library" \in surfaces /\ Room(Len(album)) /\ place > rows + 1 /\ Panic

(* The playlist page jumps through the controller and leaves the UI's copy *)
(* of the cursor as it was.                                                *)
QueuePlaylist(paths, playNow) ==
  /\ On("playlists") /\ Room(Len(paths))
  /\ LET queued == EnqueuePlaylist(ctrl, paths)
         added  == Len(queued.items) - Len(ctrl.items)
     IN /\ rows' = rows + added
        /\ IF playNow /\ added > 0
           THEN ctrl' = JumpTo(queued, Len(ctrl.items) + 1) /\ PlayCursor
           ELSE ctrl' = queued /\ SameAudio
  /\ InvalidateUndo /\ UNCHANGED <<selected, uiCurrent>>

(* play_single_audio_file reaches the controller through DerefMut. *)
PlayFile(t) ==
  /\ On("files") /\ (InQueue(ctrl, t) \/ Room(1))
  /\ ctrl' = PlaySingleFileNow(ctrl, t)
  /\ KeepUndo /\ Sync /\ PlayCursor /\ UNCHANGED <<rows, selected>>

-----------------------------------------------------------------------------
(* The queue screen. *)

(* Faulty: drops the Reload effect, and leaves the selection where it was. *)
RemoveThenSyncSilently(from, i) ==
  /\ ctrl' = RemoveAlbum(from, i)
  /\ rows' = IF i <= rows THEN rows - 1 ELSE Len(ctrl'.items)
  /\ Offer([Snapshot("removed", from.current = i) EXCEPT !.ctrl = from])
  /\ Sync /\ SameAudio /\ UNCHANGED selected

(* App::remove_from_queue and its handlers: reload only what was audible. *)
RemoveThenSync(from, i) ==
  LET wasCurrent == from.current = i IN
  /\ ctrl' = RemoveAlbum(from, i)
  /\ rows' = IF i <= rows THEN rows - 1 ELSE Len(ctrl'.items)
  /\ selected' = ClampTo(selected, ctrl')
  /\ Offer([Snapshot("removed", wasCurrent) EXCEPT !.ctrl = from])
  /\ Sync
  /\ CASE wasCurrent /\ CurrentTrack(ctrl') = NoTrack -> engine' = Stopped /\ isPlaying' = FALSE
       [] wasCurrent /\ CurrentTrack(ctrl') # NoTrack /\ isPlaying -> PlayCursor
       [] OTHER -> SameAudio

RemoveFromQueue(i) == On("queue") /\ i \in Items /\ RemoveThenSync(ctrl, i)

(* Faulty: a reorder keeps the undo on offer. *)
MoveQueueItemKeepingUndo(from, to) ==
  /\ On("queue") /\ CanMoveItem(ctrl, from, to)
  /\ ctrl' = MoveItem([ctrl EXCEPT !.selected = selected], from, to)
  /\ selected' = ctrl'.selected
  /\ KeepUndo /\ Sync /\ SameAudio /\ UNCHANGED rows

(* Vec::remove and insert panic past the end of the rows. *)
MoveQueueItem(from, to) ==
  LET bridged == [ctrl EXCEPT !.selected = selected]
      fits == from <= rows /\ to <= rows
  IN \/ /\ On("queue") /\ ~CanMoveItem(ctrl, from, to)
        /\ ctrl' = bridged
        /\ KeepUndo /\ SameAudio /\ UNCHANGED <<rows, selected, uiCurrent>>
     \/ /\ On("queue") /\ CanMoveItem(ctrl, from, to) /\ fits
        /\ ctrl' = MoveItem(bridged, from, to)
        /\ selected' = ctrl'.selected
        /\ InvalidateUndo /\ Sync /\ SameAudio /\ UNCHANGED rows
     \/ "queue" \in surfaces /\ CanMoveItem(ctrl, from, to) /\ ~fits /\ Panic

(* Neither handler stops the player. *)
ClearQueue ==
  /\ On("queue") \/ On("flat_queue")
  /\ ctrl' = EmptyController /\ rows' = 0 /\ selected' = 1
  /\ IF ctrl.items = <<>> THEN InvalidateUndo ELSE Offer(Snapshot("cleared", FALSE))
  /\ Sync /\ isPlaying' = FALSE /\ UNCHANGED engine

Restore(snapshot) ==
  /\ ctrl' = snapshot.ctrl /\ rows' = snapshot.rows
  /\ selected' = ClampTo(snapshot.selected, snapshot.ctrl)
  /\ InvalidateUndo /\ Sync

UndoClear == On("queue") /\ slot.kind = "cleared" /\ Restore(slot) /\ SameAudio

(* QueueState::undo_remove for an item, and App::undo_remove_from_queue. *)
UndoRemoveItem ==
  /\ On("queue") \/ On("flat_queue")
  /\ slot.kind = "removed"
  /\ Restore(slot)
  /\ CASE isPlaying /\ slot.wasCurrent /\ CurrentTrack(ctrl') # NoTrack -> PlayCursor
       [] isPlaying /\ slot.wasCurrent /\ CurrentTrack(ctrl') = NoTrack ->
            engine' = Stopped /\ UNCHANGED isPlaying
       [] OTHER -> SameAudio

(* A click on a track of an expanded album. *)
ClickTrack(i, k) ==
  /\ On("queue") /\ i \in Items /\ k \in DOMAIN ctrl.items[i].tracks
  /\ ctrl' = [ctrl EXCEPT !.items[i].at = k, !.current = i]
  /\ selected' = i
  /\ KeepUndo /\ Sync /\ PlayCursor /\ UNCHANGED rows

PlaySelected ==
  /\ On("queue") /\ selected \in Items
  /\ ctrl' = JumpTo(ctrl, selected)
  /\ KeepUndo /\ Sync /\ PlayCursor /\ UNCHANGED <<rows, selected>>

SelectRow(i) ==
  /\ On("queue") /\ i \in Items
  /\ selected' = i
  /\ KeepUndo /\ SameAudio /\ UNCHANGED <<ctrl, rows, uiCurrent>>

-----------------------------------------------------------------------------
(* The flat queue: one row per upcoming track. *)

RowsFollow == rows' = Len(ctrl'.items) /\ selected' = ctrl'.selected

RemoveUpcomingTrack(index) ==
  /\ On("flat_queue") /\ index \in Rows
  /\ ctrl' = TakeUpcoming(ctrl, Upcoming(ctrl)[index])
  /\ Offer([kind |-> "track", removal |-> Removal(ctrl, Upcoming(ctrl)[index])])
  /\ RowsFollow /\ Sync /\ SameAudio

(* Faulty: a reorder keeps the undo on offer. *)
MoveUpcomingTrackKeepingUndo(from, to) ==
  /\ On("flat_queue") /\ CanMoveUpcoming(ctrl, from, to)
  /\ ctrl' = MoveUpcoming(ctrl, from, to)
  /\ RowsFollow /\ KeepUndo /\ Sync /\ SameAudio

MoveUpcomingTrack(from, to) ==
  /\ On("flat_queue") /\ CanMoveUpcoming(ctrl, from, to)
  /\ ctrl' = MoveUpcoming(ctrl, from, to)
  /\ RowsFollow /\ InvalidateUndo /\ Sync /\ SameAudio

(* Faulty: moves the cursor and leaves the player alone. *)
PlayUpcomingTrackSilently(index) ==
  /\ On("flat_queue") /\ index \in Rows
  /\ ctrl' = PlayUpcoming(ctrl, index)
  /\ KeepUndo /\ Sync /\ SameAudio /\ UNCHANGED <<rows, selected>>

PlayUpcomingTrack(index) ==
  /\ On("flat_queue") /\ index \in Rows
  /\ ctrl' = PlayUpcoming(ctrl, index)
  /\ KeepUndo /\ Sync /\ PlayCursor /\ UNCHANGED <<rows, selected>>

(* The record is used up even when it no longer fits. *)
UndoRemoveTrack ==
  /\ On("queue") \/ On("flat_queue")
  /\ slot.kind = "track"
  /\ IF CanUndoRemoval(ctrl, slot.removal)
     THEN ctrl' = UndoRemoval(ctrl, slot.removal) /\ RowsFollow /\ Sync
     ELSE UNCHANGED <<ctrl, rows, selected, uiCurrent>>
  /\ InvalidateUndo /\ SameAudio

-----------------------------------------------------------------------------
(* The phone queue edits the controller's albums in place. *)

PhonePlayRow(i, k) ==
  /\ On("phone") /\ i \in Items /\ k \in DOMAIN ctrl.items[i].tracks
  /\ ctrl' = [ctrl EXCEPT !.items[i].at = k, !.current = i]
  /\ selected' = i
  /\ KeepUndo /\ Sync /\ PlayCursor /\ UNCHANGED rows

PhoneRemoveTrack(i, k) ==
  /\ On("phone") /\ i \in Items /\ k \in DOMAIN ctrl.items[i].tracks
  /\ LET rest == RemoveAt(ctrl.items[i].tracks, k)
         cut  == [ctrl EXCEPT !.items[i].tracks = rest]
     IN IF rest = <<>>
        THEN RemoveThenSync(cut, i)
        ELSE /\ ctrl' = [cut EXCEPT !.items[i].at = IF @ > Len(rest) THEN Len(rest) ELSE @]
             /\ KeepUndo /\ SameAudio /\ UNCHANGED <<rows, selected, uiCurrent>>

-----------------------------------------------------------------------------
(* Transport keys and media controls. *)

UNCHANGEDRows == UNCHANGED <<rows, selected, slot, after>>

(* A pause or resume that overtakes the end of the track may drop the end  *)
(* event on its way to the UI (PlayerHandle, EventsKept).              *)
Switch(from, to) ==
  CASE engine.state = from    -> engine' = [engine EXCEPT !.state = to]
    [] engine.state = "ended" -> engine' \in {Ended, Stopped}
    [] OTHER                  -> UNCHANGED engine

TogglePlayback ==
  /\ On("transport")
  /\ CASE isPlaying ->
            /\ Switch("playing", "paused")
            /\ isPlaying' = FALSE /\ UNCHANGED <<ctrl, uiCurrent>>
       [] ~isPlaying /\ uiCurrent = 0 /\ ctrl.items # <<>> ->
            ctrl' = JumpTo(ctrl, 1) /\ Sync /\ PlayCursor
       [] ~isPlaying /\ uiCurrent = 0 /\ ctrl.items = <<>> ->
            UNCHANGED ctrl /\ Sync /\ SameAudio
       [] ~isPlaying /\ uiCurrent # 0 ->
            /\ Switch("paused", "playing")
            /\ isPlaying' = TRUE /\ UNCHANGED <<ctrl, uiCurrent>>
  /\ UNCHANGEDRows

StopPlayback ==
  /\ On("transport")
  /\ engine' = Stopped /\ isPlaying' = FALSE /\ uiCurrent' = 0
  /\ UNCHANGED ctrl /\ UNCHANGEDRows

(* App::next_track, with repeat and shuffle off. *)
Advanced == ~AtEnd(ctrl) /\ CurrentTrack(NextTrack(ctrl)) # NoTrack
GoNext == ctrl' = NextTrack(ctrl) /\ Sync

NextKey ==
  /\ On("transport") /\ GoNext
  /\ IF Advanced THEN PlayCursor ELSE isPlaying' = FALSE /\ UNCHANGED engine
  /\ UNCHANGEDRows

PreviousKey ==
  /\ On("transport")
  /\ ctrl' = PreviousTrack(ctrl) /\ Sync
  /\ IF AtStart(ctrl) THEN isPlaying' = FALSE /\ UNCHANGED engine ELSE PlayCursor
  /\ UNCHANGEDRows

-----------------------------------------------------------------------------
(* The engine reaches the end of the track; the tick finds out. *)

TrackEnds ==
  /\ engine.state = "playing"
  /\ engine' = Ended
  /\ UNCHANGED <<surfaces, queue, uiCurrent, isPlaying, after>>

(* The engine stopped and no one asked it to. *)
StoppedUnasked == engine.state = "ended" \/ (isPlaying /\ engine.state = "stopped")

(* Faulty: takes the first queue position for no position. *)
TickOffByOne ==
  /\ IF StoppedUnasked /\ uiCurrent > 1
     THEN GoNext /\ IF Advanced THEN PlayCursor ELSE engine' = Stopped /\ isPlaying' = FALSE
     ELSE /\ isPlaying' = (engine.state = "playing")
          /\ engine' = IF engine.state = "ended" THEN Stopped ELSE engine
          /\ UNCHANGED <<ctrl, uiCurrent>>
  /\ UNCHANGEDRows /\ UNCHANGED surfaces

(* should_auto_advance_on_engine_stop, and what handle_engine_state does   *)
(* about it; otherwise the flag follows the engine.                        *)
Tick ==
  /\ IF StoppedUnasked /\ uiCurrent # 0
     THEN GoNext /\ IF Advanced THEN PlayCursor ELSE engine' = Stopped /\ isPlaying' = FALSE
     ELSE /\ isPlaying' = (engine.state = "playing")
          /\ engine' = IF engine.state = "ended" THEN Stopped ELSE engine
          /\ UNCHANGED <<ctrl, uiCurrent>>
  /\ UNCHANGEDRows /\ UNCHANGED surfaces

-----------------------------------------------------------------------------

Library ==
  \/ \E album \in Albums : \/ AddAlbumToQueue(album) \/ AppendAlbum(album)
                           \/ PlayAlbumFromPage(album)
                           \/ PlayQueuedAlbum(album) \/ EnqueueAlbumNext(album)
  \/ \E paths \in Playlists : QueuePlaylist(paths, TRUE) \/ QueuePlaylist(paths, FALSE)
  \/ \E t \in Files : PlayFile(t)

QueueScreen ==
  \/ \E i \in Items : RemoveFromQueue(i) \/ SelectRow(i)
  \/ \E i, j \in Items : MoveQueueItem(i, j)
  \/ \E i \in Items : \E k \in DOMAIN ctrl.items[i].tracks :
       ClickTrack(i, k) \/ PhonePlayRow(i, k) \/ PhoneRemoveTrack(i, k)
  \/ ClearQueue \/ UndoClear \/ UndoRemoveItem \/ PlaySelected

FlatQueue ==
  \/ \E i \in Rows : RemoveUpcomingTrack(i) \/ PlayUpcomingTrack(i)
  \/ \E i, j \in Rows : MoveUpcomingTrack(i, j)
  \/ UndoRemoveTrack

Transport == TogglePlayback \/ StopPlayback \/ NextKey \/ PreviousKey

Next == Library \/ QueueScreen \/ FlatQueue \/ Transport \/ TrackEnds \/ Tick

Spec == Init /\ [][Next]_vars

-----------------------------------------------------------------------------
(* Properties *)

(* "Mutations that change item count (add, remove, clear, fill_magic) are  *)
(* shadowed to keep `expanded` in sync" (queue_state.rs:7-8): one row per  *)
(* item, a selection that exists, and no cursor shown but the queue's own. *)
(* Playlists and single files bypass the shadowing, but for the selection. *)
Shadowed == surfaces \cap {"playlists", "files"} = {}
RowsInStep ==
  /\ selected <= IF ctrl.items = <<>> THEN 1 ELSE Len(ctrl.items)
  /\ Shadowed => rows = Len(ctrl.items) /\ uiCurrent \in {0, ctrl.current}

(* While an undo is offered the queue is what the destructive action left: *)
(* "a later mutation makes a previously offered undo ambiguous: applying   *)
(* it would discard the newer user action" (queue_state.rs:71-73).  The    *)
(* phone edits the album before it takes its snapshot, and neither it nor  *)
(* a file that is played withdraws the undo on offer.                      *)
UndoDiscardsNothing ==
  surfaces \cap {"phone", "files"} = {} /\ slot # NoSlot => FlatTracks(ctrl) = after

(* The audible (or paused) track is the one under the cursor, or under the *)
(* cursor that undoing a clear would put back.                             *)
InSync ==
  /\ Audible(engine) /\ uiCurrent # 0 => CurrentTrack(ctrl) = engine.track
  /\ Audible(engine) /\ slot.kind = "cleared" =>
       slot.ctrl.current = 0 \/ CurrentTrack(slot.ctrl) = engine.track

(* No edit, undo or navigation parts them, but for two steps that leave    *)
(* the audio alone: the current album is removed while nothing plays, and  *)
(* a removed item is put back, cursor included, while nothing plays or     *)
(* when it was not current: "A stopped queue stays stopped"                *)
(* (app/queue.rs:237-239).  The same lines promise the sync where the      *)
(* removal replaced the item being played: the code keeps that unless a    *)
(* pause or stop came in between.  The phone removes the track that is     *)
(* playing and lets it play on (ui/phone.rs:1535-1572).                    *)
LeavesAudio ==
  \/ \E i \in Items : RemoveFromQueue(i) /\ i = ctrl.current /\ ~isPlaying
  \/ UndoRemoveItem /\ ~(isPlaying /\ slot.wasCurrent)
EditsKeepSync == [][Shadowed /\ "phone" \notin surfaces /\ InSync /\ ~InSync' => LeavesAudio]_vars

(* A track that ends by itself is followed by the next one, if there is    *)
(* one (ui/tick.rs:75-79), in a queue that was filled album by album.      *)
TrackFollows ==
  Tick /\ StoppedUnasked /\ ctrl.current # 0 /\ Advanced => engine'.state = "playing"
QueueContinues == [][Shadowed => TrackFollows]_vars

(* The same of a queue that was filled from a playlist's page.             *)
PlaylistContinues == [][TrackFollows]_vars
=============================================================================
