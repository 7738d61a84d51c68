-------------------------- MODULE QueueStateProofs --------------------------
(***************************************************************************)
(* Proofs about QueueState for any albums, playlists and files, any length *)
(* of the queue and any surfaces in use together.  The invariant has one   *)
(* part per thing that has to stay in step with the queue: the rows shown  *)
(* for it (QueueFits), the undo slot (SlotFits, OfferFits), and the engine *)
(* with the copy of the cursor (SoundFits).                                *)
(***************************************************************************)
EXTENDS QueueState, QueueLemmas

(* Where the phone is in use an undo can bring back an album without tracks. *)
KindOf(s) == IF "phone" \in s THEN Item ELSE Stocked
Shadowing(s) == s \cap {"playlists", "files"} = {}
Selects(k, n) == k \in Nat \ {0} /\ k <= IF n = 0 THEN 1 ELSE n

QueueFits(s, c, r, k) ==
  /\ Formed(KindOf(s), c) /\ r \in Nat /\ Selects(k, Len(c.items))
  /\ Shadowing(s) => r = Len(c.items)

Snapshots(s) ==
  {x \in [kind : {"cleared", "removed"}, ctrl : Controller, rows : Nat, selected : Nat \ {0},
          wasCurrent : BOOLEAN] :
     Formed(KindOf(s), x.ctrl) /\ (Shadowing(s) => x.rows = Len(x.ctrl.items))}
Records == [kind : {"track"}, removal : RemovalRecord]

SlotFits(s, x) == x \in Snapshots(s) \cup Records \cup {NoSlot}

(* The copy of the cursor is the cursor, but for a stop. *)
SoundFits(s, c, ui, playing, e) ==
  /\ e \in [track : Tracks \cup {NoTrack}, state : {"stopped", "playing", "paused", "ended"}]
  /\ ui \in Nat /\ playing \in BOOLEAN
  /\ Audible(e) => e.track \in Tracks
  /\ Shadowing(s) => ui = c.current \/ (ui = 0 /\ e.state = "stopped" /\ ~playing)

OfferFits(s, c, x, left) ==
  /\ left \in Seq(Tracks)
  /\ s \cap {"phone", "files"} = {} /\ x # NoSlot => FlatTracks(c) = left
  /\ s \cap {"phone", "files", "playlists"} = {} /\ x.kind = "cleared" => c.items = <<>>

IInv ==
  /\ surfaces \in Interfaces \cup {{}}
  /\ QueueFits(surfaces, ctrl, rows, selected)
  /\ SlotFits(surfaces, slot)
  /\ SoundFits(surfaces, ctrl, uiCurrent, isPlaying, engine)
  /\ OfferFits(surfaces, ctrl, slot, after)

-----------------------------------------------------------------------------
(* What the parts say. *)

LEMMA KindKnown ==
  ASSUME NEW s
  PROVE  /\ KindOf(s) \in Kinds
         /\ KindOf(s) = Stocked => "phone" \notin s
         /\ "phone" \notin s => KindOf(s) = Stocked
<1>1. [tracks |-> <<>>, at |-> 1] \in Item /\ [tracks |-> <<>>, at |-> 1] \notin Stocked
  BY DEF Item, Stocked
<1>2. QED
  BY <1>1, StockedKind DEF KindOf

LEMMA FormedController ==
  ASSUME NEW S \in Kinds, NEW c, Formed(S, c)
  PROVE  c \in Controller
<1>1. c = Made(c.items, c.current, c.selected) /\ FitsIn(Item, c.items, c.current, c.selected)
  <2>1. Formed(Item, c)
    BY FormedShaped DEF Shaped
  <2>2. QED
    BY <2>1, StockedKind, FormedFits
<1>2. c.items \in Seq(Item) /\ c.current \in Nat /\ c.selected \in Nat \ {0}
  <2>1. Len(c.items) \in Nat
    BY <1>1, LenProperties DEF FitsIn
  <2>2. QED
    BY <1>1, <2>1 DEF FitsIn
<1>3. QED
  BY <1>1, <1>2 DEF Made, Controller

LEMMA CurrentTrackType ==
  ASSUME NEW S \in Kinds, NEW c, Formed(S, c)
  PROVE  CurrentTrack(c) \in Tracks \cup {NoTrack}
<1>1. CASE c.current \in DOMAIN c.items /\ c.items[c.current].at \in DOMAIN c.items[c.current].tracks
  <2>1. c.items[c.current].tracks \in Seq(Tracks)
    BY <1>1, FormedItem
  <2>2. c.items[c.current].tracks[c.items[c.current].at] \in Tracks
    BY <1>1, <2>1, ElementOfSeq
  <2>3. QED
    BY <1>1, <2>2 DEF CurrentTrack
<1>2. QED
  BY <1>1 DEF CurrentTrack

LEMMA NoItems ==
  ASSUME NEW S \in Kinds, NEW c, Formed(S, c)
  PROVE  c.items = <<>> <=> Len(c.items) = 0
BY FormedFacts, EmptySeq

LEMMA NoneCurrent ==
  ASSUME NEW S \in Kinds, NEW c, Formed(S, c)
  PROVE  Len(c.items) = 0 => c.current = 0 /\ DOMAIN c.items = {}
BY FormedFacts

LEMMA NoSlotKind == NoSlot.kind = "none"
BY DEF NoSlot

(* The slot is empty, a snapshot of the queue, or the record of a track. *)
LEMMA SlotIs ==
  ASSUME NEW s, NEW x, SlotFits(s, x)
  PROVE  /\ x.kind \in {"none", "track", "cleared", "removed"}
         /\ x.kind = "none" => x = NoSlot
         /\ x.kind = "track" => x.removal \in RemovalRecord
         /\ x.kind \in {"cleared", "removed"} =>
              /\ Formed(KindOf(s), x.ctrl) /\ x.rows \in Nat /\ x.selected \in Nat \ {0}
              /\ x.wasCurrent \in BOOLEAN
              /\ Shadowing(s) => x.rows = Len(x.ctrl.items)
BY NoSlotKind DEF SlotFits, Snapshots, Records

LEMMA InvTypeOK == IInv => TypeOK
<1> SUFFICES ASSUME IInv PROVE TypeOK
  OBVIOUS
<1>1. ctrl \in Controller
  BY KindKnown, FormedController DEF IInv, QueueFits
<1>2. slot \in UndoSlot
  BY DEF IInv, SlotFits, Snapshots, Records, UndoSlot
<1>3. QED
  BY <1>1, <1>2 DEF IInv, QueueFits, Selects, SoundFits, OfferFits, TypeOK

LEMMA InvRows == IInv => RowsInStep
<1> SUFFICES ASSUME IInv PROVE RowsInStep
  OBVIOUS
<1>1. Formed(KindOf(surfaces), ctrl) /\ KindOf(surfaces) \in Kinds
  BY KindKnown DEF IInv, QueueFits
<1>2. selected <= IF ctrl.items = <<>> THEN 1 ELSE Len(ctrl.items)
  BY <1>1, NoItems DEF IInv, QueueFits, Selects
<1>3. QED
  BY <1>2 DEF IInv, QueueFits, SoundFits, RowsInStep, Shadowed, Shadowing

LEMMA InvUndo == IInv => UndoDiscardsNothing
BY DEF IInv, OfferFits, UndoDiscardsNothing

LEMMA InitInv == Init => IInv
<1> SUFFICES ASSUME Init PROVE IInv
  OBVIOUS
<1>1. Formed(KindOf(surfaces), EmptyController)
  BY EmptyWellFormed, WellFormedIs DEF KindOf, Shaped
<1>2. /\ EmptyController.items = <<>> /\ Len(EmptyController.items) = 0 /\ EmptyController.current = 0
  BY DEF EmptyController
<1>3. QueueFits(surfaces, ctrl, rows, selected)
  BY <1>1, <1>2 DEF Init, QueueFits, Selects
<1>4. SoundFits(surfaces, ctrl, uiCurrent, isPlaying, engine)
  BY <1>2 DEF Init, SoundFits, Stopped, Audible
<1>5. <<>> \in Seq(Tracks)
  OBVIOUS
<1>6. SlotFits(surfaces, slot) /\ OfferFits(surfaces, ctrl, slot, after)
  BY <1>5, NoSlotKind DEF Init, SlotFits, OfferFits
<1>7. QED
  BY <1>3, <1>4, <1>6 DEF Init, IInv

-----------------------------------------------------------------------------
(* How the parts fare in a step that treats them in one of the usual ways. *)

(* Nothing is left after a panic. *)
LEMMA PanicKeeps == Panic => IInv'
<1> SUFFICES ASSUME Panic PROVE IInv'
  OBVIOUS
<1>1. Formed(KindOf({}), EmptyController)
  BY EmptyWellFormed, WellFormedIs DEF KindOf, Shaped
<1>2. EmptyController.items = <<>> /\ Len(EmptyController.items) = 0 /\ EmptyController.current = 0
  BY DEF EmptyController
<1>3. /\ surfaces' = {} /\ ctrl' = EmptyController /\ rows' = 0 /\ selected' = 1 /\ uiCurrent' = 0
      /\ isPlaying' = FALSE /\ engine' = Stopped /\ slot' = NoSlot /\ after' = <<>>
  BY DEF Panic, InvalidateUndo
<1>4. QueueFits({}, EmptyController, 0, 1)
  BY <1>1, <1>2 DEF QueueFits, Selects
<1>5. SoundFits({}, EmptyController, 0, FALSE, Stopped)
  BY <1>2 DEF SoundFits, Stopped, Audible
<1>6. <<>> \in Seq(Tracks)
  OBVIOUS
<1>7. SlotFits({}, NoSlot) /\ OfferFits({}, EmptyController, NoSlot, <<>>)
  BY <1>6, NoSlotKind DEF SlotFits, OfferFits
<1>8. IInv' <=> /\ surfaces' \in Interfaces \cup {{}}
                /\ QueueFits(surfaces', ctrl', rows', selected')
                /\ SlotFits(surfaces', slot')
                /\ SoundFits(surfaces', ctrl', uiCurrent', isPlaying', engine')
                /\ OfferFits(surfaces', ctrl', slot', after')
  BY DEF IInv, QueueFits, SlotFits, SoundFits, OfferFits
<1>9. QED
  BY <1>3, <1>4, <1>5, <1>7, <1>8

LEMMA PanicSilent == Panic => engine' = Stopped
BY DEF Panic

LEMMA ShapeNow ==
  ASSUME IInv
  PROVE  /\ KindOf(surfaces) \in Kinds /\ Formed(KindOf(surfaces), ctrl)
         /\ Len(ctrl.items) \in Nat /\ Items = 1..Len(ctrl.items) /\ ctrl.current \in Nat
         /\ rows \in Nat /\ selected \in Nat /\ Selects(selected, Len(ctrl.items))
         /\ Shadowing(surfaces) => rows = Len(ctrl.items)
BY KindKnown, FormedFacts DEF IInv, QueueFits, Items, Selects

LEMMA SoundPlayed ==
  ASSUME IInv, NEW S \in Kinds, Formed(S, ctrl'), PlayCursor, Sync
  PROVE  SoundFits(surfaces, ctrl', uiCurrent', isPlaying', engine')
<1>1. uiCurrent' = ctrl'.current /\ uiCurrent' \in Nat
  BY FormedFacts DEF Sync
<1>2. CASE CurrentTrack(ctrl') = NoTrack
  BY <1>1, <1>2 DEF IInv, SoundFits, PlayCursor
<1>3. CASE CurrentTrack(ctrl') # NoTrack
  <2>1. CurrentTrack(ctrl') \in Tracks
    BY <1>3, CurrentTrackType
  <2>2. engine' = [track |-> CurrentTrack(ctrl'), state |-> "playing"] /\ isPlaying' = TRUE
    BY <1>3 DEF PlayCursor, Play
  <2>3. QED
    BY <1>1, <2>1, <2>2 DEF SoundFits
<1>4. QED
  BY <1>2, <1>3

LEMMA SoundSynced ==
  ASSUME IInv, NEW S \in Kinds, Formed(S, ctrl'), SameAudio, Sync
  PROVE  SoundFits(surfaces, ctrl', uiCurrent', isPlaying', engine')
<1>1. uiCurrent' = ctrl'.current /\ uiCurrent' \in Nat
  BY FormedFacts DEF Sync
<1>2. QED
  BY <1>1 DEF IInv, SoundFits, SameAudio

LEMMA SoundSame ==
  ASSUME IInv, SameAudio, uiCurrent' = uiCurrent, ctrl'.current = ctrl.current
  PROVE  SoundFits(surfaces, ctrl', uiCurrent', isPlaying', engine')
BY DEF IInv, SoundFits, SameAudio

(* All of it for a step that leaves the surfaces alone. *)
LEMMA Assembled ==
  ASSUME IInv, surfaces' = surfaces, QueueFits(surfaces, ctrl', rows', selected'),
         SoundFits(surfaces, ctrl', uiCurrent', isPlaying', engine'),
         SlotFits(surfaces, slot'), OfferFits(surfaces, ctrl', slot', after')
  PROVE  IInv'
BY DEF IInv, QueueFits, SlotFits, SoundFits, OfferFits

LEMMA EditKeeps ==
  ASSUME IInv, surfaces' = surfaces, QueueFits(surfaces, ctrl', rows', selected'),
         SoundFits(surfaces, ctrl', uiCurrent', isPlaying', engine'), InvalidateUndo
  PROVE  IInv'
<1>1. <<>> \in Seq(Tracks)
  OBVIOUS
<1>2. SlotFits(surfaces, slot') /\ OfferFits(surfaces, ctrl', slot', after')
  BY <1>1, NoSlotKind DEF InvalidateUndo, SlotFits, OfferFits
<1>3. QED
  BY <1>2, Assembled

(* Navigation changes no track of the queue, so an undo stays as good. *)
LEMMA NavigationKeeps ==
  ASSUME IInv, surfaces' = surfaces, NEW S \in Kinds, KeepsIn(S, ctrl, ctrl'), Formed(S, ctrl),
         QueueFits(surfaces, ctrl', rows', selected'),
         SoundFits(surfaces, ctrl', uiCurrent', isPlaying', engine'), KeepUndo
  PROVE  IInv'
<1>1. FlatTracks(ctrl') = FlatTracks(ctrl)
  BY FlatTracksTypeIn DEF KeepsIn
<1>2. ctrl.items = <<>> => ctrl'.items = <<>>
  BY NoItems, FormedLists DEF KeepsIn
<1>3. OfferFits(surfaces, ctrl', slot', after')
  BY <1>1, <1>2 DEF IInv, OfferFits, KeepUndo
<1>4. SlotFits(surfaces, slot')
  BY DEF IInv, KeepUndo
<1>5. QED
  BY <1>3, <1>4, Assembled

(* The phone and single files leave the undo on offer as it was. *)
LEMMA BypassKeeps ==
  ASSUME IInv, surfaces' = surfaces, surfaces \cap {"phone", "files"} # {},
         QueueFits(surfaces, ctrl', rows', selected'),
         SoundFits(surfaces, ctrl', uiCurrent', isPlaying', engine'), KeepUndo
  PROVE  IInv'
<1>1. SlotFits(surfaces, slot') /\ OfferFits(surfaces, ctrl', slot', after')
  BY DEF IInv, OfferFits, KeepUndo
<1>2. QED
  BY <1>1, Assembled

LEMMA OfferKeeps ==
  ASSUME IInv, surfaces' = surfaces, QueueFits(surfaces, ctrl', rows', selected'),
         SoundFits(surfaces, ctrl', uiCurrent', isPlaying', engine'),
         NEW record, Offer(record), SlotFits(surfaces, record),
         record.kind = "cleared" => ctrl'.items = <<>>
  PROVE  IInv'
<1>1. FlatTracks(ctrl') \in Seq(Tracks)
  BY KindKnown, FlatTracksTypeIn DEF QueueFits
<1>2. SlotFits(surfaces, slot') /\ OfferFits(surfaces, ctrl', slot', after')
  BY <1>1 DEF OfferFits, Offer
<1>3. QED
  BY <1>2, Assembled

(* A step that moves the cursor leaves rows and selection fitting. *)
LEMMA RowsStay ==
  ASSUME IInv, NEW S \in Kinds, S = KindOf(surfaces), KeepsIn(S, ctrl, ctrl'), Formed(S, ctrl),
         rows' = rows, selected' = selected \/ selected' \in Items
  PROVE  QueueFits(surfaces, ctrl', rows', selected')
<1>1. Len(ctrl'.items) = Len(ctrl.items) /\ Len(ctrl.items) \in Nat
  BY FormedLists, FormedFacts DEF KeepsIn
<1>2. Selects(selected', Len(ctrl.items))
  BY ShapeNow, <1>1 DEF Selects
<1>3. QED
  BY <1>1, <1>2, ShapeNow DEF QueueFits, KeepsIn

LEMMA RowsFollowed ==
  ASSUME NEW S \in Kinds, S = KindOf(surfaces), Formed(S, ctrl'), RowsFollow
  PROVE  QueueFits(surfaces, ctrl', rows', selected')
BY FormedFacts DEF QueueFits, RowsFollow, Selects

-----------------------------------------------------------------------------
(* The library, the album page, the playlists and single files. *)

LEMMA AlbumIs == \A a \in Albums : a \in Seq(Tracks) /\ a # <<>>
BY QueueStateAssumption

LEMMA AppendAlbumKeeps ==
  ASSUME IInv, NEW album \in Albums, AppendAlbum(album)
  PROVE  IInv'
<1> DEFINE S == KindOf(surfaces)
<1>1. S \in Kinds /\ Formed(S, ctrl)
  BY ShapeNow
<1>2. /\ ctrl' = AddAlbum(ctrl, album) /\ surfaces' = surfaces
      /\ rows' = rows + 1 /\ selected' = selected /\ uiCurrent' = uiCurrent
      /\ InvalidateUndo /\ SameAudio
  BY DEF AppendAlbum, On
<1> HIDE DEF S
<1>3. Formed(S, ctrl') /\ ctrl'.current = ctrl.current /\ Len(ctrl'.items) = Len(ctrl.items) + 1
  BY <1>1, <1>2, AlbumIs, AddAlbumMade
<1>4. QueueFits(surfaces, ctrl', rows', selected')
  BY <1>2, <1>3, ShapeNow DEF QueueFits, Selects, S
<1>5. QED
  BY <1>2, <1>3, <1>4, SoundSame, EditKeeps

(* The album is there already, or it is appended. *)
LEMMA AddAlbumToQueueIs ==
  ASSUME NEW album, AddAlbumToQueue(album)
  PROVE  \/ AppendAlbum(album)
         \/ /\ surfaces' = surfaces /\ ctrl' = ctrl /\ rows' = rows /\ selected' = selected
            /\ uiCurrent' = uiCurrent /\ isPlaying' = isPlaying /\ engine' = engine
            /\ slot' = slot /\ after' = after
BY DEF AddAlbumToQueue, On, KeepUndo, SameAudio

LEMMA AddAlbumToQueueKeeps ==
  ASSUME IInv, NEW album \in Albums, AddAlbumToQueue(album)
  PROVE  IInv'
<1>1. CASE AppendAlbum(album)
  BY <1>1, AppendAlbumKeeps
<1>2. CASE /\ surfaces' = surfaces /\ ctrl' = ctrl /\ rows' = rows /\ selected' = selected
           /\ uiCurrent' = uiCurrent /\ isPlaying' = isPlaying /\ engine' = engine
           /\ slot' = slot /\ after' = after
  BY <1>2 DEF IInv, QueueFits, SlotFits, SoundFits, OfferFits
<1>3. QED
  BY <1>1, <1>2, AddAlbumToQueueIs

LEMMA PlayAlbumFromPageKeeps ==
  ASSUME IInv, NEW album \in Albums, PlayAlbumFromPage(album)
  PROVE  IInv'
<1> DEFINE S == KindOf(surfaces)
<1>1. S \in Kinds /\ Formed(S, ctrl)
  BY ShapeNow
<1>2. /\ ctrl' = PlayAlbumNow(ctrl, album) /\ surfaces' = surfaces
      /\ rows' = rows + 1 /\ selected' = selected
      /\ InvalidateUndo /\ Sync /\ PlayCursor
  BY DEF PlayAlbumFromPage, On
<1> HIDE DEF S
<1>3. Formed(S, ctrl') /\ Len(ctrl'.items) = Len(ctrl.items) + 1
  BY <1>1, <1>2, AlbumIs, AddAlbumMade
<1>4. QueueFits(surfaces, ctrl', rows', selected')
  BY <1>2, <1>3, ShapeNow DEF QueueFits, Selects, S
<1>5. QED
  BY <1>1, <1>2, <1>3, <1>4, SoundPlayed, EditKeeps

(* The album found is a queued one: the first of those that qualify. *)
LEMMA FirstOf ==
  ASSUME NEW holds, holds \subseteq Nat, holds # {}
  PROVE  (CHOOSE i \in holds : \A j \in holds : i <= j) \in holds
<1>1. \E i \in holds : \A j \in holds : i <= j
  BY Least
<1>2. QED
  BY <1>1

LEMMA PlayQueuedAlbumIs ==
  ASSUME IInv, NEW album \in Albums, PlayQueuedAlbum(album)
  PROVE  /\ \E i \in Items : ctrl' = JumpTo(ctrl, i)
         /\ surfaces' = surfaces /\ rows' = rows /\ selected' = selected
         /\ KeepUndo /\ Sync /\ PlayCursor
<1> DEFINE holds == Queued(album)
           i == CHOOSE n \in holds : \A j \in holds : n <= j
<1>1. holds # {} /\ ctrl' = JumpTo(ctrl, i)
  BY DEF PlayQueuedAlbum
<1>2. holds \subseteq Items /\ holds \subseteq Nat
  BY ShapeNow DEF Queued
<1> HIDE DEF holds
<1>3. i \in holds
  BY <1>1, <1>2, FirstOf
<1> HIDE DEF i
<1>4. QED
  BY <1>1, <1>2, <1>3 DEF PlayQueuedAlbum, On

(* Every step that goes to an item and plays it. *)
LEMMA JumpKeeps ==
  ASSUME IInv, NEW i \in Items, ctrl' = JumpTo(ctrl, i), surfaces' = surfaces,
         rows' = rows, selected' = selected, KeepUndo, Sync, PlayCursor
  PROVE  IInv'
<1> DEFINE S == KindOf(surfaces)
<1>1. S \in Kinds /\ Formed(S, ctrl) /\ i \in DOMAIN ctrl.items
  BY ShapeNow DEF Items
<1>2. KeepsIn(S, ctrl, ctrl')
  BY <1>1, JumpToKeepsIn
<1> HIDE DEF S
<1>3. Formed(S, ctrl')
  BY <1>2 DEF KeepsIn
<1>4. QueueFits(surfaces, ctrl', rows', selected')
  BY <1>1, <1>2, RowsStay DEF S
<1>5. QED
  BY <1>1, <1>2, <1>3, <1>4, SoundPlayed, NavigationKeeps

LEMMA PlayQueuedAlbumKeeps ==
  ASSUME IInv, NEW album \in Albums, PlayQueuedAlbum(album)
  PROVE  IInv'
BY PlayQueuedAlbumIs, JumpKeeps

LEMMA EnqueueAlbumNextKeeps ==
  ASSUME IInv, NEW album \in Albums, EnqueueAlbumNext(album)
  PROVE  IInv'
<1> SUFFICES ASSUME ~Panic PROVE IInv'
  BY PanicKeeps
<1> DEFINE S == KindOf(surfaces)
           added == Len(ctrl'.items) - Len(ctrl.items)
           place == IF ctrl.current \in Items THEN ctrl.current + 1 ELSE 1
<1>1. S \in Kinds /\ Formed(S, ctrl)
  BY ShapeNow
<1>2. /\ ctrl' = EnqueueNext(ctrl, album) /\ surfaces' = surfaces
      /\ rows' = rows + added /\ uiCurrent' = uiCurrent
      /\ selected' = IF selected >= place /\ ctrl.items # <<>> THEN selected + added ELSE selected
      /\ InvalidateUndo /\ SameAudio
  BY DEF EnqueueAlbumNext, On
<1> HIDE DEF S
<1>3. /\ Formed(S, ctrl') /\ ctrl'.current = ctrl.current
      /\ Len(ctrl'.items) \in Nat /\ Len(ctrl'.items) >= Len(ctrl.items) + 1
  BY <1>1, <1>2, AlbumIs, EnqueueNextMade
<1>4. added \in Nat /\ added >= 1 /\ Len(ctrl'.items) = Len(ctrl.items) + added
  BY <1>3, ShapeNow
<1>5. ctrl.items # <<>> => Len(ctrl.items) # 0
  BY <1>1, NoItems
<1> HIDE DEF added, place
<1>6. QueueFits(surfaces, ctrl', rows', selected')
  BY <1>2, <1>3, <1>4, <1>5, ShapeNow DEF QueueFits, Selects, S
<1>7. QED
  BY <1>2, <1>3, <1>6, SoundSame, EditKeeps

(* Playlists bypass the shadowing: rows and cursor copy need not follow. *)
LEMMA QueuePlaylistKeeps ==
  ASSUME IInv, NEW paths \in Playlists, NEW playNow \in BOOLEAN, QueuePlaylist(paths, playNow)
  PROVE  IInv'
<1> DEFINE S == KindOf(surfaces)
           queued == EnqueuePlaylist(ctrl, paths)
           added == Len(queued.items) - Len(ctrl.items)
<1>1. S \in Kinds /\ Formed(S, ctrl) /\ paths \in Seq(Tracks)
  BY ShapeNow, QueueStateAssumption
<1>2. /\ surfaces' = surfaces /\ ~Shadowing(surfaces)
      /\ rows' = rows + added /\ selected' = selected /\ uiCurrent' = uiCurrent
      /\ InvalidateUndo
      /\ \/ added > 0 /\ ctrl' = JumpTo(queued, Len(ctrl.items) + 1) /\ PlayCursor
         \/ ctrl' = queued /\ SameAudio
  BY DEF QueuePlaylist, On, Shadowing
<1> HIDE DEF S
<1>3. Formed(S, queued) /\ Len(queued.items) >= Len(ctrl.items) /\ queued.current = ctrl.current
  BY <1>1, EnqueuePlaylistMade
<1> HIDE DEF queued
<1>4. Len(queued.items) \in Nat /\ DOMAIN queued.items = 1..Len(queued.items)
  BY <1>1, <1>3, FormedFacts
<1>5. added \in Nat
  BY <1>3, <1>4, ShapeNow
<1>6. Formed(S, ctrl') /\ Len(ctrl'.items) = Len(queued.items)
  <2>1. CASE added > 0 /\ ctrl' = JumpTo(queued, Len(ctrl.items) + 1)
    <3>1. Len(ctrl.items) + 1 \in DOMAIN queued.items
      <4>1. Len(ctrl.items) \in Nat /\ Len(queued.items) - Len(ctrl.items) > 0
        BY <2>1, ShapeNow
      <4>2. \A m, n \in Nat : n - m > 0 => m + 1 \in 1..n
        OBVIOUS
      <4>3. Len(queued.items) \in Nat
        BY <1>4
      <4>4. Len(ctrl.items) + 1 \in 1..Len(queued.items)
        BY <4>1, <4>2, <4>3
      <4>5. QED
        BY <1>4, <4>4, Zenon
    <3>2. KeepsIn(S, queued, ctrl')
      BY <1>1, <1>3, <2>1, <3>1, JumpToKeepsIn
    <3>3. QED
      BY <1>1, <1>3, <3>2, FormedLists DEF KeepsIn
  <2>2. CASE ctrl' = queued
    BY <1>3, <2>2
  <2>3. QED
    BY <1>2, <2>1, <2>2
<1> HIDE DEF added
<1>7. QueueFits(surfaces, ctrl', rows', selected')
  BY <1>2, <1>3, <1>4, <1>5, <1>6, ShapeNow DEF QueueFits, Selects, S
<1>8. SoundFits(surfaces, ctrl', uiCurrent', isPlaying', engine')
  <2>1. CASE SameAudio
    BY <1>2, <2>1 DEF IInv, SoundFits, SameAudio
  <2>2. CASE PlayCursor /\ CurrentTrack(ctrl') = NoTrack
    BY <1>2, <2>2 DEF IInv, SoundFits, PlayCursor
  <2>3. CASE PlayCursor /\ CurrentTrack(ctrl') # NoTrack
    <3>1. CurrentTrack(ctrl') \in Tracks
      BY <1>1, <1>6, <2>3, CurrentTrackType
    <3>2. QED
      BY <1>2, <2>3, <3>1 DEF IInv, SoundFits, PlayCursor, Play
  <2>4. QED
    BY <1>2, <2>1, <2>2, <2>3
<1>9. QED
  BY <1>2, <1>7, <1>8, EditKeeps

LEMMA PlayFileKeeps ==
  ASSUME IInv, NEW t \in Files, PlayFile(t)
  PROVE  IInv'
<1> DEFINE S == KindOf(surfaces)
<1>1. S \in Kinds /\ Formed(S, ctrl) /\ t \in Tracks
  BY ShapeNow, QueueStateAssumption
<1>2. /\ ctrl' = PlaySingleFileNow(ctrl, t) /\ surfaces' = surfaces
      /\ ~Shadowing(surfaces) /\ surfaces \cap {"phone", "files"} # {}
      /\ rows' = rows /\ selected' = selected
      /\ KeepUndo /\ Sync /\ PlayCursor
  BY DEF PlayFile, On, Shadowing
<1> HIDE DEF S
<1>3. Formed(S, ctrl')
  BY <1>1, <1>2, PlaySingleFileNowKeepsIn
<1>4. Len(ctrl'.items) \in Nat /\ Len(ctrl'.items) >= Len(ctrl.items)
  <2>1. CASE InQueue(ctrl, t)
    <3>1. KeepsIn(S, ctrl, ctrl')
      BY <1>1, <1>2, <2>1, PlaySingleFileNowKeepsIn
    <3>2. QED
      BY <1>1, <3>1, FormedLists, FormedFacts DEF KeepsIn
  <2>2. CASE ~InQueue(ctrl, t)
    <3>1. <<t>> \in Seq(Tracks) /\ <<t>> # <<>>
      BY <1>1
    <3>2. ctrl' = PlayAlbumNow(ctrl, <<t>>)
      BY <1>2, <2>2 DEF PlaySingleFileNow
    <3>3. Len(ctrl'.items) = Len(ctrl.items) + 1
      BY <1>1, <3>1, <3>2, AddAlbumMade
    <3>4. QED
      BY <3>3, ShapeNow
  <2>3. QED
    BY <2>1, <2>2
<1>5. QueueFits(surfaces, ctrl', rows', selected')
  BY <1>2, <1>3, <1>4, ShapeNow DEF QueueFits, Selects, S
<1>6. QED
  BY <1>1, <1>2, <1>3, <1>5, SoundPlayed, BypassKeeps

-----------------------------------------------------------------------------
(* The queue screen. *)

LEMMA ClampSelects ==
  ASSUME NEW S \in Kinds, NEW c, Formed(S, c), NEW index \in Nat \ {0}
  PROVE  Selects(ClampTo(index, c), Len(c.items))
BY FormedFacts, NoItems DEF ClampTo, Selects

(* A removed item: from is the queue, or on the phone the queue without    *)
(* the item's last track.                                                  *)
LEMMA RemoveThenSyncKeeps ==
  ASSUME IInv, surfaces' = surfaces, NEW from, NEW i, RemoveThenSync(from, i),
         NEW S, S = KindOf(surfaces), Formed(S, from), i \in DOMAIN from.items,
         Len(from.items) = Len(ctrl.items)
  PROVE  IInv'
<1> DEFINE record == [Snapshot("removed", from.current = i) EXCEPT !.ctrl = from]
<1>1. S \in Kinds /\ Len(ctrl.items) \in Nat /\ i \in 1..Len(ctrl.items)
      /\ rows \in Nat /\ selected \in Nat \ {0}
      /\ (Shadowing(surfaces) => rows = Len(ctrl.items))
  <2>1. S \in Kinds
    BY KindKnown
  <2>2. DOMAIN from.items = 1..Len(from.items)
    BY <2>1, FormedFacts
  <2>3. QED
    BY <2>1, <2>2, ShapeNow DEF Selects
<1>2. /\ ctrl' = RemoveAlbum(from, i)
      /\ rows' = IF i <= rows THEN rows - 1 ELSE Len(ctrl'.items)
      /\ selected' = ClampTo(selected, ctrl')
      /\ Offer(record) /\ Sync
  BY DEF RemoveThenSync
<1>3. Formed(S, ctrl') /\ Len(ctrl'.items) = Len(ctrl.items) - 1
  BY <1>1, <1>2, RemoveAlbumMade
<1>4. QueueFits(surfaces, ctrl', rows', selected')
  <2>1. Selects(selected', Len(ctrl'.items))
    BY <1>1, <1>2, <1>3, ClampSelects
  <2>2. rows' \in Nat /\ (Shadowing(surfaces) => rows' = Len(ctrl'.items))
    BY <1>1, <1>2, <1>3
  <2>3. QED
    BY <1>3, <2>1, <2>2 DEF QueueFits
<1>5. SoundFits(surfaces, ctrl', uiCurrent', isPlaying', engine')
  <2>1. CASE SameAudio
    BY <1>1, <1>2, <1>3, <2>1, SoundSynced
  <2>2. CASE PlayCursor
    BY <1>1, <1>2, <1>3, <2>2, SoundPlayed
  <2>3. CASE engine' = Stopped /\ isPlaying' = FALSE
    <3>1. uiCurrent' = ctrl'.current /\ uiCurrent' \in Nat
      BY <1>1, <1>2, <1>3, FormedFacts DEF Sync
    <3>2. QED
      BY <2>3, <3>1 DEF SoundFits, Stopped, Audible
  <2>4. QED
    BY <2>1, <2>2, <2>3 DEF RemoveThenSync
<1>6. SlotFits(surfaces, record) /\ record.kind # "cleared"
  <2>1. record = [kind |-> "removed", ctrl |-> from, rows |-> rows, selected |-> selected,
                  wasCurrent |-> (from.current = i)]
    BY DEF Snapshot
  <2>2. from \in Controller
    BY <1>1, FormedController
  <2>3. QED
    BY <1>1, <2>1, <2>2 DEF SlotFits, Snapshots
<1> HIDE DEF record
<1>7. QED
  BY <1>2, <1>4, <1>5, <1>6, OfferKeeps

LEMMA RemoveFromQueueKeeps ==
  ASSUME IInv, NEW i \in Items, RemoveFromQueue(i)
  PROVE  IInv'
BY ShapeNow, RemoveThenSyncKeeps DEF RemoveFromQueue, On, Items

Bridged == [ctrl EXCEPT !.selected = selected]

LEMMA BridgedKeeps ==
  ASSUME IInv
  PROVE  /\ KeepsIn(KindOf(surfaces), ctrl, Bridged) /\ Len(Bridged.items) = Len(ctrl.items)
         /\ Bridged.items = ctrl.items /\ Bridged.current = ctrl.current
<1> DEFINE S == KindOf(surfaces)
<1>1. S \in Kinds /\ Formed(S, ctrl) /\ Selects(selected, Len(ctrl.items))
  BY ShapeNow
<1> HIDE DEF S
<1>2. ctrl = Made(ctrl.items, ctrl.current, ctrl.selected)
      /\ FitsIn(S, ctrl.items, ctrl.current, ctrl.selected)
  BY <1>1, FormedFits
<1>3. Bridged = Made(ctrl.items, ctrl.current, selected)
  BY <1>2 DEF Made, Bridged
<1>4. FitsIn(S, ctrl.items, ctrl.current, selected)
  BY <1>1, <1>2 DEF FitsIn, Selects
<1>5. Formed(S, Bridged)
  BY <1>1, <1>3, <1>4, MadeFormed
<1>6. Bridged.items = ctrl.items /\ Bridged.current = ctrl.current
  BY <1>3 DEF Made
<1>7. QED
  BY <1>5, <1>6 DEF KeepsIn, Lists, S

LEMMA MoveQueueItemIs ==
  ASSUME NEW from, NEW to, MoveQueueItem(from, to), ~Panic
  PROVE  /\ surfaces' = surfaces /\ SameAudio /\ rows' = rows
         /\ CanMoveItem(ctrl, from, to) =>
              /\ ctrl' = MoveItem(Bridged, from, to)
              /\ selected' = ctrl'.selected /\ InvalidateUndo /\ Sync
         /\ ~CanMoveItem(ctrl, from, to) =>
              ctrl' = Bridged /\ KeepUndo /\ selected' = selected /\ uiCurrent' = uiCurrent
BY DEF MoveQueueItem, On, Bridged

LEMMA MoveQueueItemKeeps ==
  ASSUME IInv, NEW from, NEW to, MoveQueueItem(from, to)
  PROVE  IInv'
<1> SUFFICES ASSUME ~Panic PROVE IInv'
  BY PanicKeeps
<1> DEFINE S == KindOf(surfaces)
<1>1. S \in Kinds /\ Formed(S, ctrl)
  BY ShapeNow
<1>2. KeepsIn(S, ctrl, Bridged) /\ Formed(S, Bridged) /\ Bridged.items = ctrl.items
      /\ Bridged.current = ctrl.current
  BY BridgedKeeps DEF KeepsIn
<1> HIDE DEF S
<1>3. CASE CanMoveItem(ctrl, from, to)
  <2>1. from \in DOMAIN Bridged.items /\ to \in DOMAIN Bridged.items
    BY <1>2, <1>3 DEF CanMoveItem
  <2>2. Formed(S, ctrl') /\ Len(ctrl'.items) = Len(ctrl.items) /\ selected' = ctrl'.selected
    BY <1>1, <1>2, <1>3, <2>1, MoveQueueItemIs, MoveItemMade
  <2>3. Selects(selected', Len(ctrl'.items))
    BY <1>1, <2>2, FormedFacts DEF Selects
  <2>4. QueueFits(surfaces, ctrl', rows', selected')
    BY <2>2, <2>3, ShapeNow, MoveQueueItemIs DEF QueueFits, S
  <2>5. QED
    BY <1>1, <1>3, <2>2, <2>4, MoveQueueItemIs, SoundSynced, EditKeeps
<1>4. CASE ~CanMoveItem(ctrl, from, to)
  <2>1. ctrl' = Bridged /\ KeepUndo /\ selected' = selected /\ uiCurrent' = uiCurrent
        /\ surfaces' = surfaces /\ SameAudio /\ rows' = rows
    BY <1>4, MoveQueueItemIs
  <2>2. KeepsIn(S, ctrl, ctrl') /\ ctrl'.current = ctrl.current
    BY <1>2, <2>1
  <2>3. QueueFits(surfaces, ctrl', rows', selected')
    BY <1>1, <2>1, <2>2, RowsStay DEF S
  <2>4. QED
    BY <1>1, <2>1, <2>2, <2>3, SoundSame, NavigationKeeps
<1>5. QED
  BY <1>3, <1>4

LEMMA ClearQueueIs ==
  ASSUME ClearQueue
  PROVE  /\ surfaces' = surfaces /\ ctrl' = EmptyController /\ rows' = 0 /\ selected' = 1
         /\ ctrl.items = <<>> => InvalidateUndo
         /\ ctrl.items # <<>> => Offer(Snapshot("cleared", FALSE))
         /\ Sync /\ isPlaying' = FALSE /\ engine' = engine
BY DEF ClearQueue, On

LEMMA ClearQueueKeeps ==
  ASSUME IInv, ClearQueue
  PROVE  IInv'
<1> DEFINE S == KindOf(surfaces)
<1>1. S \in Kinds /\ Formed(S, ctrl) /\ rows \in Nat /\ selected \in Nat \ {0}
      /\ (Shadowing(surfaces) => rows = Len(ctrl.items))
  BY ShapeNow DEF Selects
<1>2. Formed(S, ctrl')
  BY ClearQueueIs, EmptyWellFormed, WellFormedIs DEF KindOf, Shaped
<1>3. ctrl'.items = <<>> /\ Len(ctrl'.items) = 0 /\ ctrl'.current = 0
  BY ClearQueueIs DEF EmptyController
<1>4. QueueFits(surfaces, ctrl', rows', selected')
  BY <1>2, <1>3, ClearQueueIs DEF QueueFits, Selects
<1>5. SoundFits(surfaces, ctrl', uiCurrent', isPlaying', engine')
  BY <1>3, ClearQueueIs DEF IInv, SoundFits, Sync
<1>6. SlotFits(surfaces, Snapshot("cleared", FALSE))
  <2>1. ctrl \in Controller
    BY <1>1, FormedController
  <2>2. QED
    BY <1>1, <2>1 DEF SlotFits, Snapshots, Snapshot
<1>7. QED
  BY <1>3, <1>4, <1>5, <1>6, ClearQueueIs, EditKeeps, OfferKeeps

(* An undo of a clear or of a removed item puts a snapshot back. *)
LEMMA RestoreFits ==
  ASSUME IInv, slot.kind \in {"cleared", "removed"}, Restore(slot)
  PROVE  Formed(KindOf(surfaces), ctrl') /\ QueueFits(surfaces, ctrl', rows', selected')
<1>1. /\ KindOf(surfaces) \in Kinds /\ Formed(KindOf(surfaces), slot.ctrl) /\ slot.rows \in Nat
      /\ slot.selected \in Nat \ {0} /\ (Shadowing(surfaces) => slot.rows = Len(slot.ctrl.items))
  BY SlotIs, KindKnown DEF IInv
<1>2. /\ ctrl' = slot.ctrl /\ rows' = slot.rows /\ selected' = ClampTo(slot.selected, slot.ctrl)
  BY DEF Restore
<1>3. Selects(selected', Len(slot.ctrl.items))
  BY <1>1, <1>2, ClampSelects
<1>4. QED
  BY <1>1, <1>2, <1>3 DEF QueueFits

LEMMA UndoClearKeeps ==
  ASSUME IInv, UndoClear
  PROVE  IInv'
<1>1. slot.kind = "cleared" /\ Restore(slot) /\ SameAudio /\ surfaces' = surfaces
      /\ InvalidateUndo /\ Sync
  BY DEF UndoClear, On, Restore
<1>2. Formed(KindOf(surfaces), ctrl') /\ QueueFits(surfaces, ctrl', rows', selected')
  BY <1>1, RestoreFits
<1>3. QED
  BY <1>1, <1>2, KindKnown, SoundSynced, EditKeeps

LEMMA UndoRemoveItemIs ==
  ASSUME UndoRemoveItem
  PROVE  /\ surfaces' = surfaces /\ slot.kind = "removed" /\ Restore(slot) /\ InvalidateUndo /\ Sync
         /\ \/ isPlaying /\ slot.wasCurrent /\ CurrentTrack(ctrl') # NoTrack /\ PlayCursor
            \/ isPlaying /\ slot.wasCurrent /\ engine' = Stopped /\ isPlaying' = isPlaying
            \/ ~(isPlaying /\ slot.wasCurrent) /\ SameAudio
BY DEF UndoRemoveItem, On, Restore

LEMMA UndoRemoveItemKeeps ==
  ASSUME IInv, UndoRemoveItem
  PROVE  IInv'
<1>1. Formed(KindOf(surfaces), ctrl') /\ QueueFits(surfaces, ctrl', rows', selected')
      /\ KindOf(surfaces) \in Kinds
  BY RestoreFits, UndoRemoveItemIs, KindKnown
<1>2. SoundFits(surfaces, ctrl', uiCurrent', isPlaying', engine')
  <2>1. CASE PlayCursor
    BY <1>1, <2>1, UndoRemoveItemIs, SoundPlayed
  <2>2. CASE SameAudio
    BY <1>1, <2>2, UndoRemoveItemIs, SoundSynced
  <2>3. CASE engine' = Stopped /\ isPlaying' = isPlaying
    <3>1. uiCurrent' = ctrl'.current /\ uiCurrent' \in Nat
      BY <1>1, UndoRemoveItemIs, FormedFacts DEF Sync
    <3>2. QED
      BY <2>3, <3>1 DEF IInv, SoundFits, Stopped, Audible
  <2>4. QED
    BY <2>1, <2>2, <2>3, UndoRemoveItemIs
<1>3. QED
  BY <1>1, <1>2, UndoRemoveItemIs, EditKeeps

(* A track that is clicked, on the queue screen or on the phone. *)
LEMMA ClickKeeps ==
  ASSUME IInv, NEW i \in Items, NEW k \in DOMAIN ctrl.items[i].tracks,
         ctrl' = CursorAt(ctrl, i, k, i), selected' = i, surfaces' = surfaces, rows' = rows,
         KeepUndo, Sync, PlayCursor
  PROVE  IInv'
<1> DEFINE S == KindOf(surfaces)
<1>1. S \in Kinds /\ Formed(S, ctrl) /\ i \in DOMAIN ctrl.items /\ i \in 0..Len(ctrl.items)
  BY ShapeNow DEF Items
<1>2. k \in Nat /\ k >= 1
  BY <1>1, FormedItem
<1>3. KeepsIn(S, ctrl, ctrl')
  BY <1>1, <1>2, PlacedKeepsIn
<1> HIDE DEF S
<1>4. Formed(S, ctrl')
  BY <1>3 DEF KeepsIn
<1>5. QueueFits(surfaces, ctrl', rows', selected')
  BY <1>1, <1>3, RowsStay DEF S
<1>6. QED
  BY <1>1, <1>3, <1>4, <1>5, SoundPlayed, NavigationKeeps

LEMMA ClickTrackIs ==
  ASSUME NEW i, NEW k, ClickTrack(i, k) \/ PhonePlayRow(i, k)
  PROVE  /\ ctrl' = CursorAt(ctrl, i, k, i) /\ selected' = i /\ surfaces' = surfaces /\ rows' = rows
         /\ KeepUndo /\ Sync /\ PlayCursor
BY DEF ClickTrack, PhonePlayRow, On, CursorAt

LEMMA ClickTrackKeeps ==
  ASSUME IInv, NEW i \in Items, NEW k \in DOMAIN ctrl.items[i].tracks,
         ClickTrack(i, k) \/ PhonePlayRow(i, k)
  PROVE  IInv'
BY ClickTrackIs, ClickKeeps

LEMMA PlaySelectedKeeps ==
  ASSUME IInv, PlaySelected
  PROVE  IInv'
BY JumpKeeps DEF PlaySelected, On

LEMMA SelectRowKeeps ==
  ASSUME IInv, NEW i \in Items, SelectRow(i)
  PROVE  IInv'
<1>1. /\ surfaces' = surfaces /\ selected' = i /\ ctrl' = ctrl /\ rows' = rows /\ uiCurrent' = uiCurrent
      /\ KeepUndo /\ SameAudio
  BY DEF SelectRow, On
<1>2. KindOf(surfaces) \in Kinds /\ Formed(KindOf(surfaces), ctrl)
  BY ShapeNow
<1>3. KeepsIn(KindOf(surfaces), ctrl, ctrl')
  BY <1>1, <1>2 DEF KeepsIn
<1>4. QueueFits(surfaces, ctrl', rows', selected')
  BY <1>1, <1>2, <1>3, RowsStay
<1>5. QED
  BY <1>1, <1>2, <1>3, <1>4, SoundSame, NavigationKeeps

-----------------------------------------------------------------------------
(* The flat queue. *)

LEMMA RemoveUpcomingTrackKeeps ==
  ASSUME IInv, NEW index \in Rows, RemoveUpcomingTrack(index)
  PROVE  IInv'
<1> DEFINE S == KindOf(surfaces)
           pos == Upcoming(ctrl)[index]
           record == [kind |-> "track", removal |-> Removal(ctrl, pos)]
<1>1. S \in Kinds /\ Formed(S, ctrl) /\ index \in DOMAIN Upcoming(ctrl)
  BY ShapeNow DEF Rows
<1>2. /\ ctrl' = TakeUpcoming(ctrl, pos) /\ surfaces' = surfaces
      /\ Offer(record) /\ RowsFollow /\ Sync /\ SameAudio
  BY DEF RemoveUpcomingTrack, On
<1> HIDE DEF S
<1>3. pos \in AllRows(ctrl)
  BY <1>1, UpcomingRowIn
<1> HIDE DEF pos
<1>4. Formed(S, ctrl') /\ Removal(ctrl, pos) \in RemovalRecord
  BY <1>1, <1>2, <1>3, TakeUpcomingFormed, RemovalTypeIn
<1>5. SlotFits(surfaces, record) /\ record.kind # "cleared"
  BY <1>4 DEF SlotFits, Records
<1> HIDE DEF record
<1>6. QueueFits(surfaces, ctrl', rows', selected')
  BY <1>1, <1>2, <1>4, RowsFollowed DEF S
<1>7. QED
  BY <1>1, <1>2, <1>4, <1>5, <1>6, SoundSynced, OfferKeeps

LEMMA MoveUpcomingTrackKeeps ==
  ASSUME IInv, NEW from \in Rows, NEW to \in Rows, MoveUpcomingTrack(from, to)
  PROVE  IInv'
<1> DEFINE S == KindOf(surfaces)
<1>1. S \in Kinds /\ Formed(S, ctrl) /\ from \in DOMAIN Upcoming(ctrl)
  BY ShapeNow DEF Rows
<1>2. /\ ctrl' = MoveUpcoming(ctrl, from, to) /\ surfaces' = surfaces
      /\ RowsFollow /\ InvalidateUndo /\ Sync /\ SameAudio
  BY DEF MoveUpcomingTrack, On
<1> HIDE DEF S
<1>3. Formed(S, ctrl')
  BY <1>1, <1>2, MoveUpcomingFormed
<1>4. QueueFits(surfaces, ctrl', rows', selected')
  BY <1>1, <1>2, <1>3, RowsFollowed DEF S
<1>5. QED
  BY <1>1, <1>2, <1>3, <1>4, SoundSynced, EditKeeps

LEMMA PlayUpcomingTrackKeeps ==
  ASSUME IInv, NEW index \in Rows, PlayUpcomingTrack(index)
  PROVE  IInv'
<1> DEFINE S == KindOf(surfaces)
<1>1. S \in Kinds /\ Formed(S, ctrl) /\ index \in DOMAIN Upcoming(ctrl)
  BY ShapeNow DEF Rows
<1>2. /\ ctrl' = PlayUpcoming(ctrl, index) /\ surfaces' = surfaces
      /\ rows' = rows /\ selected' = selected /\ KeepUndo /\ Sync /\ PlayCursor
  BY DEF PlayUpcomingTrack, On
<1> HIDE DEF S
<1>3. KeepsIn(S, ctrl, ctrl') /\ Formed(S, ctrl')
  BY <1>1, <1>2, PlayUpcomingKeepsIn DEF KeepsIn
<1>4. QueueFits(surfaces, ctrl', rows', selected')
  BY <1>1, <1>2, <1>3, RowsStay DEF S
<1>5. QED
  BY <1>1, <1>2, <1>3, <1>4, SoundPlayed, NavigationKeeps

LEMMA UndoRemoveTrackIs ==
  ASSUME UndoRemoveTrack
  PROVE  /\ surfaces' = surfaces /\ slot.kind = "track" /\ InvalidateUndo /\ SameAudio
         /\ CanUndoRemoval(ctrl, slot.removal) =>
              ctrl' = UndoRemoval(ctrl, slot.removal) /\ RowsFollow /\ Sync
         /\ ~CanUndoRemoval(ctrl, slot.removal) =>
              ctrl' = ctrl /\ rows' = rows /\ selected' = selected /\ uiCurrent' = uiCurrent
BY DEF UndoRemoveTrack, On

LEMMA UndoRemoveTrackKeeps ==
  ASSUME IInv, UndoRemoveTrack
  PROVE  IInv'
<1> DEFINE S == KindOf(surfaces)
<1>1. S \in Kinds /\ Formed(S, ctrl) /\ slot.removal \in RemovalRecord
  BY ShapeNow, SlotIs, UndoRemoveTrackIs DEF IInv
<1> HIDE DEF S
<1>2. CASE CanUndoRemoval(ctrl, slot.removal)
  <2>1. Formed(S, ctrl')
    BY <1>1, <1>2, UndoRemoveTrackIs, UndoRemovalFormed
  <2>2. QueueFits(surfaces, ctrl', rows', selected')
    BY <1>1, <1>2, <2>1, UndoRemoveTrackIs, RowsFollowed DEF S
  <2>3. QED
    BY <1>1, <1>2, <2>1, <2>2, UndoRemoveTrackIs, SoundSynced, EditKeeps
<1>3. CASE ~CanUndoRemoval(ctrl, slot.removal)
  <2>1. QueueFits(surfaces, ctrl', rows', selected')
    BY <1>3, UndoRemoveTrackIs DEF IInv
  <2>2. QED
    BY <1>3, <2>1, UndoRemoveTrackIs, SoundSame, EditKeeps
<1>4. QED
  BY <1>2, <1>3

-----------------------------------------------------------------------------
(* The phone cuts tracks out of the albums in place. *)

Cut(i, k) == [ctrl EXCEPT !.items[i].tracks = RemoveAt(ctrl.items[i].tracks, k)]

LEMMA CutIs ==
  ASSUME IInv, NEW S, S = KindOf(surfaces), NEW i \in Items, NEW k \in DOMAIN ctrl.items[i].tracks,
         NEW rest, rest = RemoveAt(ctrl.items[i].tracks, k), S = Stocked => rest # <<>>
  PROVE  /\ Formed(S, Cut(i, k)) /\ Len(Cut(i, k).items) = Len(ctrl.items)
         /\ Cut(i, k).current = ctrl.current /\ i \in DOMAIN Cut(i, k).items
         /\ Cut(i, k).items[i].at \in Nat /\ Cut(i, k).items[i].at >= 1
         /\ rest \in Seq(Tracks)
<1>1. S \in Kinds /\ Formed(S, ctrl) /\ i \in DOMAIN ctrl.items
  BY ShapeNow DEF Items
<1>2. rest \in Seq(Tracks)
  <2>1. ctrl.items[i].tracks \in Seq(Tracks) /\ k \in 1..Len(ctrl.items[i].tracks)
    BY <1>1, FormedItem
  <2>2. QED
    BY <2>1, Removed
<1> DEFINE items == Retracked(ctrl, i, rest)
<1>3. Cut(i, k) = [ctrl EXCEPT !.items = items]
  BY DEF Cut, Retracked
<1>4. items \in Seq(S) /\ Len(items) = Len(ctrl.items)
  BY <1>1, <1>2, RetrackedIn
<1> HIDE DEF items
<1>5. Cut(i, k) = Made(items, ctrl.current, ctrl.selected)
  BY <1>1, <1>3, UpdatedIn
<1>6. FitsIn(S, ctrl.items, ctrl.current, ctrl.selected)
  BY <1>1, FormedFits
<1>7. Formed(S, Cut(i, k))
  <2>1. FitsIn(S, items, ctrl.current, ctrl.selected)
    BY <1>4, <1>6 DEF FitsIn
  <2>2. QED
    BY <1>1, <1>5, <2>1, MadeFormed
<1>8. /\ Len(Cut(i, k).items) = Len(ctrl.items) /\ Cut(i, k).current = ctrl.current
  BY <1>4, <1>5 DEF Made
<1>9. i \in DOMAIN Cut(i, k).items
  <2>1. DOMAIN Cut(i, k).items = 1..Len(Cut(i, k).items) /\ DOMAIN ctrl.items = 1..Len(ctrl.items)
    BY <1>1, <1>7, FormedFacts
  <2>2. QED
    BY <1>1, <1>8, <2>1
<1>10. Cut(i, k).items[i].at \in Nat /\ Cut(i, k).items[i].at >= 1
  BY <1>1, <1>7, <1>9, FormedItem
<1>11. QED
  BY <1>2, <1>7, <1>8, <1>9, <1>10

PhoneKept(i, k, rest) ==
  /\ ctrl' = [Cut(i, k) EXCEPT !.items[i].at = IF @ > Len(rest) THEN Len(rest) ELSE @]
  /\ KeepUndo /\ SameAudio /\ rows' = rows /\ selected' = selected /\ uiCurrent' = uiCurrent

LEMMA PhoneRemoveTrackIs ==
  ASSUME NEW i, NEW k, PhoneRemoveTrack(i, k), NEW rest, rest = RemoveAt(ctrl.items[i].tracks, k)
  PROVE  /\ surfaces' = surfaces /\ "phone" \in surfaces
         /\ rest = <<>> => RemoveThenSync(Cut(i, k), i)
         /\ rest # <<>> => PhoneKept(i, k, rest)
BY DEF PhoneRemoveTrack, PhoneKept, On, Cut

LEMMA PhoneRemoveTrackKeeps ==
  ASSUME IInv, NEW i \in Items, NEW k \in DOMAIN ctrl.items[i].tracks, PhoneRemoveTrack(i, k)
  PROVE  IInv'
<1> DEFINE S == KindOf(surfaces)
           rest == RemoveAt(ctrl.items[i].tracks, k)
           cut == Cut(i, k)
<1>1. /\ surfaces' = surfaces /\ "phone" \in surfaces
      /\ rest = <<>> => RemoveThenSync(cut, i)
      /\ rest # <<>> => PhoneKept(i, k, rest)
  BY PhoneRemoveTrackIs
<1>2. S \in Kinds /\ S # Stocked
  BY <1>1, KindKnown
<1>3. /\ Formed(S, cut) /\ Len(cut.items) = Len(ctrl.items) /\ cut.current = ctrl.current
      /\ i \in DOMAIN cut.items /\ rest \in Seq(Tracks)
      /\ cut.items[i].at \in Nat /\ cut.items[i].at >= 1
  BY <1>2, CutIs
<1> HIDE DEF S, rest
<1>4. CASE rest = <<>>
  BY <1>1, <1>3, <1>4, RemoveThenSyncKeeps DEF S
<1>5. CASE rest # <<>>
  <2> DEFINE at == IF cut.items[i].at > Len(rest) THEN Len(rest) ELSE cut.items[i].at
  <2>1. /\ ctrl' = Placed(cut, i, at)
        /\ KeepUndo /\ SameAudio /\ rows' = rows /\ selected' = selected /\ uiCurrent' = uiCurrent
    BY <1>1, <1>5 DEF PhoneKept, Placed
  <2> HIDE DEF cut
  <2>2. at \in Nat /\ at >= 1
    BY <1>3, <1>5, EmptySeq
  <2> HIDE DEF at
  <2>3. KeepsIn(S, cut, ctrl')
    BY <1>2, <1>3, <2>1, <2>2, PlacedKeepsIn
  <2>4. Formed(S, ctrl') /\ Len(ctrl'.items) = Len(ctrl.items)
    BY <1>2, <1>3, <2>3, FormedLists DEF KeepsIn
  <2>5. ctrl'.current = ctrl.current
    <3>1. cut = Made(cut.items, cut.current, cut.selected)
      BY <1>2, <1>3, FormedFits
    <3>2. Placed(cut, i, at).current = cut.current
      BY <3>1 DEF Placed, Made
    <3>3. QED
      BY <1>3, <2>1, <3>2
  <2>6. QueueFits(surfaces, ctrl', rows', selected')
    BY <2>1, <2>4, ShapeNow DEF QueueFits, S
  <2>7. QED
    BY <1>1, <2>1, <2>5, <2>6, SoundSame, BypassKeeps
<1>6. QED
  BY <1>4, <1>5

-----------------------------------------------------------------------------
(* Transport keys, the end of a track and the timer. *)

LEMMA CursorMoved ==
  ASSUME IInv, NEW S, S = KindOf(surfaces), KeepsIn(S, ctrl, ctrl'),
         surfaces' = surfaces, UNCHANGEDRows,
         SoundFits(surfaces, ctrl', uiCurrent', isPlaying', engine')
  PROVE  IInv'
<1>1. S \in Kinds /\ Formed(S, ctrl)
  BY ShapeNow
<1>2. rows' = rows /\ selected' = selected /\ KeepUndo
  BY DEF UNCHANGEDRows, KeepUndo
<1>3. QueueFits(surfaces, ctrl', rows', selected')
  BY <1>1, <1>2, RowsStay
<1>4. QED
  BY <1>1, <1>2, <1>3, NavigationKeeps

LEMMA StandsStill ==
  ASSUME IInv, ctrl' = ctrl
  PROVE  KeepsIn(KindOf(surfaces), ctrl, ctrl')
BY ShapeNow DEF KeepsIn

EngineStates == {"stopped", "playing", "paused", "ended"}

(* Pausing and resuming change neither the track nor what is stopped. *)
LEMMA Switched ==
  ASSUME IInv, NEW from \in EngineStates, NEW to \in EngineStates, Switch(from, to),
         from \in {"playing", "paused"}
  PROVE  /\ engine' \in [track : Tracks \cup {NoTrack}, state : EngineStates]
         /\ Audible(engine)' => Audible(engine) /\ engine'.track = engine.track
         /\ engine.state = "stopped" => engine' = engine
<1>1. engine \in [track : Tracks \cup {NoTrack}, state : EngineStates]
  BY DEF IInv, SoundFits, EngineStates
<1>2. CASE engine' = [engine EXCEPT !.state = to] /\ engine.state = from
  BY <1>1, <1>2 DEF Audible
<1>3. CASE engine' \in {Ended, Stopped} /\ engine.state = "ended"
  BY <1>3 DEF Ended, Stopped, Audible, EngineStates
<1>4. CASE engine' = engine
  BY <1>1, <1>4 DEF Audible
<1>5. QED
  BY <1>2, <1>3, <1>4 DEF Switch

LEMMA EngineIs ==
  ASSUME IInv
  PROVE  /\ engine \in [track : Tracks \cup {NoTrack}, state : EngineStates]
         /\ Audible(engine) => engine.track \in Tracks
         /\ uiCurrent \in Nat /\ isPlaying \in BOOLEAN
         /\ Shadowing(surfaces) =>
              uiCurrent = ctrl.current \/ (uiCurrent = 0 /\ engine.state = "stopped" /\ ~isPlaying)
BY DEF IInv, SoundFits, EngineStates

(* The copy of the cursor is brought up to date and the engine is left     *)
(* alone or stopped.                                                       *)
LEMMA SoundFollows ==
  ASSUME IInv, NEW S \in Kinds, Formed(S, ctrl'), Sync, engine' \in {engine, Stopped}, isPlaying' \in BOOLEAN
  PROVE  SoundFits(surfaces, ctrl', uiCurrent', isPlaying', engine')
<1>1. uiCurrent' = ctrl'.current /\ uiCurrent' \in Nat
  BY FormedFacts DEF Sync
<1>2. CASE engine' = engine
  BY <1>1, <1>2 DEF IInv, SoundFits
<1>3. CASE engine' = Stopped
  BY <1>1, <1>3 DEF SoundFits, Stopped, Audible
<1>4. QED
  BY <1>2, <1>3

(* It is left alone, and pausing or resuming switches the engine. *)
LEMMA SoundSwitched ==
  ASSUME IInv, NEW from \in {"playing", "paused"}, NEW to \in EngineStates, Switch(from, to),
         isPlaying' \in BOOLEAN, ctrl' = ctrl, uiCurrent' = uiCurrent,
         Shadowing(surfaces) => uiCurrent = ctrl.current
  PROVE  SoundFits(surfaces, ctrl', uiCurrent', isPlaying', engine')
<1>1. from \in EngineStates
  BY DEF EngineStates
<1>2. /\ engine' \in [track : Tracks \cup {NoTrack}, state : EngineStates]
      /\ Audible(engine') => Audible(engine) /\ engine'.track = engine.track
  BY <1>1, Switched DEF Audible
<1>3. QED
  BY <1>2, EngineIs DEF SoundFits, EngineStates

LEMMA TogglePlaybackKeeps ==
  ASSUME IInv, TogglePlayback
  PROVE  IInv'
<1> DEFINE S == KindOf(surfaces)
<1>1. S \in Kinds /\ Formed(S, ctrl)
  BY ShapeNow
<1>2. surfaces' = surfaces /\ UNCHANGEDRows
  BY DEF TogglePlayback, On
<1>3. SoundFits(surfaces, ctrl', uiCurrent', isPlaying', engine') /\ KeepsIn(S, ctrl, ctrl')
  <2>1. CASE /\ isPlaying /\ Switch("playing", "paused")
             /\ isPlaying' = FALSE /\ ctrl' = ctrl /\ uiCurrent' = uiCurrent
    <3>1. Shadowing(surfaces) => uiCurrent = ctrl.current
      BY <2>1, EngineIs
    <3>2. "paused" \in EngineStates
      BY DEF EngineStates
    <3>3. QED
      BY <2>1, <3>1, <3>2, SoundSwitched, StandsStill
  <2>2. CASE ctrl.items # <<>> /\ ctrl' = JumpTo(ctrl, 1) /\ Sync /\ PlayCursor
    <3>1. 1 \in DOMAIN ctrl.items
      BY <1>1, <2>2, NoItems, FormedFacts
    <3>2. KeepsIn(S, ctrl, ctrl')
      BY <1>1, <2>2, <3>1, JumpToKeepsIn
    <3>3. Formed(S, ctrl')
      BY <3>2 DEF KeepsIn
    <3>4. QED
      BY <1>1, <2>2, <3>2, <3>3, SoundPlayed
  <2>3. CASE ctrl' = ctrl /\ Sync /\ SameAudio
    BY <1>1, <2>3, SoundSynced, StandsStill
  <2>4. CASE /\ uiCurrent # 0 /\ Switch("paused", "playing")
             /\ isPlaying' = TRUE /\ ctrl' = ctrl /\ uiCurrent' = uiCurrent
    <3>1. Shadowing(surfaces) => uiCurrent = ctrl.current
      BY <2>4, EngineIs
    <3>2. "playing" \in EngineStates
      BY DEF EngineStates
    <3>3. QED
      BY <2>4, <3>1, <3>2, SoundSwitched, StandsStill
  <2>5. isPlaying \in BOOLEAN
    BY EngineIs
  <2>6. QED
    BY <2>1, <2>2, <2>3, <2>4, <2>5 DEF TogglePlayback
<1>4. QED
  BY <1>2, <1>3, CursorMoved

LEMMA StopPlaybackKeeps ==
  ASSUME IInv, StopPlayback
  PROVE  IInv'
<1>1. /\ surfaces' = surfaces /\ UNCHANGEDRows /\ ctrl' = ctrl
      /\ engine' = Stopped /\ isPlaying' = FALSE /\ uiCurrent' = 0
  BY DEF StopPlayback, On
<1>2. SoundFits(surfaces, ctrl', uiCurrent', isPlaying', engine')
  BY <1>1 DEF SoundFits, Stopped, Audible
<1>3. QED
  BY <1>1, <1>2, StandsStill, CursorMoved

(* The cursor moves on or back, and either its track is played or nothing  *)
(* is any more.                                                            *)
LEMMA SkipKeeps ==
  ASSUME IInv, surfaces' = surfaces, UNCHANGEDRows, Sync, NEW S, S = KindOf(surfaces),
         KeepsIn(S, ctrl, ctrl'),
         PlayCursor \/ (isPlaying' = FALSE /\ engine' \in {engine, Stopped})
  PROVE  IInv'
<1>1. S \in Kinds /\ Formed(S, ctrl')
  BY KindKnown DEF KeepsIn
<1>2. SoundFits(surfaces, ctrl', uiCurrent', isPlaying', engine')
  BY <1>1, SoundPlayed, SoundFollows
<1>3. QED
  BY <1>2, CursorMoved

LEMMA NextKeyIs ==
  ASSUME NextKey
  PROVE  /\ surfaces' = surfaces /\ UNCHANGEDRows /\ Sync /\ ctrl' = NextTrack(ctrl)
         /\ \/ Advanced /\ PlayCursor
            \/ ~Advanced /\ isPlaying' = FALSE /\ engine' = engine
BY DEF NextKey, On, GoNext

LEMMA NextKeyKeeps ==
  ASSUME IInv, NextKey
  PROVE  IInv'
<1>1. KeepsIn(KindOf(surfaces), ctrl, ctrl')
  BY NextKeyIs, ShapeNow, NextTrackKeepsIn
<1>2. QED
  BY <1>1, NextKeyIs, SkipKeeps

LEMMA PreviousKeyIs ==
  ASSUME PreviousKey
  PROVE  /\ surfaces' = surfaces /\ UNCHANGEDRows /\ Sync /\ ctrl' = PreviousTrack(ctrl)
         /\ \/ ~AtStart(ctrl) /\ PlayCursor
            \/ AtStart(ctrl) /\ isPlaying' = FALSE /\ engine' = engine
BY DEF PreviousKey, On

LEMMA PreviousKeyKeeps ==
  ASSUME IInv, PreviousKey
  PROVE  IInv'
<1>1. KeepsIn(KindOf(surfaces), ctrl, ctrl')
  BY PreviousKeyIs, ShapeNow, PreviousTrackKeepsIn
<1>2. QED
  BY <1>1, PreviousKeyIs, SkipKeeps

LEMMA TrackEndsKeeps ==
  ASSUME IInv, TrackEnds
  PROVE  IInv'
<1>1. /\ surfaces' = surfaces /\ UNCHANGEDRows /\ ctrl' = ctrl /\ engine' = Ended
      /\ uiCurrent' = uiCurrent /\ isPlaying' = isPlaying /\ engine.state = "playing"
  BY DEF TrackEnds, queue, UNCHANGEDRows
<1>2. SoundFits(surfaces, ctrl', uiCurrent', isPlaying', engine')
  BY <1>1, EngineIs DEF SoundFits, Ended, Audible
<1>3. QED
  BY <1>1, <1>2, StandsStill, CursorMoved

LEMMA TickIs ==
  ASSUME Tick
  PROVE  /\ surfaces' = surfaces /\ UNCHANGEDRows
         /\ \/ /\ StoppedUnasked /\ uiCurrent # 0 /\ ctrl' = NextTrack(ctrl) /\ Sync
               /\ \/ Advanced /\ PlayCursor
                  \/ ~Advanced /\ isPlaying' = FALSE /\ engine' = Stopped
            \/ /\ ~(StoppedUnasked /\ uiCurrent # 0)
               /\ isPlaying' = (engine.state = "playing")
               /\ engine' = IF engine.state = "ended" THEN Stopped ELSE engine
               /\ ctrl' = ctrl /\ uiCurrent' = uiCurrent
BY DEF Tick, GoNext

LEMMA TickKeeps ==
  ASSUME IInv, Tick
  PROVE  IInv'
<1>1. CASE ctrl' = NextTrack(ctrl) /\ Sync /\ (PlayCursor \/ (isPlaying' = FALSE /\ engine' = Stopped))
  <2>1. KeepsIn(KindOf(surfaces), ctrl, ctrl')
    BY <1>1, ShapeNow, NextTrackKeepsIn
  <2>2. QED
    BY <1>1, <2>1, TickIs, SkipKeeps
<1>2. CASE /\ isPlaying' = (engine.state = "playing")
           /\ engine' = IF engine.state = "ended" THEN Stopped ELSE engine
           /\ ctrl' = ctrl /\ uiCurrent' = uiCurrent
  <2>1. isPlaying' \in BOOLEAN
    BY <1>2, Zenon
  <2>2. engine.state = "stopped" => ~isPlaying'
    BY <1>2
  <2>3. /\ engine' \in [track : Tracks \cup {NoTrack}, state : EngineStates]
        /\ Audible(engine') => engine'.track \in Tracks
        /\ engine.state = "stopped" => engine'.state = "stopped"
    BY <1>2, EngineIs DEF Stopped, Audible, EngineStates
  <2>4. SoundFits(surfaces, ctrl', uiCurrent', isPlaying', engine')
    BY <1>2, <2>1, <2>2, <2>3, EngineIs DEF SoundFits, EngineStates
  <2>5. QED
    BY <1>2, <2>4, TickIs, StandsStill, CursorMoved
<1>3. QED
  BY <1>1, <1>2, TickIs

LEMMA NextInv == IInv /\ [Next]_vars => IInv'
<1> SUFFICES ASSUME IInv, [Next]_vars PROVE IInv'
  OBVIOUS
<1>1. CASE Library
  <2>1. TRUE \in BOOLEAN /\ FALSE \in BOOLEAN
    OBVIOUS
  <2>2. QED
    BY <1>1, <2>1, AddAlbumToQueueKeeps, AppendAlbumKeeps, PlayAlbumFromPageKeeps, PlayQueuedAlbumKeeps,
       EnqueueAlbumNextKeeps, QueuePlaylistKeeps, PlayFileKeeps DEF Library
<1>2. CASE QueueScreen
  BY <1>2, RemoveFromQueueKeeps, SelectRowKeeps, MoveQueueItemKeeps, ClickTrackKeeps,
     PhoneRemoveTrackKeeps, ClearQueueKeeps, UndoClearKeeps, UndoRemoveItemKeeps, PlaySelectedKeeps
  DEF QueueScreen
<1>3. CASE FlatQueue
  BY <1>3, RemoveUpcomingTrackKeeps, PlayUpcomingTrackKeeps, MoveUpcomingTrackKeeps, UndoRemoveTrackKeeps
  DEF FlatQueue
<1>4. CASE Transport
  BY <1>4, TogglePlaybackKeeps, StopPlaybackKeeps, NextKeyKeeps, PreviousKeyKeeps DEF Transport
<1>5. CASE UNCHANGED vars
  BY <1>5 DEF vars, queue, IInv, QueueFits, SlotFits, SoundFits, OfferFits
<1>6. QED
  BY <1>1, <1>2, <1>3, <1>4, <1>5, TrackEndsKeeps, TickKeeps DEF Next

LEMMA AlwaysInv == Spec => []IInv
<1>1. QED
  BY InitInv, NextInv, PTL DEF Spec

(* No handler leaves a value of another type behind. *)
THEOREM TypeCorrect == Spec => []TypeOK
<1>1. QED
  BY AlwaysInv, InvTypeOK, PTL

(* Whatever is edited, undone or played, there is one row per item, and    *)
(* the selection is a row.                                                 *)
THEOREM RowsAlwaysInStep == Spec => []RowsInStep
<1>1. QED
  BY AlwaysInv, InvRows, PTL

(* An undo on offer never discards what the listener did after it.         *)
THEOREM UndoNeverDiscards == Spec => []UndoDiscardsNothing
<1>1. QED
  BY AlwaysInv, InvUndo, PTL

LEMMA ContinuesStep ==
  ASSUME IInv, Shadowed
  PROVE  TrackFollows
<1> SUFFICES ASSUME Tick, StoppedUnasked, ctrl.current # 0, Advanced
             PROVE  engine'.state = "playing"
  BY DEF TrackFollows
<1>1. uiCurrent # 0
  BY EngineIs DEF StoppedUnasked, Shadowed, Shadowing
<1>2. ctrl' = NextTrack(ctrl) /\ PlayCursor
  BY <1>1, TickIs
<1>3. CurrentTrack(ctrl') # NoTrack
  BY <1>2, Zenon DEF Advanced
<1>4. QED
  BY <1>2, <1>3 DEF PlayCursor, Play

(* A queue filled album by album plays on when a track ends by itself. *)
THEOREM QueueAlwaysContinues == Spec => QueueContinues
<1>1. IInv /\ [Next]_vars => [Shadowed => TrackFollows]_vars
  BY ContinuesStep
<1>2. QED
  BY <1>1, AlwaysInv, PTL DEF Spec, QueueContinues

-----------------------------------------------------------------------------
(* The audible track and the cursor.  The invariant is not enough here:    *)
(* that the two belong together is what the property assumes of the state  *)
(* before the step.                                                        *)

SyncFits(c, ui, x, e) ==
  /\ Audible(e) /\ ui # 0 => CurrentTrack(c) = e.track
  /\ Audible(e) /\ x.kind = "cleared" => x.ctrl.current = 0 \/ CurrentTrack(x.ctrl) = e.track

Held == IInv /\ Shadowed /\ "phone" \notin surfaces /\ InSync

LEMMA InSyncIs ==
  /\ InSync <=> SyncFits(ctrl, uiCurrent, slot, engine)
  /\ InSync' <=> SyncFits(ctrl', uiCurrent', slot', engine')
BY DEF InSync, SyncFits, Audible

(* While something is audible, the copy of the cursor is the cursor, and   *)
(* the cursor is on the audible track, if it is on any.                    *)
LEMMA HeldIs ==
  ASSUME Held
  PROVE  /\ IInv /\ WellFormed(ctrl) /\ "phone" \notin surfaces
         /\ Audible(engine) => /\ uiCurrent = ctrl.current /\ Showing(ctrl)
                               /\ ctrl.current # 0 => CurrentTrack(ctrl) = engine.track /\ Plays(ctrl)
         /\ slot.kind = "cleared" => ctrl.items = <<>>
<1>1. Formed(KindOf(surfaces), ctrl) /\ KindOf(surfaces) = Stocked
  BY ShapeNow, KindKnown DEF Held
<1>2. WellFormed(ctrl)
  BY <1>1, WellFormedIs
<1>3. ASSUME Audible(engine)
      PROVE  uiCurrent = ctrl.current /\ (ctrl.current # 0 => CurrentTrack(ctrl) = engine.track)
  BY <1>3, EngineIs, InSyncIs DEF Held, SyncFits, Audible, Shadowed, Shadowing
<1>4. Audible(engine) => engine.track # NoTrack
  BY EngineIs, NoTrackAssumption DEF Held
<1>5. slot.kind = "cleared" => ctrl.items = <<>>
  <2>1. surfaces \cap {"phone", "files", "playlists"} = {}
    BY DEF Held, Shadowed
  <2>2. QED
    BY <2>1 DEF Held, IInv, OfferFits
<1>6. QED
  BY <1>2, <1>3, <1>4, <1>5 DEF Held, Plays, Showing

(* An edit that leaves the engine and what is current alone. *)
LEMMA EditSyncs ==
  ASSUME Held, SameAudio, slot'.kind # "cleared",
         uiCurrent' \in {uiCurrent, ctrl'.current}, ctrl.current = 0 => ctrl'.current = 0,
         Showing(ctrl) => CurrentTrack(ctrl') = CurrentTrack(ctrl)
  PROVE  SyncFits(ctrl', uiCurrent', slot', engine')
<1>1. engine' = engine
  BY DEF SameAudio
<1>2. ASSUME Audible(engine), uiCurrent' # 0
      PROVE  CurrentTrack(ctrl') = engine.track
  <2>1. uiCurrent = ctrl.current /\ Showing(ctrl)
        /\ (ctrl.current # 0 => CurrentTrack(ctrl) = engine.track)
    BY <1>2, HeldIs
  <2>2. ctrl.current # 0
    BY <1>2, <2>1
  <2>3. QED
    BY <2>1, <2>2
<1>3. QED
  BY <1>1, <1>2 DEF SyncFits

(* A handler that plays what the cursor is moved to. *)
LEMMA PlaySyncs ==
  ASSUME Held, PlayCursor, slot'.kind # "cleared", Audible(engine) => Plays(ctrl')
  PROVE  SyncFits(ctrl', uiCurrent', slot', engine')
<1>1. CASE CurrentTrack(ctrl') = NoTrack
  BY <1>1 DEF PlayCursor, Plays, SyncFits
<1>2. CASE CurrentTrack(ctrl') # NoTrack
  <2>1. engine' = [track |-> CurrentTrack(ctrl'), state |-> "playing"]
    BY <1>2 DEF PlayCursor, Play
  <2>2. engine'.track = CurrentTrack(ctrl')
    BY <2>1
  <2>3. QED
    BY <2>2 DEF SyncFits
<1>3. QED
  BY <1>1, <1>2

LEMMA SilenceSyncs ==
  ASSUME engine' \in {Stopped, Ended}
  PROVE  SyncFits(ctrl', uiCurrent', slot', engine')
BY DEF Stopped, Ended, Audible, SyncFits

(* A step that leaves the engine's track, what is current, and the slot    *)
(* alone.                                                                  *)
LEMMA RestSyncs ==
  ASSUME Held, slot' = slot, Audible(engine') => Audible(engine) /\ engine'.track = engine.track,
         Audible(engine) => CurrentTrack(ctrl') = CurrentTrack(ctrl) /\ uiCurrent' \in {uiCurrent, ctrl'.current}
                            /\ ctrl'.current = ctrl.current
  PROVE  SyncFits(ctrl', uiCurrent', slot', engine')
<1>1. SyncFits(ctrl, uiCurrent, slot, engine)
  BY InSyncIs DEF Held
<1>2. Audible(engine) => uiCurrent = ctrl.current
  BY HeldIs
<1>3. Audible(engine) => uiCurrent' = uiCurrent
  BY <1>2
<1>4. ASSUME Audible(engine'), uiCurrent' # 0
      PROVE  CurrentTrack(ctrl') = engine'.track
  BY <1>1, <1>3, <1>4 DEF SyncFits
<1>5. ASSUME Audible(engine'), slot'.kind = "cleared"
      PROVE  slot'.ctrl.current = 0 \/ CurrentTrack(slot'.ctrl) = engine'.track
  <2>1. slot.ctrl.current = 0 \/ CurrentTrack(slot.ctrl) = engine.track
    BY <1>1, <1>5, Zenon DEF SyncFits
  <2>2. engine'.track = engine.track
    BY <1>5
  <2>3. QED
    BY <2>1, <2>2, Zenon
<1>6. QED
  BY <1>4, <1>5, Zenon DEF SyncFits

LEMMA Withdrawn ==
  ASSUME InvalidateUndo
  PROVE  slot'.kind # "cleared"
BY NoSlotKind DEF InvalidateUndo

(* No undo of a clear is on offer for a queue that holds something. *)
LEMMA Unoffered ==
  ASSUME Held, KeepUndo, DOMAIN ctrl.items # {}
  PROVE  slot'.kind # "cleared" /\ slot' = slot
<1>1. slot' = slot
  BY DEF KeepUndo
<1>2. WellFormed(ctrl) /\ (slot.kind = "cleared" => ctrl.items = <<>>)
  BY HeldIs
<1>3. DOMAIN ctrl.items = 1..Len(ctrl.items)
  BY <1>2, Facts
<1>4. ctrl.items # <<>>
  BY <1>3
<1>5. QED
  BY <1>1, <1>2, <1>4

-----------------------------------------------------------------------------
(* The actions, one by one. *)

LEMMA AppendAlbumSyncs ==
  ASSUME Held, NEW album \in Albums, AppendAlbum(album)
  PROVE  SyncFits(ctrl', uiCurrent', slot', engine')
<1>1. /\ ctrl' = AddAlbum(ctrl, album) /\ InvalidateUndo /\ SameAudio /\ uiCurrent' = uiCurrent
  BY DEF AppendAlbum
<1>2. WellFormed(ctrl) /\ album \in Seq(Tracks) /\ album # <<>>
  BY HeldIs, AlbumIs
<1>3. CurrentTrack(ctrl') = CurrentTrack(ctrl)
  BY <1>1, <1>2, AddAlbumPlays
<1>4. ctrl'.current = ctrl.current
  BY <1>1, <1>2, AddAlbumMade, WellFormedIs, StockedKind
<1>5. QED
  BY <1>1, <1>3, <1>4, Withdrawn, EditSyncs

LEMMA AddAlbumSyncs ==
  ASSUME Held, NEW album \in Albums, AddAlbumToQueue(album)
  PROVE  SyncFits(ctrl', uiCurrent', slot', engine')
<1>1. CASE AppendAlbum(album)
  BY <1>1, AppendAlbumSyncs
<1>2. CASE ctrl' = ctrl /\ uiCurrent' = uiCurrent /\ engine' = engine /\ slot' = slot
  BY <1>2, RestSyncs
<1>3. QED
  BY <1>1, <1>2, AddAlbumToQueueIs

LEMMA PlayAlbumSyncs ==
  ASSUME Held, NEW album \in Albums, PlayAlbumFromPage(album)
  PROVE  SyncFits(ctrl', uiCurrent', slot', engine')
<1>1. ctrl' = PlayAlbumNow(ctrl, album) /\ InvalidateUndo /\ PlayCursor
  BY DEF PlayAlbumFromPage
<1>2. WellFormed(ctrl) /\ album \in Seq(Tracks) /\ album # <<>>
  BY HeldIs, AlbumIs
<1>3. Plays(ctrl')
  BY <1>1, <1>2, AddAlbumPlays
<1>4. QED
  BY <1>1, <1>3, Withdrawn, PlaySyncs

LEMMA JumpSyncs ==
  ASSUME Held, NEW i \in DOMAIN ctrl.items, ctrl' = JumpTo(ctrl, i), KeepUndo, PlayCursor
  PROVE  SyncFits(ctrl', uiCurrent', slot', engine')
<1>1. Plays(ctrl')
  BY HeldIs, JumpToPlays
<1>2. DOMAIN ctrl.items # {}
  OBVIOUS
<1>3. QED
  BY <1>1, <1>2, Unoffered, PlaySyncs

LEMMA PlayQueuedSyncs ==
  ASSUME Held, NEW album \in Albums, PlayQueuedAlbum(album)
  PROVE  SyncFits(ctrl', uiCurrent', slot', engine')
<1>1. IInv
  BY HeldIs
<1>2. PICK i \in DOMAIN ctrl.items : ctrl' = JumpTo(ctrl, i)
  BY <1>1, PlayQueuedAlbumIs DEF Items
<1>3. QED
  BY <1>1, <1>2, PlayQueuedAlbumIs, JumpSyncs

LEMMA EnqueueNextSyncs ==
  ASSUME Held, NEW album \in Albums, EnqueueAlbumNext(album)
  PROVE  SyncFits(ctrl', uiCurrent', slot', engine')
<1> SUFFICES ASSUME ~Panic PROVE SyncFits(ctrl', uiCurrent', slot', engine')
  BY PanicSilent, SilenceSyncs
<1>1. /\ ctrl' = EnqueueNext(ctrl, album) /\ InvalidateUndo /\ SameAudio /\ uiCurrent' = uiCurrent
  BY DEF EnqueueAlbumNext
<1>2. WellFormed(ctrl) /\ album \in Seq(Tracks) /\ album # <<>>
  BY HeldIs, AlbumIs
<1>3. Showing(ctrl) => CurrentTrack(ctrl') = CurrentTrack(ctrl)
  BY <1>1, <1>2, EnqueueNextDoes DEF Does
<1>4. ctrl'.current = ctrl.current
  BY <1>1, <1>2, EnqueueNextMade, WellFormedIs, StockedKind
<1>5. QED
  BY <1>1, <1>3, <1>4, Withdrawn, EditSyncs

(* Removing the item that is playing reloads; removing the one under the   *)
(* cursor of a player that is not playing is the first exception.          *)
LEMMA RemoveSyncs ==
  ASSUME Held, NEW i \in Items, RemoveFromQueue(i)
  PROVE  \/ SyncFits(ctrl', uiCurrent', slot', engine')
         \/ RemoveFromQueue(i) /\ i = ctrl.current /\ ~isPlaying
<1> DEFINE wasCurrent == ctrl.current = i
<1>1. i \in DOMAIN ctrl.items /\ WellFormed(ctrl) /\ isPlaying \in BOOLEAN
  BY HeldIs, EngineIs DEF Items
<1>2. /\ ctrl' = RemoveAlbum(ctrl, i) /\ Sync
      /\ slot' = [Snapshot("removed", wasCurrent) EXCEPT !.ctrl = ctrl]
      /\ CASE wasCurrent /\ CurrentTrack(ctrl') = NoTrack -> engine' = Stopped /\ isPlaying' = FALSE
           [] wasCurrent /\ CurrentTrack(ctrl') # NoTrack /\ isPlaying -> PlayCursor
           [] OTHER -> SameAudio
  BY DEF RemoveFromQueue, RemoveThenSync, Offer
<1>3. slot'.kind = "removed" /\ slot'.wasCurrent = wasCurrent
  BY <1>2 DEF Snapshot
<1>4. CASE ~wasCurrent
  <2>1. SameAudio
    BY <1>2, <1>4
  <2>2. CurrentTrack(ctrl') = CurrentTrack(ctrl) /\ (ctrl.current = 0 => ctrl'.current = 0)
    BY <1>1, <1>2, <1>4, RemoveAlbumPlays
  <2>3. QED
    BY <1>2, <1>3, <2>1, <2>2, EditSyncs DEF Sync
<1>5. CASE wasCurrent /\ CurrentTrack(ctrl') = NoTrack
  <2>1. engine' = Stopped
    BY <1>2, <1>5
  <2>2. QED
    BY <2>1, SilenceSyncs
<1>6. CASE wasCurrent /\ CurrentTrack(ctrl') # NoTrack /\ isPlaying
  <2>1. PlayCursor
    BY <1>2, <1>6
  <2>2. QED
    BY <1>3, <1>6, <2>1, PlaySyncs DEF Plays
<1>7. QED
  BY <1>1, <1>3, <1>4, <1>5, <1>6

LEMMA MoveQueueSyncs ==
  ASSUME Held, NEW from, NEW to, MoveQueueItem(from, to)
  PROVE  SyncFits(ctrl', uiCurrent', slot', engine')
<1> SUFFICES ASSUME ~Panic PROVE SyncFits(ctrl', uiCurrent', slot', engine')
  BY PanicSilent, SilenceSyncs
<1>1. IInv /\ WellFormed(ctrl) /\ KindOf(surfaces) = Stocked
  BY HeldIs, KindKnown DEF KindOf
<1>2. /\ Keeps(ctrl, Bridged) /\ WellFormed(Bridged)
      /\ Bridged.items = ctrl.items /\ Bridged.current = ctrl.current
  BY <1>1, BridgedKeeps, KeepsIs DEF Keeps
<1>3. CurrentTrack(Bridged) = CurrentTrack(ctrl)
  BY <1>2 DEF CurrentTrack
<1>4. CASE CanMoveItem(ctrl, from, to)
  <2>1. from \in DOMAIN Bridged.items /\ to \in DOMAIN Bridged.items
    BY <1>2, <1>4 DEF CanMoveItem
  <2>2. ctrl' = MoveItem(Bridged, from, to) /\ InvalidateUndo /\ Sync /\ SameAudio
    BY <1>4, MoveQueueItemIs
  <2>3. CurrentTrack(ctrl') = CurrentTrack(ctrl) /\ (ctrl.current = 0 => ctrl'.current = 0)
    BY <1>2, <1>3, <2>1, <2>2, MoveItemPlays
  <2>4. QED
    BY <2>2, <2>3, Withdrawn, EditSyncs DEF Sync
<1>5. CASE ~CanMoveItem(ctrl, from, to)
  <2>1. ctrl' = Bridged /\ slot' = slot /\ uiCurrent' = uiCurrent /\ engine' = engine
    BY <1>5, MoveQueueItemIs DEF KeepUndo, SameAudio
  <2>2. QED
    BY <1>2, <1>3, <2>1, RestSyncs
<1>6. QED
  BY <1>4, <1>5

LEMMA ClearSyncs ==
  ASSUME Held, ClearQueue
  PROVE  SyncFits(ctrl', uiCurrent', slot', engine')
<1>1. uiCurrent' = 0 /\ engine' = engine
  BY ClearQueueIs DEF Sync, EmptyController
<1>2. CASE ctrl.items = <<>>
  BY <1>1, <1>2, ClearQueueIs, Withdrawn DEF SyncFits
<1>3. CASE ctrl.items # <<>>
  <2>1. slot'.ctrl = ctrl
    BY <1>3, ClearQueueIs DEF Offer, Snapshot
  <2>2. QED
    BY <1>1, <2>1, HeldIs DEF SyncFits
<1>4. QED
  BY <1>2, <1>3

LEMMA UndoClearSyncs ==
  ASSUME Held, UndoClear
  PROVE  SyncFits(ctrl', uiCurrent', slot', engine')
<1>1. slot.kind = "cleared" /\ ctrl' = slot.ctrl /\ InvalidateUndo /\ Sync /\ engine' = engine
  BY DEF UndoClear, Restore, SameAudio
<1>2. SyncFits(ctrl, uiCurrent, slot, engine)
  BY InSyncIs DEF Held
<1>3. QED
  BY <1>1, <1>2, Withdrawn DEF SyncFits, Sync

(* Putting back an item is the second exception, unless its removal cut    *)
(* off what was playing and the player plays.                              *)
LEMMA UndoRemoveSyncs ==
  ASSUME Held, UndoRemoveItem
  PROVE  \/ SyncFits(ctrl', uiCurrent', slot', engine')
         \/ UndoRemoveItem /\ ~(isPlaying /\ slot.wasCurrent)
<1>1. slot.kind = "removed" /\ slot' = NoSlot /\ slot'.kind # "cleared"
  BY UndoRemoveItemIs, Withdrawn DEF InvalidateUndo
<1>2. CASE CurrentTrack(ctrl') # NoTrack /\ PlayCursor
  BY <1>1, <1>2, PlaySyncs DEF Plays
<1>3. CASE engine' = Stopped
  BY <1>3, SilenceSyncs
<1>4. QED
  BY <1>1, <1>2, <1>3, UndoRemoveItemIs

LEMMA ClickSyncs ==
  ASSUME Held, NEW i \in Items, NEW k \in DOMAIN ctrl.items[i].tracks, ClickTrack(i, k) \/ PhonePlayRow(i, k)
  PROVE  SyncFits(ctrl', uiCurrent', slot', engine')
<1>1. ctrl' = CursorAt(ctrl, i, k, i) /\ KeepUndo /\ PlayCursor
  BY ClickTrackIs
<1>2. WellFormed(ctrl) /\ i \in DOMAIN ctrl.items
  BY HeldIs DEF Items
<1>3. k \in 1..Len(ctrl.items[i].tracks)
  BY <1>2, ItemFacts
<1>4. Plays(ctrl')
  BY <1>1, <1>2, <1>3, PlacedPlays
<1>5. DOMAIN ctrl.items # {}
  BY <1>2
<1>6. QED
  BY <1>1, <1>4, <1>5, Unoffered, PlaySyncs

LEMMA RemoveUpcomingSyncs ==
  ASSUME Held, NEW index \in Rows, RemoveUpcomingTrack(index)
  PROVE  SyncFits(ctrl', uiCurrent', slot', engine')
<1>1. /\ ctrl' = TakeUpcoming(ctrl, Upcoming(ctrl)[index]) /\ Sync /\ SameAudio
      /\ slot'.kind = "track"
  BY DEF RemoveUpcomingTrack, Offer
<1>2. CurrentTrack(ctrl') = CurrentTrack(ctrl) /\ ctrl'.current = ctrl.current
  BY <1>1, HeldIs, TakeUpcomingDoes DEF Rows, Does
<1>3. QED
  BY <1>1, <1>2, EditSyncs DEF Sync

LEMMA MoveUpcomingSyncs ==
  ASSUME Held, NEW from \in Rows, NEW to \in Rows, MoveUpcomingTrack(from, to)
  PROVE  SyncFits(ctrl', uiCurrent', slot', engine')
<1>1. ctrl' = MoveUpcoming(ctrl, from, to) /\ Sync /\ SameAudio /\ InvalidateUndo
  BY DEF MoveUpcomingTrack
<1>2. WellFormed(ctrl) /\ from \in DOMAIN Upcoming(ctrl) /\ to \in DOMAIN Upcoming(ctrl)
  BY HeldIs DEF Rows
<1>3. CurrentTrack(ctrl') = CurrentTrack(ctrl)
  BY <1>1, <1>2, MoveUpcomingDoes DEF Does
<1>4. ctrl'.current = ctrl.current
  <2> DEFINE left == TakeUpcoming(ctrl, Upcoming(ctrl)[from])
  <2>1. left.current = ctrl.current
    BY <1>2, TakeUpcomingDoes
  <2>2. Put(left, to, UpcomingTracks(ctrl)[from], ctrl')
    BY <1>1, <1>2, MoveIsPut
  <2> HIDE DEF left
  <2>3. ctrl'.current = left.current
    BY <2>2 DEF Put
  <2>4. QED
    BY <2>1, <2>3
<1>5. QED
  BY <1>1, <1>3, <1>4, Withdrawn, EditSyncs DEF Sync

LEMMA PlayUpcomingSyncs ==
  ASSUME Held, NEW index \in Rows, PlayUpcomingTrack(index)
  PROVE  SyncFits(ctrl', uiCurrent', slot', engine')
<1>1. ctrl' = PlayUpcoming(ctrl, index) /\ KeepUndo /\ PlayCursor
  BY DEF PlayUpcomingTrack
<1>2. WellFormed(ctrl) /\ index \in DOMAIN Upcoming(ctrl)
  BY HeldIs DEF Rows
<1>3. Plays(ctrl')
  BY <1>1, <1>2, PlayUpcomingPlays
<1>4. DOMAIN ctrl.items # {}
  BY <1>2, UpcomingRow, RowFacts
<1>5. QED
  BY <1>1, <1>3, <1>4, Unoffered, PlaySyncs

LEMMA UndoTrackSyncs ==
  ASSUME Held, UndoRemoveTrack
  PROVE  SyncFits(ctrl', uiCurrent', slot', engine')
<1>1. InvalidateUndo /\ SameAudio /\ WellFormed(ctrl) /\ slot.removal \in RemovalRecord
  BY UndoRemoveTrackIs, HeldIs, SlotIs DEF IInv
<1>2. CASE CanUndoRemoval(ctrl, slot.removal)
  <2>1. ctrl' = UndoRemoval(ctrl, slot.removal) /\ Sync
    BY <1>2, UndoRemoveTrackIs
  <2>2. CurrentTrack(ctrl') = CurrentTrack(ctrl) /\ (ctrl.current = 0 => ctrl'.current = 0)
    <3>1. CASE slot.removal.itemRemoved
      BY <1>1, <1>2, <2>1, <3>1, UndoPutsBackAlbum
    <3>2. CASE ~slot.removal.itemRemoved
      BY <1>1, <1>2, <2>1, <3>2, UndoPutsBackTrack
    <3>3. QED
      BY <3>1, <3>2
  <2>3. QED
    BY <1>1, <2>1, <2>2, Withdrawn, EditSyncs DEF Sync
<1>3. CASE ~CanUndoRemoval(ctrl, slot.removal)
  <2>1. ctrl' = ctrl /\ uiCurrent' = uiCurrent
    BY <1>3, UndoRemoveTrackIs
  <2>2. QED
    BY <1>1, <2>1, Withdrawn, EditSyncs
<1>4. QED
  BY <1>2, <1>3

LEMMA SwitchSyncs ==
  ASSUME Held, NEW from \in {"playing", "paused"}, NEW to \in EngineStates, Switch(from, to),
         slot' = slot, ctrl' = ctrl, uiCurrent' = uiCurrent
  PROVE  SyncFits(ctrl', uiCurrent', slot', engine')
<1>1. from \in EngineStates /\ IInv
  BY HeldIs DEF EngineStates
<1>2. Audible(engine') => Audible(engine) /\ engine'.track = engine.track
  BY <1>1, Switched DEF Audible
<1>3. QED
  BY <1>2, RestSyncs

LEMMA ToggleSyncs ==
  ASSUME Held, TogglePlayback
  PROVE  SyncFits(ctrl', uiCurrent', slot', engine')
<1>1. slot' = slot /\ KeepUndo /\ isPlaying \in BOOLEAN /\ WellFormed(ctrl)
  BY HeldIs, EngineIs DEF TogglePlayback, UNCHANGEDRows, KeepUndo
<1>2. "playing" \in EngineStates /\ "paused" \in EngineStates
  BY DEF EngineStates
<1>3. CASE Switch("playing", "paused") /\ ctrl' = ctrl /\ uiCurrent' = uiCurrent
  BY <1>1, <1>2, <1>3, SwitchSyncs
<1>4. CASE Switch("paused", "playing") /\ ctrl' = ctrl /\ uiCurrent' = uiCurrent
  BY <1>1, <1>2, <1>4, SwitchSyncs
<1>5. CASE ctrl.items # <<>> /\ ctrl' = JumpTo(ctrl, 1) /\ PlayCursor
  <2>1. Formed(Stocked, ctrl)
    BY <1>1, WellFormedIs
  <2>2. 1 \in DOMAIN ctrl.items
    BY <1>5, <2>1, StockedKind, NoItems, FormedFacts
  <2>3. QED
    BY <1>1, <1>5, <2>2, JumpSyncs
<1>6. CASE ctrl' = ctrl /\ Sync /\ SameAudio
  BY <1>1, <1>6, RestSyncs DEF SameAudio, Sync
<1>7. QED
  BY <1>1, <1>3, <1>4, <1>5, <1>6 DEF TogglePlayback

(* Skipping on at the end, or back at the start, goes nowhere. *)
LEMMA EndStays ==
  ASSUME NEW c, WellFormed(c)
  PROVE  AtEnd(c) => NextTrack(c) = c
BY DEF AtEnd, NextTrack

LEMMA StartStays ==
  ASSUME NEW c, WellFormed(c), c.current = 0 \/ Plays(c)
  PROVE  AtStart(c) => PreviousTrack(c) = c
<1>1. Stocked \in Kinds /\ Formed(Stocked, c)
  BY WellFormedIs, StockedKind
<1>2. CASE c.current = 0
  <2>1. c.current \notin DOMAIN c.items
    BY <1>2, Facts
  <2>2. QED
    BY <2>1 DEF PreviousTrack
<1>3. CASE Plays(c)
  <2> DEFINE at == c.items[c.current].at
             n == Len(c.items[c.current].tracks)
  <2>1. c.current \in DOMAIN c.items /\ at \in 1..n
    BY <1>3, PlaysIs
  <2>2. at \in Nat /\ n \in Nat
    BY <1>1, <2>1, FormedItem
  <2>3. /\ at = 1 => StepBack(c) = c
        /\ HasPreviousInItem(c) <=> at > 1 /\ at - 1 <= n
    BY <1>1, <2>1, StepBackIs
  <2>4. c.current = 1 => PreviousTrack(c) = StepBack(c)
    BY <1>1, <2>1, PreviousTrackIs
  <2> HIDE DEF at, n
  <2>5. ASSUME AtStart(c) PROVE c.current = 1 /\ at = 1
    <3>1. c.current = 1 /\ ~HasPreviousInItem(c)
      BY <2>1, <2>5 DEF AtStart
    <3>2. QED
      BY <2>1, <2>2, <2>3, <3>1
  <2>6. QED
    BY <2>3, <2>4, <2>5
<1>4. QED
  BY <1>2, <1>3

LEMMA NextSyncs ==
  ASSUME Held, ctrl' = NextTrack(ctrl), Sync, KeepUndo,
         \/ Advanced /\ PlayCursor
         \/ ~Advanced /\ engine' \in {engine, Stopped}
  PROVE  SyncFits(ctrl', uiCurrent', slot', engine')
<1>1. WellFormed(ctrl) /\ slot' = slot
  BY HeldIs DEF KeepUndo
<1>2. CASE Advanced /\ PlayCursor
  <2>1. Plays(ctrl')
    BY <1>2, Zenon DEF Advanced, Plays
  <2>2. DOMAIN ctrl.items # {}
    BY <1>2 DEF Advanced, AtEnd
  <2>3. QED
    BY <1>2, <2>1, <2>2, Unoffered, PlaySyncs
<1>3. CASE ~Advanced /\ engine' = engine
  <2>1. ASSUME Audible(engine)
        PROVE  AtEnd(ctrl)
    <3>1. CASE ctrl.current = 0
      BY <1>1, <3>1, Facts DEF AtEnd
    <3>2. CASE Plays(ctrl)
      <4>1. Plays(NextTrack(ctrl))
        BY <1>1, <3>2, NextTrackNavigates DEF Navigates
      <4>2. QED
        BY <1>3, <4>1 DEF Advanced, Plays
    <3>3. QED
      BY <2>1, <3>1, <3>2, HeldIs
  <2>2. Audible(engine) => ctrl' = ctrl
    BY <1>1, <2>1, EndStays
  <2>3. QED
    BY <1>1, <1>3, <2>2, RestSyncs DEF Sync
<1>4. CASE engine' = Stopped
  BY <1>4, SilenceSyncs
<1>5. QED
  BY <1>2, <1>3, <1>4

LEMMA PreviousSyncs ==
  ASSUME Held, PreviousKey
  PROVE  SyncFits(ctrl', uiCurrent', slot', engine')
<1>1. WellFormed(ctrl) /\ slot' = slot /\ KeepUndo
  BY HeldIs, PreviousKeyIs DEF UNCHANGEDRows, KeepUndo
<1>2. CASE ~AtStart(ctrl) /\ PlayCursor
  <2>1. ctrl.current # 0 /\ DOMAIN ctrl.items # {}
    BY <1>1, <1>2, Facts DEF AtStart
  <2>2. Audible(engine) => Plays(ctrl)
    BY <2>1, HeldIs
  <2>3. Audible(engine) => Plays(ctrl')
    BY <1>1, <2>2, PreviousKeyIs, PreviousTrackNavigates DEF Navigates
  <2>4. QED
    BY <1>1, <1>2, <2>1, <2>3, Unoffered, PlaySyncs
<1>3. CASE AtStart(ctrl) /\ engine' = engine
  <2>1. Audible(engine) => ctrl' = ctrl
    BY <1>1, <1>3, HeldIs, PreviousKeyIs, StartStays
  <2>2. QED
    BY <1>1, <1>3, <2>1, PreviousKeyIs, RestSyncs DEF Sync
<1>4. QED
  BY <1>2, <1>3, PreviousKeyIs

LEMMA TickSyncs ==
  ASSUME Held, Tick
  PROVE  SyncFits(ctrl', uiCurrent', slot', engine')
<1>1. slot' = slot /\ KeepUndo
  BY TickIs DEF UNCHANGEDRows, KeepUndo
<1>2. CASE /\ ctrl' = NextTrack(ctrl) /\ Sync
           /\ \/ Advanced /\ PlayCursor
              \/ ~Advanced /\ engine' = Stopped
  BY <1>1, <1>2, NextSyncs
<1>3. CASE /\ engine' = IF engine.state = "ended" THEN Stopped ELSE engine
           /\ ctrl' = ctrl /\ uiCurrent' = uiCurrent
  <2>1. CASE engine' = Stopped
    BY <2>1, SilenceSyncs
  <2>2. CASE engine' = engine
    BY <1>1, <1>3, <2>2, RestSyncs
  <2>3. QED
    BY <1>3, <2>1, <2>2
<1>4. QED
  BY <1>2, <1>3, TickIs

-----------------------------------------------------------------------------

LEMMA LibrarySyncs ==
  ASSUME Held, Library
  PROVE  SyncFits(ctrl', uiCurrent', slot', engine')
<1>1. surfaces \cap {"playlists", "files"} = {}
  BY DEF Held, Shadowed
<1>2. ~\E paths \in Playlists : QueuePlaylist(paths, TRUE) \/ QueuePlaylist(paths, FALSE)
  BY <1>1 DEF QueuePlaylist, On
<1>3. ~\E t \in Files : PlayFile(t)
  BY <1>1 DEF PlayFile, On
<1>4. QED
  BY <1>2, <1>3, AddAlbumSyncs, AppendAlbumSyncs, PlayAlbumSyncs, PlayQueuedSyncs, EnqueueNextSyncs
  DEF Library

LEMMA QueueScreenSyncs ==
  ASSUME Held, QueueScreen
  PROVE  SyncFits(ctrl', uiCurrent', slot', engine') \/ LeavesAudio
<1>1. ASSUME NEW i \in Items, NEW k \in DOMAIN ctrl.items[i].tracks, PhoneRemoveTrack(i, k)
      PROVE  FALSE
  BY <1>1 DEF PhoneRemoveTrack, On, Held
<1>2. ASSUME NEW i \in Items, SelectRow(i)
      PROVE  SyncFits(ctrl', uiCurrent', slot', engine')
  BY <1>2, RestSyncs DEF SelectRow, SameAudio, KeepUndo
<1>3. ASSUME PlaySelected
      PROVE  SyncFits(ctrl', uiCurrent', slot', engine')
  BY <1>3, JumpSyncs DEF PlaySelected, Items
<1>4. QED
  BY <1>1, <1>2, <1>3, RemoveSyncs, MoveQueueSyncs, ClickSyncs, ClearSyncs, UndoClearSyncs, UndoRemoveSyncs
  DEF QueueScreen, LeavesAudio

LEMMA EditsSyncStep ==
  ASSUME Held, Next
  PROVE  SyncFits(ctrl', uiCurrent', slot', engine') \/ LeavesAudio
<1>1. CASE FlatQueue
  BY <1>1, RemoveUpcomingSyncs, PlayUpcomingSyncs, MoveUpcomingSyncs, UndoTrackSyncs DEF FlatQueue
<1>2. ASSUME StopPlayback \/ TrackEnds
      PROVE  SyncFits(ctrl', uiCurrent', slot', engine')
  BY <1>2, SilenceSyncs DEF StopPlayback, TrackEnds
<1>3. ASSUME NextKey
      PROVE  SyncFits(ctrl', uiCurrent', slot', engine')
  BY <1>3, NextKeyIs, NextSyncs DEF UNCHANGEDRows, KeepUndo
<1>4. QED
  BY <1>1, <1>2, <1>3, LibrarySyncs, QueueScreenSyncs, ToggleSyncs, PreviousSyncs, TickSyncs
  DEF Next, Transport

(* No edit, undo or navigation parts the audible track from the cursor,    *)
(* but for the current album removed while nothing plays, and an item put  *)
(* back while nothing plays or that was not current.                       *)
THEOREM EditsAlwaysKeepSync == Spec => EditsKeepSync
<1>1. IInv /\ [Next]_vars =>
        [Shadowed /\ "phone" \notin surfaces /\ InSync /\ ~InSync' => LeavesAudio]_vars
  BY EditsSyncStep, InSyncIs DEF Held
<1>2. QED
  BY <1>1, AlwaysInv, PTL DEF Spec, EditsKeepSync
=============================================================================
