--------------------------- MODULE PlaybackProofs ---------------------------
(***************************************************************************)
(* Proofs about Playback for any tracks, queues and settings.              *)
(***************************************************************************)
EXTENDS Playback, QueueLemmas

(* Every album the cursor has reached was left on one of its tracks. *)
InPlace(c) ==
  WellFormed(c) /\ \A i \in 1..c.current : c.items[i].at <= Len(c.items[i].tracks)

-----------------------------------------------------------------------------
(* The queue under the operations of playback. *)

LEMMA InPlacePlays ==
  ASSUME NEW c, InPlace(c)
  PROVE  /\ c \in Controller /\ c.current \in Nat
         /\ c.current # 0 <=> CurrentTrack(c) # NoTrack
         /\ CurrentTrack(c) \in Tracks \cup {NoTrack}
<1>0. WellFormed(c)
  BY DEF InPlace
<1>1. c \in Controller /\ c.current \in Nat /\ c.current <= Len(c.items) /\ DOMAIN c.items = 1..Len(c.items)
  BY <1>0, Facts DEF WellFormed
<1>2. CASE c.current = 0
  BY <1>1, <1>2 DEF CurrentTrack
<1>3. CASE c.current # 0
  <2>1. c.current \in DOMAIN c.items /\ c.current \in 1..c.current
    BY <1>1, <1>3
  <2>2. /\ c.items[c.current].tracks \in Seq(Tracks) /\ c.items[c.current].at \in Nat
        /\ c.items[c.current].at >= 1
        /\ DOMAIN c.items[c.current].tracks = 1..Len(c.items[c.current].tracks)
        /\ Len(c.items[c.current].tracks) \in Nat
    BY <1>0, <2>1, ItemFacts
  <2>3. c.items[c.current].at <= Len(c.items[c.current].tracks)
    BY <2>1 DEF InPlace
  <2>4. c.items[c.current].at \in DOMAIN c.items[c.current].tracks
    BY <2>2, <2>3
  <2>5. c.items[c.current].tracks[c.items[c.current].at] \in Tracks
    BY <2>2, <2>4, ElementOfSeq
  <2>6. QED
    BY <1>1, <1>3, <2>1, <2>4, <2>5, NoTrackAssumption DEF CurrentTrack
<1>4. QED
  BY <1>2, <1>3

(* A cursor that moves within reach onto a track of its album. *)
LEMMA MovedInPlace ==
  ASSUME NEW c, InPlace(c), NEW i \in 1..Len(c.items), NEW k \in 1..Len(c.items[i].tracks),
         i <= c.current + 1
  PROVE  /\ InPlace(CursorAt(c, i, k, i)) /\ Lists(CursorAt(c, i, k, i)) = Lists(c)
         /\ CursorAt(c, i, k, i).current = i
<1> DEFINE d == CursorAt(c, i, k, i)
<1>0. WellFormed(c)
  BY DEF InPlace
<1>1. /\ Len(c.items) \in Nat /\ DOMAIN c.items = 1..Len(c.items) /\ c.current \in Nat
      /\ i \in Nat /\ i >= 1 /\ i <= Len(c.items) /\ k \in Nat /\ k >= 1
  BY <1>0, Facts
<1>2. i \in DOMAIN c.items /\ i \in 0..Len(c.items)
  BY <1>1
<1>3. WellFormed(d) /\ Lists(d) = Lists(c)
  BY <1>0, <1>1, <1>2, PlacedKeeps DEF Keeps
<1>4. d.current = i /\ d.items = [c.items EXCEPT ![i] = [c.items[i] EXCEPT !.at = k]]
  BY DEF CursorAt, Made
<1>5. c.items[i] = [tracks |-> c.items[i].tracks, at |-> c.items[i].at] /\ Len(c.items[i].tracks) \in Nat
  BY <1>0, <1>2, ItemFacts, StockIs, StockedKind
<1>6. d.items[i].at = k /\ d.items[i].tracks = c.items[i].tracks
  BY <1>2, <1>4, <1>5
<1>7. \A j \in 1..i : d.items[j].at <= Len(d.items[j].tracks)
  <2> TAKE j \in 1..i
  <2>1. CASE j = i
    BY <2>1, <1>1, <1>5, <1>6
  <2>2. CASE j # i
    <3>1. j \in 1..c.current /\ j \in DOMAIN c.items
      BY <2>2, <1>1
    <3>2. d.items[j] = c.items[j]
      BY <3>1, <2>2, <1>4
    <3>3. QED
      BY <3>1, <3>2 DEF InPlace
  <2>3. QED
    BY <2>1, <2>2
<1>8. QED
  BY <1>3, <1>4, <1>7 DEF InPlace

LEMMA MovedAt ==
  ASSUME NEW c, WellFormed(c), NEW i \in DOMAIN c.items, NEW k
  PROVE  CursorAt(c, i, k, i).items[i].at = k
<1>1. c = Made(c.items, c.current, c.selected)
  BY WellFormedFits
<1>2. c.items[i] = [tracks |-> c.items[i].tracks, at |-> c.items[i].at]
  BY ItemFacts, StockIs, StockedKind
<1>3. CursorAt(c, i, k, i).items = [c.items EXCEPT ![i] = [c.items[i] EXCEPT !.at = k]]
  BY <1>1 DEF CursorAt, Made
<1>4. QED
  BY <1>2, <1>3

LEMMA StepIsMoved ==
  ASSUME NEW c, InPlace(c), NEW k
  PROVE  [c EXCEPT !.items[c.current].at = k] = CursorAt(c, c.current, k, c.current)
<1>1. c = Made(c.items, c.current, c.selected)
  BY WellFormedFits DEF InPlace
<1>2. QED
  BY <1>1 DEF CursorAt, Made

LEMMA StartInPlace ==
  ASSUME NEW c, InPlace(c), c.items # <<>>
  PROVE  InPlace(JumpTo(c, 1)) /\ Lists(JumpTo(c, 1)) = Lists(c) /\ JumpTo(c, 1).current = 1
<1>1. c.items \in Seq(Stocked) /\ Len(c.items) \in Nat /\ c.current \in Nat /\ DOMAIN c.items = 1..Len(c.items)
  BY Facts DEF InPlace
<1>2. Len(c.items) >= 1
  BY <1>1, c.items # <<>>, EmptySeq
<1>3. 1 \in 1..Len(c.items) /\ 1 \in DOMAIN c.items
  BY <1>1, <1>2
<1>4. Len(c.items[1].tracks) >= 1 /\ Len(c.items[1].tracks) \in Nat
  BY <1>3, ItemFacts DEF InPlace
<1>5. 1 \in 1..Len(c.items[1].tracks)
  BY <1>4
<1>6. JumpTo(c, 1) = CursorAt(c, 1, 1, 1)
  BY DEF JumpTo, CursorAt
<1>7. InPlace(CursorAt(c, 1, 1, 1)) /\ Lists(CursorAt(c, 1, 1, 1)) = Lists(c) /\ CursorAt(c, 1, 1, 1).current = 1
  <2>1. 1 <= c.current + 1
    BY <1>1
  <2>2. QED
    BY <1>3, <1>5, <2>1, MovedInPlace
<1>8. QED
  BY <1>6, <1>7

LEMMA NextInPlace ==
  ASSUME NEW c, InPlace(c)
  PROVE  /\ InPlace(NextTrack(c)) /\ Lists(NextTrack(c)) = Lists(c)
         /\ AtEnd(c) => NextTrack(c) = c
         /\ ~AtEnd(c) => /\ c.current # 0 /\ NextTrack(c).current # 0
                         /\ \/ NextTrack(c).current # c.current
                            \/ NextTrack(c).items[c.current].at # c.items[c.current].at
<1>0. WellFormed(c)
  BY DEF InPlace
<1>1. Len(c.items) \in Nat /\ DOMAIN c.items = 1..Len(c.items) /\ c.current \in Nat /\ c.current <= Len(c.items)
  BY <1>0, Facts
<1>2. CASE c.current \notin DOMAIN c.items
  BY <1>2 DEF NextTrack, AtEnd
<1>3. CASE c.current \in DOMAIN c.items /\ HasNextInItem(c)
  <2> DEFINE k == c.items[c.current].at + 1
  <2>1. k \in 1..Len(c.items[c.current].tracks)
    BY <1>0, <1>3, ItemFacts DEF HasNextInItem
  <2>2. NextTrack(c) = [c EXCEPT !.items[c.current].at = k]
    BY <1>3 DEF NextTrack
  <2>3. ~AtEnd(c) /\ c.current \in 1..Len(c.items) /\ c.current <= c.current + 1 /\ c.current # 0
    BY <1>1, <1>3 DEF AtEnd
  <2> HIDE DEF k
  <2>4. NextTrack(c) = CursorAt(c, c.current, k, c.current)
    BY <2>2, StepIsMoved
  <2>5. /\ InPlace(CursorAt(c, c.current, k, c.current)) /\ Lists(CursorAt(c, c.current, k, c.current)) = Lists(c)
        /\ CursorAt(c, c.current, k, c.current).current = c.current
    BY <2>1, <2>3, MovedInPlace
  <2>6. CursorAt(c, c.current, k, c.current).items[c.current].at = k
    BY <1>0, <1>3, MovedAt
  <2>7. k # c.items[c.current].at
    BY <1>0, <1>3, ItemFacts DEF k
  <2>8. QED
    BY <2>3, <2>4, <2>5, <2>6, <2>7
<1>4. CASE c.current \in DOMAIN c.items /\ ~HasNextInItem(c)
  <2>1. CASE c.current < Len(c.items)
    <3> DEFINE i == c.current + 1
    <3>1. /\ i \in 1..Len(c.items) /\ i \in DOMAIN c.items /\ i # 0 /\ i <= c.current + 1 /\ c.current # 0
          /\ i # c.current
      BY <1>1, <1>4, <2>1
    <3>2. NextTrack(c) = CursorAt(c, i, 1, i) /\ ~AtEnd(c)
      BY <1>1, <1>4, <2>1 DEF NextTrack, JumpTo, CursorAt, AtEnd
    <3> HIDE DEF i
    <3>3. Len(c.items[i].tracks) >= 1 /\ Len(c.items[i].tracks) \in Nat
      BY <1>0, <3>1, ItemFacts
    <3>4. 1 \in 1..Len(c.items[i].tracks)
      BY <3>3
    <3>5. /\ InPlace(CursorAt(c, i, 1, i)) /\ Lists(CursorAt(c, i, 1, i)) = Lists(c)
          /\ CursorAt(c, i, 1, i).current = i
      BY <3>1, <3>4, MovedInPlace
    <3>6. QED
      BY <3>1, <3>2, <3>5
  <2>2. CASE ~(c.current < Len(c.items))
    BY <1>1, <1>4, <2>2 DEF NextTrack, AtEnd
  <2>3. QED
    BY <2>1, <2>2
<1>5. QED
  BY <1>2, <1>3, <1>4

LEMMA PreviousInPlace ==
  ASSUME NEW c, InPlace(c)
  PROVE  /\ InPlace(PreviousTrack(c)) /\ Lists(PreviousTrack(c)) = Lists(c)
         /\ AtStart(c) => PreviousTrack(c) = c
         /\ ~AtStart(c) => PreviousTrack(c).current # 0
         /\ c.current = 0 => AtStart(c)
<1>0. WellFormed(c)
  BY DEF InPlace
<1>1. Len(c.items) \in Nat /\ DOMAIN c.items = 1..Len(c.items) /\ c.current \in Nat /\ c.current <= Len(c.items)
  BY <1>0, Facts
<1>2. CASE c.current \notin DOMAIN c.items
  BY <1>2 DEF PreviousTrack, AtStart
<1>3. CASE c.current \in DOMAIN c.items
  <2>0. c.current \in 1..Len(c.items) /\ c.current # 0 /\ c.current \in 1..c.current /\ c.current <= c.current + 1
    BY <1>1, <1>3
  <2>1. /\ c.items[c.current].at \in Nat /\ c.items[c.current].at >= 1
        /\ Len(c.items[c.current].tracks) \in Nat
        /\ c.items[c.current].at <= Len(c.items[c.current].tracks)
    BY <1>0, <1>3, <2>0, ItemFacts DEF InPlace
  <2> DEFINE at == c.items[c.current].at
             back == IF at > 1 THEN at - 1 ELSE 1
             p == c.current - 1
             k == Max({1, Len(c.items[p].tracks)})
  <2>6. Stocked \in Kinds /\ Formed(Stocked, c)
    BY <1>0, WellFormedIs, StockedKind
  <2>7. /\ StepBack(c) = Placed(c, c.current, back) /\ (at = 1 => StepBack(c) = c)
        /\ HasPreviousInItem(c) <=> at > 1 /\ at - 1 <= Len(c.items[c.current].tracks)
    BY <1>3, <2>6, StepBackIs
  <2>8. /\ HasPreviousInItem(c) \/ c.current = 1 => PreviousTrack(c) = StepBack(c)
        /\ ~HasPreviousInItem(c) /\ c.current # 1 =>
             /\ PreviousTrack(c) = CursorAt(StepBack(c), p, k, p)
             /\ p \in DOMAIN c.items /\ p \in 0..Len(c.items) /\ p # c.current
             /\ Len(c.items[p].tracks) >= 1 => k = Len(c.items[p].tracks)
    BY <1>3, <2>6, PreviousTrackIs
  <2>9. HasPreviousInItem(c) <=> at > 1
    BY <2>1, <2>7
  <2>10. AtStart(c) <=> ~(at > 1) /\ c.current = 1
    BY <1>3, <2>9 DEF AtStart
  <2> HIDE DEF k
  <2>2. CASE at > 1
    <3>1. back \in 1..Len(c.items[c.current].tracks)
      BY <2>1, <2>2
    <3> HIDE DEF back, p
    <3>2. PreviousTrack(c) = Placed(c, c.current, back)
      BY <2>2, <2>7, <2>8, <2>9
    <3>3. PreviousTrack(c) = [c EXCEPT !.items[c.current].at = back]
      BY <3>2 DEF Placed
    <3>4. PreviousTrack(c) = CursorAt(c, c.current, back, c.current)
      BY <3>3, StepIsMoved
    <3>5. /\ InPlace(CursorAt(c, c.current, back, c.current)) /\ Lists(CursorAt(c, c.current, back, c.current)) = Lists(c)
          /\ CursorAt(c, c.current, back, c.current).current = c.current
      BY <2>0, <3>1, MovedInPlace
    <3>6. QED
      BY <2>0, <2>2, <2>10, <3>4, <3>5
  <2>3. CASE ~(at > 1) /\ c.current # 1
    <3>1. p \in 1..Len(c.items) /\ p \in DOMAIN c.items /\ p <= c.current + 1 /\ p # 0
      BY <1>1, <2>0, <2>3
    <3>2. Len(c.items[p].tracks) >= 1 /\ Len(c.items[p].tracks) \in Nat
      BY <1>0, <3>1, ItemFacts
    <3>3. at = 1
      BY <2>1, <2>3
    <3>4. PreviousTrack(c) = CursorAt(c, p, k, p) /\ k = Len(c.items[p].tracks)
      BY <2>3, <2>7, <2>8, <2>9, <3>2, <3>3
    <3>5. k \in 1..Len(c.items[p].tracks)
      BY <3>2, <3>4
    <3> HIDE DEF p
    <3>6. /\ InPlace(CursorAt(c, p, k, p)) /\ Lists(CursorAt(c, p, k, p)) = Lists(c)
          /\ CursorAt(c, p, k, p).current = p
      BY <3>1, <3>5, MovedInPlace
    <3>7. QED
      BY <2>0, <2>3, <2>10, <3>1, <3>4, <3>6
  <2>4. CASE ~(at > 1) /\ c.current = 1
    <3>1. at = 1
      BY <2>1, <2>4
    <3>2. PreviousTrack(c) = c
      BY <2>4, <2>7, <2>8, <3>1
    <3>3. QED
      BY <2>0, <2>4, <2>10, <3>2
  <2>5. QED
    BY <2>2, <2>3, <2>4
<1>4. QED
  BY <1>1, <1>2, <1>3

(* What is peeked is what NextTrack goes to. *)
LEMMA PeekIs ==
  ASSUME NEW c, InPlace(c)
  PROVE  /\ AtEnd(c) => PeekNext(c) = NoTrack
         /\ ~AtEnd(c) => PeekNext(c) = CurrentTrack(NextTrack(c)) /\ PeekNext(c) \in Tracks
         /\ CurrentTrack(NextTrack(c)) = IF AtEnd(c) THEN CurrentTrack(c) ELSE PeekNext(c)
<1>1. WellFormed(c)
  BY DEF InPlace
<1>2. Len(c.items) \in Nat /\ DOMAIN c.items = 1..Len(c.items) /\ c.current \in Nat /\ c.current <= Len(c.items)
  BY <1>1, Facts
<1>3. ASSUME AtEnd(c) PROVE PeekNext(c) = NoTrack
  BY <1>2, <1>3 DEF AtEnd, PeekNext
<1>4. ASSUME ~AtEnd(c) PROVE PeekNext(c) = CurrentTrack(NextTrack(c))
  <2>1. c.current \in DOMAIN c.items
    BY <1>4 DEF AtEnd
  <2>2. CASE HasNextInItem(c)
    <3> DEFINE k == c.items[c.current].at + 1
    <3>1. k \in DOMAIN c.items[c.current].tracks
      BY <2>2 DEF HasNextInItem
    <3>2. NextTrack(c) = Placed(c, c.current, k) /\ PeekNext(c) = c.items[c.current].tracks[k]
      BY <2>1, <2>2 DEF NextTrack, Placed, PeekNext
    <3> HIDE DEF k
    <3>3. QED
      BY <1>1, <2>1, <3>1, <3>2, PlacedTrack
  <2>3. CASE ~HasNextInItem(c)
    <3> DEFINE i == c.current + 1
    <3>1. c.current < Len(c.items) /\ i \in DOMAIN c.items
      BY <1>2, <1>4, <2>1, <2>3 DEF AtEnd
    <3>2. NextTrack(c) = CursorAt(c, i, 1, i) /\ PeekNext(c) = c.items[i].tracks[1]
      BY <2>1, <2>3, <3>1 DEF NextTrack, JumpTo, CursorAt, PeekNext
    <3> HIDE DEF i
    <3>3. 1 \in DOMAIN c.items[i].tracks
      BY <1>1, <3>1, ItemFacts
    <3>4. QED
      BY <1>1, <3>1, <3>2, <3>3, PlacedTrack
  <2>4. QED
    BY <2>2, <2>3
<1>5. QED
  BY <1>3, <1>4, NextInPlace, InPlacePlays, NoTrackAssumption

(* The place the cursor names, in the lists of tracks. *)
LEMMA PlaceOfCurrent ==
  ASSUME NEW c, InPlace(c), c.current # 0
  PROVE  /\ c.current \in DOMAIN Lists(c)
         /\ c.items[c.current].at \in DOMAIN Lists(c)[c.current]
         /\ CurrentTrack(c) = Lists(c)[c.current][c.items[c.current].at]
<1>0. WellFormed(c)
  BY DEF InPlace
<1>1. c.current \in DOMAIN c.items /\ c.current \in 1..c.current /\ DOMAIN Lists(c) = DOMAIN c.items
  BY <1>0, Facts DEF Lists
<1>2. /\ c.items[c.current].at \in Nat /\ c.items[c.current].at >= 1
      /\ DOMAIN c.items[c.current].tracks = 1..Len(c.items[c.current].tracks)
      /\ Len(c.items[c.current].tracks) \in Nat
  BY <1>0, <1>1, ItemFacts
<1>3. c.items[c.current].at <= Len(c.items[c.current].tracks)
  BY <1>1 DEF InPlace
<1>4. Lists(c)[c.current] = c.items[c.current].tracks
  BY <1>0, <1>1, ListsFacts
<1>5. c.items[c.current].at \in DOMAIN c.items[c.current].tracks
  BY <1>2, <1>3
<1>6. CurrentTrack(c) = c.items[c.current].tracks[c.items[c.current].at]
  BY <1>1, <1>5 DEF CurrentTrack
<1>7. QED
  BY <1>1, <1>4, <1>5, <1>6

(* Where no track is twice in the queue, none is followed by itself. *)
LEMMA PeekDiffers ==
  ASSUME NEW c, InPlace(c), NoRepeats(Lists(c)), PeekNext(c) # NoTrack
  PROVE  PeekNext(c) # CurrentTrack(c)
<1> DEFINE d == NextTrack(c)
<1>1. ~AtEnd(c) /\ PeekNext(c) = CurrentTrack(d)
  BY PeekIs
<1>2. /\ InPlace(d) /\ Lists(d) = Lists(c) /\ c.current # 0 /\ d.current # 0
      /\ d.current # c.current \/ d.items[c.current].at # c.items[c.current].at
  BY <1>1, NextInPlace
<1> HIDE DEF d
<1>3. /\ d.current \in DOMAIN Lists(c) /\ d.items[d.current].at \in DOMAIN Lists(c)[d.current]
      /\ CurrentTrack(d) = Lists(c)[d.current][d.items[d.current].at]
  BY <1>2, PlaceOfCurrent
<1>4. /\ c.current \in DOMAIN Lists(c) /\ c.items[c.current].at \in DOMAIN Lists(c)[c.current]
      /\ CurrentTrack(c) = Lists(c)[c.current][c.items[c.current].at]
  BY <1>2, PlaceOfCurrent
<1>5. CurrentTrack(d) = CurrentTrack(c) => d.current = c.current /\ d.items[d.current].at = c.items[c.current].at
  <2> DEFINE i == d.current
             k == d.items[d.current].at
             j == c.current
             l == c.items[c.current].at
  <2> HIDE DEF i, k, j, l
  <2>1. ASSUME CurrentTrack(d) = CurrentTrack(c) PROVE Lists(c)[i][k] = Lists(c)[j][l]
    BY <1>3, <1>4, <2>1 DEF i, j, k, l
  <2>2. i \in DOMAIN Lists(c) /\ j \in DOMAIN Lists(c) /\ k \in DOMAIN Lists(c)[i] /\ l \in DOMAIN Lists(c)[j]
    BY <1>3, <1>4 DEF i, j, k, l
  <2>3. Lists(c)[i][k] = Lists(c)[j][l] => i = j /\ k = l
    BY <2>2 DEF NoRepeats
  <2>4. QED
    BY <2>1, <2>3 DEF i, j, k, l
<1>6. QED
  BY <1>1, <1>2, <1>5

(* Taking out a track or an album repeats nothing. *)
LEMMA TakenPlace ==
  ASSUME NEW S, NEW s \in Seq(S), NEW n \in 1..Len(s)
  PROVE  \A j \in DOMAIN RemoveAt(s, n) :
           /\ IF j < n THEN j \in DOMAIN s /\ RemoveAt(s, n)[j] = s[j]
              ELSE j + 1 \in DOMAIN s /\ RemoveAt(s, n)[j] = s[j + 1]
           /\ j \in Nat
<1> DEFINE d == RemoveAt(s, n)
<1>1. Len(s) \in Nat /\ DOMAIN s = 1..Len(s) /\ n \in Nat /\ n >= 1 /\ n <= Len(s)
  BY LenProperties
<1>2. d \in Seq(S) /\ Len(d) = Len(s) - 1
  BY Removed
<1>3. \A j \in 1..(n - 1) : d[j] = s[j]
  BY Removed
<1>4. \A j \in n..(Len(s) - 1) : d[j] = s[j + 1]
  BY Removed
<1> HIDE DEF d
<1>5. DOMAIN d = 1..(Len(s) - 1)
  BY <1>2, LenProperties
<1>6. ASSUME NEW j \in 1..(Len(s) - 1)
      PROVE  /\ IF j < n THEN j \in DOMAIN s /\ d[j] = s[j] ELSE j + 1 \in DOMAIN s /\ d[j] = s[j + 1]
             /\ j \in Nat
  <2>1. CASE j < n
    <3>1. j \in 1..(n - 1) /\ j \in DOMAIN s
      BY <1>1, <2>1
    <3>2. QED
      BY <1>3, <2>1, <3>1
  <2>2. CASE ~(j < n)
    <3>1. j \in n..(Len(s) - 1) /\ j + 1 \in DOMAIN s
      BY <1>1, <2>2
    <3>2. QED
      BY <1>4, <2>2, <3>1
  <2>3. QED
    BY <2>1, <2>2
<1>7. QED
  BY <1>5, <1>6 DEF d

LEMMA AlbumTaken ==
  ASSUME NEW albums \in Seq(Seq(Tracks)), NEW n \in 1..Len(albums), NoRepeats(albums)
  PROVE  NoRepeats(RemoveAt(albums, n))
<1> DEFINE d == RemoveAt(albums, n)
           old(j) == IF j < n THEN j ELSE j + 1
<1>1. \A j \in DOMAIN d : old(j) \in DOMAIN albums /\ d[j] = albums[old(j)] /\ j \in Nat
  BY TakenPlace
<1>2. n \in Nat
  OBVIOUS
<1> HIDE DEF d
<1>3. ASSUME NEW i \in DOMAIN d, NEW j \in DOMAIN d, NEW k \in DOMAIN d[i], NEW l \in DOMAIN d[j], d[i][k] = d[j][l]
      PROVE  i = j /\ k = l
  <2>1. old(i) = old(j) /\ k = l
    <3> HIDE DEF old
    <3>1. /\ old(i) \in DOMAIN albums /\ old(j) \in DOMAIN albums
          /\ k \in DOMAIN albums[old(i)] /\ l \in DOMAIN albums[old(j)]
          /\ albums[old(i)][k] = albums[old(j)][l]
      BY <1>1, <1>3
    <3>2. QED
      BY <3>1 DEF NoRepeats
  <2>2. QED
    BY <1>1, <1>2, <2>1
<1>4. QED
  BY <1>3 DEF NoRepeats, d

LEMMA TrackTaken ==
  ASSUME NEW albums \in Seq(Seq(Tracks)), NEW m \in 1..Len(albums), NEW n \in 1..Len(albums[m]), NoRepeats(albums)
  PROVE  NoRepeats(WithPart(albums, m, RemoveAt(albums[m], n)))
<1> DEFINE d == WithPart(albums, m, RemoveAt(albums[m], n))
           old(j, k) == IF j = m /\ ~(k < n) THEN k + 1 ELSE k
<1>1. DOMAIN albums = 1..Len(albums) /\ albums[m] \in Seq(Tracks) /\ n \in Nat
  BY LenProperties, ElementOfSeq
<1>2. DOMAIN d = DOMAIN albums /\ d[m] = RemoveAt(albums[m], n) /\ \A j \in DOMAIN albums : j # m => d[j] = albums[j]
  BY <1>1 DEF WithPart
<1>3. \A k \in DOMAIN RemoveAt(albums[m], n) :
        /\ IF k < n THEN k \in DOMAIN albums[m] /\ RemoveAt(albums[m], n)[k] = albums[m][k]
           ELSE k + 1 \in DOMAIN albums[m] /\ RemoveAt(albums[m], n)[k] = albums[m][k + 1]
        /\ k \in Nat
  BY <1>1, TakenPlace
<1>4. ASSUME NEW j \in DOMAIN d, NEW k \in DOMAIN d[j]
      PROVE  old(j, k) \in DOMAIN albums[j] /\ d[j][k] = albums[j][old(j, k)] /\ (j = m => k \in Nat)
  <2> HIDE DEF d
  <2>1. CASE j = m
    BY <1>2, <1>3, <1>4, <2>1
  <2>2. CASE j # m
    BY <1>2, <1>4, <2>2
  <2>3. QED
    BY <2>1, <2>2
<1> HIDE DEF d
<1>5. ASSUME NEW i \in DOMAIN d, NEW j \in DOMAIN d, NEW k \in DOMAIN d[i], NEW l \in DOMAIN d[j], d[i][k] = d[j][l]
      PROVE  i = j /\ k = l
  <2>1. i = j /\ old(i, k) = old(j, l)
    <3> HIDE DEF old
    <3>1. /\ i \in DOMAIN albums /\ j \in DOMAIN albums
          /\ old(i, k) \in DOMAIN albums[i] /\ old(j, l) \in DOMAIN albums[j]
          /\ albums[i][old(i, k)] = albums[j][old(j, l)]
      BY <1>2, <1>4, <1>5
    <3>2. QED
      BY <3>1 DEF NoRepeats
  <2>2. CASE j = m
    BY <1>1, <1>4, <1>5, <2>1, <2>2
  <2>3. CASE j # m
    BY <2>1, <2>3
  <2>4. QED
    BY <2>2, <2>3
<1>6. QED
  BY <1>5 DEF NoRepeats, d

LEMMA ClampedIs ==
  ASSUME NEW items, NEW current, NEW selected
  PROVE  /\ ClampSelected(Made(items, current, selected)).items = items
         /\ ClampSelected(Made(items, current, selected)).current = current
BY TracksOfMade, ClampedItems

LEMMA ReplacedIs ==
  ASSUME NEW c, WellFormed(c), NEW items
  PROVE  /\ ClampSelected([c EXCEPT !.items = items]).items = items
         /\ ClampSelected([c EXCEPT !.items = items]).current = c.current
<1>1. [c EXCEPT !.items = items] = Made(items, c.current, c.selected)
  BY Updated
<1>2. QED
  BY <1>1, ClampedIs

(* Removing an album: the cursor stays on its track, or on the one that    *)
(* takes the place of the album that went.                                 *)
LEMMA RemoveInPlace ==
  ASSUME NEW c, InPlace(c), NEW i \in DOMAIN c.items
  PROVE  /\ InPlace(RemoveAlbum(c, i)) /\ Lists(RemoveAlbum(c, i)) = RemoveAt(Lists(c), i)
         /\ c.current # i => CurrentTrack(RemoveAlbum(c, i)) = CurrentTrack(c)
<1> DEFINE d == RemoveAlbum(c, i)
           rest == RemoveAt(c.items, i)
           n == Len(c.items)
           first == [rest EXCEPT ![i].at = 1]
<1>0. WellFormed(c) /\ WellFormed(d)
  BY RemoveAlbumWellFormed DEF InPlace
<1>1. /\ c.items \in Seq(Stocked) /\ n \in Nat /\ i \in 1..n /\ c.current \in Nat /\ c.current <= n
      /\ i \in Nat /\ i >= 1 /\ i <= n /\ DOMAIN c.items = 1..n
  BY <1>0, Facts
<1>2. /\ rest \in Seq(Stocked) /\ Len(rest) = n - 1 /\ DOMAIN rest = 1..(n - 1)
      /\ \A j \in 1..(i - 1) : rest[j] = c.items[j]
      /\ \A j \in i..(n - 1) : rest[j] = c.items[j + 1]
  <2>1. /\ rest \in Seq(Stocked) /\ Len(rest) = n - 1
        /\ \A j \in 1..(i - 1) : rest[j] = c.items[j]
        /\ \A j \in i..(n - 1) : rest[j] = c.items[j + 1]
    BY <1>1, Removed
  <2>2. QED
    BY <2>1, LenProperties
<1>3. \A j \in 1..n : c.items[j].at \in Nat /\ Len(c.items[j].tracks) \in Nat /\ Len(c.items[j].tracks) >= 1
  BY <1>0, <1>1, ItemFacts
<1>4. \A j \in 1..c.current : c.items[j].at <= Len(c.items[j].tracks)
  BY DEF InPlace
<1>5. Lists(d) = RemoveAt(Lists(c), i) /\ (c.current # i => CurrentTrack(d) = CurrentTrack(c))
  BY <1>0, RemoveAlbumIs, RemoveAlbumPlays
<1>6. CASE c.current < i
  <2>1. d = ClampSelected([c EXCEPT !.items = rest])
    BY <1>1, <1>6 DEF RemoveAlbum
  <2>2. d.items = rest /\ d.current = c.current
    <3> HIDE DEF d, rest
    <3>1. QED
      BY <1>0, <2>1, ReplacedIs
  <2>3. \A j \in 1..d.current : d.items[j] = c.items[j]
    BY <1>1, <1>2, <1>6, <2>2
  <2> HIDE DEF d
  <2>4. InPlace(d)
    BY <1>0, <1>4, <2>2, <2>3 DEF InPlace
  <2>5. QED
    BY <1>5, <2>4 DEF d
<1>7. CASE c.current > i
  <2>1. d = ClampSelected([c EXCEPT !.items = rest, !.current = c.current - 1])
    BY <1>1, <1>7 DEF RemoveAlbum
  <2>2. d.items = rest /\ d.current = c.current - 1
    <3> DEFINE k == c.current - 1
    <3>1. d = ClampSelected([c EXCEPT !.items = rest, !.current = k])
      BY <2>1
    <3> HIDE DEF d, rest, k
    <3>2. [c EXCEPT !.items = rest, !.current = k] = Made(rest, k, c.selected)
      BY <1>0, Updated, Zenon
    <3>3. d.items = rest /\ d.current = k
      BY <3>1, <3>2, ClampedIs
    <3>4. QED
      BY <3>3 DEF k
  <2>3. \A j \in 1..d.current : \E k \in 1..c.current : d.items[j] = c.items[k]
    <3> TAKE j \in 1..d.current
    <3>1. CASE j < i
      <4>1. j \in 1..(i - 1) /\ j \in 1..c.current
        BY <1>1, <1>7, <2>2, <3>1
      <4>2. QED
        BY <1>2, <2>2, <4>1
    <3>2. CASE ~(j < i)
      <4>1. j \in i..(n - 1) /\ j + 1 \in 1..c.current
        BY <1>1, <1>7, <2>2, <3>2
      <4>2. QED
        BY <1>2, <2>2, <4>1
    <3>3. QED
      BY <3>1, <3>2
  <2> HIDE DEF d
  <2>4. InPlace(d)
    BY <1>0, <1>4, <2>3 DEF InPlace
  <2>5. QED
    BY <1>5, <2>4 DEF d
<1>8. CASE c.current = i /\ i <= n - 1
  <2>1. d = ClampSelected([c EXCEPT !.items = first])
    BY <1>1, <1>2, <1>8 DEF RemoveAlbum
  <2>2. d.items = first /\ d.current = c.current
    <3> HIDE DEF d, first
    <3>1. QED
      BY <1>0, <2>1, ReplacedIs
  <2>3. \A j \in 1..(i - 1) : d.items[j] = c.items[j] /\ j \in 1..c.current
    <3> TAKE j \in 1..(i - 1)
    <3>1. j # i /\ j \in DOMAIN rest /\ j \in 1..c.current
      BY <1>1, <1>2, <1>8
    <3>2. first[j] = rest[j]
      BY <3>1
    <3>3. QED
      BY <1>2, <2>2, <3>1, <3>2
  <2>4. d.items[i].at = 1 /\ d.items[i].tracks = c.items[i + 1].tracks
    <3>1. i \in DOMAIN rest /\ i \in i..(n - 1) /\ i + 1 \in 1..n
      BY <1>1, <1>2, <1>8
    <3>2. rest[i] = c.items[i + 1]
      BY <1>2, <3>1
    <3>3. rest[i] = [tracks |-> rest[i].tracks, at |-> rest[i].at]
      <4>1. rest[i] \in Stocked
        BY <1>2, <3>1, ElementOfSeq
      <4>2. QED
        BY <4>1, StockIs, StockedKind
    <3>4. first[i] = [rest[i] EXCEPT !.at = 1]
      BY <3>1
    <3>5. QED
      BY <2>2, <3>2, <3>3, <3>4
  <2> HIDE DEF d
  <2>5. i + 1 \in 1..n
    BY <1>1, <1>8
  <2>6. \A j \in 1..d.current : d.items[j].at <= Len(d.items[j].tracks)
    <3> TAKE j \in 1..d.current
    <3>1. CASE j = i
      BY <1>3, <2>4, <2>5, <3>1
    <3>2. CASE j # i
      <4>1. j \in 1..(i - 1)
        BY <1>1, <1>8, <2>2, <3>2
      <4>2. QED
        BY <1>4, <2>3, <4>1
    <3>3. QED
      BY <3>1, <3>2
  <2>7. QED
    BY <1>0, <1>5, <2>6 DEF InPlace, d
<1>9. CASE c.current = i /\ ~(i <= n - 1)
  <2>1. d = ClampSelected([c EXCEPT !.items = rest, !.current = i - 1])
    BY <1>1, <1>2, <1>9 DEF RemoveAlbum
  <2>2. d.items = rest /\ d.current = i - 1
    <3> DEFINE k == i - 1
    <3>1. d = ClampSelected([c EXCEPT !.items = rest, !.current = k])
      BY <2>1
    <3> HIDE DEF d, rest, k
    <3>2. [c EXCEPT !.items = rest, !.current = k] = Made(rest, k, c.selected)
      BY <1>0, Updated, Zenon
    <3>3. d.items = rest /\ d.current = k
      BY <3>1, <3>2, ClampedIs
    <3>4. QED
      BY <3>3 DEF k
  <2>3. \A j \in 1..d.current : d.items[j] = c.items[j] /\ j \in 1..c.current
    BY <1>1, <1>2, <1>9, <2>2
  <2> HIDE DEF d
  <2>4. InPlace(d)
    BY <1>0, <1>4, <2>3 DEF InPlace
  <2>5. QED
    BY <1>5, <2>4 DEF d
<1>10. QED
  BY <1>1, <1>6, <1>7, <1>8, <1>9

(* Taking an upcoming track. *)
LEMMA TakeInPlace ==
  ASSUME NEW c, InPlace(c), NEW r \in DOMAIN Upcoming(c)
  PROVE  /\ InPlace(TakeUpcoming(c, Upcoming(c)[r]))
         /\ CurrentTrack(TakeUpcoming(c, Upcoming(c)[r])) = CurrentTrack(c)
         /\ \E i \in 1..Len(Lists(c)) : \E k \in 1..Len(Lists(c)[i]) :
              Lists(TakeUpcoming(c, Upcoming(c)[r]))
                = IF Len(Lists(c)[i]) = 1 THEN RemoveAt(Lists(c), i)
                  ELSE WithPart(Lists(c), i, RemoveAt(Lists(c)[i], k))
<1> DEFINE pos == Upcoming(c)[r]
           i == pos.item
           k == pos.track
           tracks == c.items[i].tracks
           rest == RemoveAt(tracks, k)
           items == IF rest = <<>> THEN RemoveAt(c.items, i) ELSE Retracked(c, i, rest)
           d == TakeUpcoming(c, pos)
<1>0. WellFormed(c)
  BY DEF InPlace
<1>1. pos \in AllRows(c)
  BY <1>0, UpcomingRow
<1>2. /\ i \in DOMAIN c.items /\ i \in 1..Len(c.items) /\ i >= c.current /\ i \in Nat
      /\ k \in 1..Len(tracks) /\ (i = c.current => k > c.items[i].at)
  <2> HIDE DEF pos
  <2>1. QED
    BY <1>0, <1>1, RowFacts, Facts
<1>3. tracks \in Seq(Tracks) /\ Len(tracks) \in Nat /\ c.items[i].at \in Nat /\ c.items[i].at >= 1
  BY <1>0, <1>2, ItemFacts
<1>4. rest \in Seq(Tracks) /\ Len(rest) = Len(tracks) - 1 /\ (rest = <<>> <=> Len(tracks) = 1)
  <2> HIDE DEF tracks, k
  <2>1. rest \in Seq(Tracks) /\ Len(rest) = Len(tracks) - 1
    BY <1>2, <1>3, Removed
  <2>2. rest = <<>> <=> Len(rest) = 0
    BY <2>1, EmptySeq
  <2>3. QED
    BY <1>3, <2>1, <2>2
<1>5. WellFormed(d)
  BY <1>0, <1>1, TakeUpcomingWellFormed
<1>6. d = ClampSelected(Made(items, c.current, c.selected))
  <2>1. d = ClampSelected([c EXCEPT !.items = items])
    BY DEF TakeUpcoming, Retracked
  <2> HIDE DEF items
  <2>2. QED
    BY <1>0, <2>1, Updated
<1>7. d.items = items /\ d.current = c.current /\ Lists(d) = TracksOf(items)
  <2> HIDE DEF items, d
  <2>1. QED
    BY <1>6, ClampedIs, TracksOfMade
<1>8. Lists(d) = IF Len(tracks) = 1 THEN RemoveAt(Lists(c), i) ELSE WithPart(Lists(c), i, rest)
  <2> HIDE DEF rest, i, d
  <2>1. c.items \in Seq(Stocked) /\ Lists(c) = TracksOf(c.items)
    BY <1>0, Facts DEF Lists, TracksOf
  <2>2. CASE rest = <<>>
    BY <1>2, <1>4, <1>7, <2>1, <2>2, TracksOfRemoved
  <2>3. CASE rest # <<>>
    BY <1>0, <1>2, <1>4, <1>7, <2>3, RetrackedIs
  <2>4. QED
    BY <2>2, <2>3
<1>9. Lists(c)[i] = tracks /\ i \in 1..Len(Lists(c))
  BY <1>0, <1>2, ListsFacts
<1>10. CurrentTrack(d) = CurrentTrack(c)
  <2> HIDE DEF pos
  <2>1. QED
    BY <1>0, TakeUpcomingDoes DEF Does, pos
<1>11. \A j \in 1..d.current : d.items[j].at <= Len(d.items[j].tracks)
  <2> HIDE DEF rest, i, d, k
  <2>0. /\ c.current \in Nat /\ c.items \in Seq(Stocked) /\ c.current <= Len(c.items) /\ Len(c.items) \in Nat
        /\ DOMAIN c.items = 1..Len(c.items)
    BY <1>0, Facts
  <2>1. CASE rest = <<>>
    <3>1. c.current < i
      <4>1. Len(tracks) = 1
        BY <1>4, <2>1
      <4>2. k = 1
        BY <1>2, <4>1
      <4>3. QED
        BY <1>2, <1>3, <2>0, <4>2
    <3>2. \A j \in 1..(i - 1) : RemoveAt(c.items, i)[j] = c.items[j]
      BY <1>2, <2>0, Removed
    <3>3. \A j \in 1..d.current : d.items[j] = c.items[j] /\ j \in 1..c.current
      BY <1>2, <1>7, <2>0, <2>1, <3>1, <3>2
    <3>4. QED
      BY <3>3 DEF InPlace
  <2>2. CASE rest # <<>>
    <3>1. /\ items[i].tracks = rest /\ items[i].at = c.items[i].at
          /\ \A j \in DOMAIN c.items : j # i => items[j] = c.items[j]
      BY <1>0, <1>2, <2>2, RetrackedIs
    <3> HIDE DEF items
    <3>2. ASSUME NEW j \in 1..d.current PROVE items[j].at <= Len(items[j].tracks)
      <4>1. j \in 1..c.current /\ j \in DOMAIN c.items
        BY <1>7, <2>0
      <4>2. CASE j # i
        BY <3>1, <4>1, <4>2 DEF InPlace
      <4>3. CASE j = i
        <5>1. i = c.current
          BY <1>2, <2>0, <4>1, <4>3
        <5>2. c.items[i].at <= Len(tracks) - 1
          BY <1>2, <1>3, <5>1
        <5>3. QED
          BY <1>4, <3>1, <4>3, <5>2
      <4>4. QED
        BY <4>2, <4>3
    <3>3. QED
      BY <1>7, <3>2
  <2>3. QED
    BY <2>1, <2>2
<1>12. InPlace(d)
  BY <1>5, <1>11 DEF InPlace
<1> HIDE DEF d, i, k, pos
<1>13. QED
  BY <1>2, <1>8, <1>9, <1>10, <1>12 DEF d, pos

-----------------------------------------------------------------------------
(* The channel: the last command of some kinds that is on its way, the     *)
(* kinds on their way, and the tracks to prepare behind the last change of *)
(* what plays.                                                             *)

Transports == {"load", "pause", "resume", "stop"}
Moves == {"load", "stop"}
None == [kind |-> "none"]

LastOf(cs, K, n) ==
  n \in DOMAIN cs /\ cs[n].kind \in K /\ \A j \in DOMAIN cs : j > n => cs[j].kind \notin K
Final(cs, K) ==
  IF \E i \in DOMAIN cs : cs[i].kind \in K THEN cs[CHOOSE n \in DOMAIN cs : LastOf(cs, K, n)] ELSE None
Sent(cs) == {cs[i].kind : i \in DOMAIN cs}
PrepareAt(cs, i, x) ==
  /\ i \in DOMAIN cs /\ cs[i].kind = "queue_next" /\ cs[i].track = x
  /\ \A j \in DOMAIN cs : j >= i => cs[j].kind \notin Moves
ToPrepare(cs) == {x \in Tracks : \E i \in DOMAIN cs : PrepareAt(cs, i, x)}

LEMMA CommandIs ==
  ASSUME NEW c \in Command
  PROVE  /\ c.kind \in {"load", "queue_next", "pause", "resume", "stop", "cancel_next", "snapshot"}
         /\ c.kind \in {"load", "queue_next"} => c.track \in Tracks
         /\ IsTransport(c) <=> c.kind \in Transports
BY DEF Command, IsTransport, Transports

LEMMA CommandsAre ==
  /\ \A x \in Tracks : /\ Load(x) \in Command /\ Load(x).kind = "load" /\ Load(x).track = x
                       /\ QueueNext(x) \in Command /\ QueueNext(x).kind = "queue_next" /\ QueueNext(x).track = x
  /\ \A k \in {"pause", "resume", "stop", "cancel_next", "snapshot"} : Plain(k) \in Command /\ Plain(k).kind = k
BY DEF Command, Load, QueueNext, Plain

LEMMA FinalIs ==
  ASSUME NEW cs, DOMAIN cs \subseteq Nat, NEW K, NEW n, LastOf(cs, K, n)
  PROVE  Final(cs, K) = cs[n]
<1> DEFINE m == CHOOSE m \in DOMAIN cs : LastOf(cs, K, m)
<1>1. m \in DOMAIN cs /\ LastOf(cs, K, m)
  BY DEF LastOf
<1>2. n \in DOMAIN cs /\ \E i \in DOMAIN cs : cs[i].kind \in K
  BY DEF LastOf
<1>3. Final(cs, K) = cs[m]
  BY <1>2 DEF Final
<1> HIDE DEF m
<1>4. m \in Nat /\ n \in Nat
  BY <1>1, <1>2
<1>5. ~(m > n) /\ ~(n > m)
  BY <1>1, <1>2 DEF LastOf
<1>6. m = n
  BY <1>4, <1>5
<1>7. QED
  BY <1>3, <1>6

LEMMA NoFinal ==
  ASSUME NEW cs, NEW K, \A i \in DOMAIN cs : cs[i].kind \notin K
  PROVE  Final(cs, K) = None
BY DEF Final

(* A non-empty set of places has a last one. *)
LEMMA Greatest ==
  ASSUME NEW n \in Nat, NEW S, S \subseteq 1..n, S # {}
  PROVE  \E m \in S : \A i \in S : i <= m
<1> DEFINE Bounds == {k \in Nat : \A i \in S : i <= k}
<1>1. n \in Bounds /\ Bounds \subseteq Nat /\ Bounds # {}
  OBVIOUS
<1>2. PICK m \in Bounds : \A k \in Bounds : m <= k
  BY <1>1, Least
<1>3. m \in Nat /\ \A i \in S : i <= m
  BY <1>2
<1>4. m \in S
  <2>1. SUFFICES ASSUME m \notin S PROVE FALSE
    OBVIOUS
  <2>2. PICK j \in S : TRUE
    OBVIOUS
  <2>3. \A i \in S : i \in Nat /\ i <= m - 1
    BY <1>3, <2>1
  <2>4. m - 1 \in Nat
    BY <1>3, <2>2, <2>3
  <2>5. m - 1 \in Bounds
    BY <2>3, <2>4
  <2>6. QED
    BY <1>2, <1>3, <2>5
<1>5. QED
  BY <1>3, <1>4

LEMMA SomeLast ==
  ASSUME NEW cs \in Seq(Command), NEW K, \E i \in DOMAIN cs : cs[i].kind \in K
  PROVE  \E n \in DOMAIN cs : LastOf(cs, K, n)
<1> DEFINE S == {i \in DOMAIN cs : cs[i].kind \in K}
<1>1. Len(cs) \in Nat /\ DOMAIN cs = 1..Len(cs) /\ S \subseteq 1..Len(cs) /\ S # {}
  BY LenProperties
<1>2. PICK m \in S : \A i \in S : i <= m
  BY <1>1, Greatest
<1>3. \A j \in DOMAIN cs : j > m => j \notin S
  BY <1>1, <1>2
<1>4. QED
  BY <1>2, <1>3 DEF LastOf

LEMMA FinalKinds ==
  ASSUME NEW cs \in Seq(Command), NEW K
  PROVE  /\ Final(cs, K) = None <=> \A i \in DOMAIN cs : cs[i].kind \notin K
         /\ Final(cs, K).kind = "none" <=> Final(cs, K) = None
         /\ Final(cs, K) # None => Final(cs, K) \in Command /\ Final(cs, K).kind \in K
<1>1. DOMAIN cs \subseteq Nat /\ None.kind = "none" /\ \A i \in DOMAIN cs : cs[i] \in Command /\ cs[i].kind # "none"
  BY LenProperties, ElementOfSeq, CommandIs DEF None
<1>2. CASE \E i \in DOMAIN cs : cs[i].kind \in K
  <2>1. PICK n \in DOMAIN cs : LastOf(cs, K, n)
    BY <1>2, SomeLast
  <2>2. Final(cs, K) = cs[n] /\ cs[n].kind \in K
    BY <1>1, <2>1, FinalIs DEF LastOf
  <2>3. QED
    BY <1>1, <1>2, <2>2
<1>3. CASE \A i \in DOMAIN cs : cs[i].kind \notin K
  BY <1>1, <1>3, NoFinal
<1>4. QED
  BY <1>2, <1>3

LEMMA HoldsIs ==
  ASSUME NEW cs \in Seq(Command)
  PROVE  /\ HoldsTransport(cs) <=> Final(cs, Transports) # None
         /\ Final(cs, Transports) = None => Final(cs, Moves) = None
         /\ Final(cs, Moves) = None /\ Sent(cs) \cap {"pause", "resume"} = {} => Final(cs, Transports) = None
<1>1. \A i \in DOMAIN cs : cs[i] \in Command
  BY ElementOfSeq, LenProperties
<1>2. HoldsTransport(cs) <=> Final(cs, Transports) # None
  BY <1>1, CommandIs, FinalKinds DEF HoldsTransport
<1>3. Final(cs, Transports) = None => Final(cs, Moves) = None
  BY FinalKinds DEF Transports, Moves
<1>4. ASSUME Final(cs, Moves) = None, Sent(cs) \cap {"pause", "resume"} = {}
      PROVE  Final(cs, Transports) = None
  <2>1. \A i \in DOMAIN cs : cs[i].kind \notin Moves
    BY <1>4, FinalKinds
  <2>2. \A i \in DOMAIN cs : cs[i].kind \notin {"pause", "resume"}
    BY <1>4 DEF Sent
  <2>3. \A i \in DOMAIN cs : cs[i].kind \notin Transports
    BY <2>1, <2>2 DEF Transports, Moves
  <2>4. QED
    BY <2>3, NoFinal
<1>5. QED
  BY <1>2, <1>3, <1>4

(* One more command. *)
LEMMA Appended ==
  ASSUME NEW cs \in Seq(Command), NEW c \in Command
  PROVE  /\ Append(cs, c) \in Seq(Command)
         /\ \A K : Final(Append(cs, c), K) = IF c.kind \in K THEN c ELSE Final(cs, K)
         /\ Sent(Append(cs, c)) = Sent(cs) \cup {c.kind}
         /\ ToPrepare(Append(cs, c)) =
              IF c.kind \in Moves THEN {}
              ELSE IF c.kind = "queue_next" THEN ToPrepare(cs) \cup {c.track} ELSE ToPrepare(cs)
<1> DEFINE d == Append(cs, c)
           n == Len(cs) + 1
<1>1. /\ d \in Seq(Command) /\ Len(cs) \in Nat /\ DOMAIN cs = 1..Len(cs) /\ DOMAIN d = 1..n
      /\ d[n] = c /\ \A i \in 1..Len(cs) : d[i] = cs[i]
  BY AppendProperties, LenProperties
<1> HIDE DEF d
<1>2. n \in Nat /\ n \in DOMAIN d /\ \A i \in DOMAIN cs : i \in DOMAIN d /\ i < n /\ d[i] = cs[i]
  BY <1>1
<1>3. \A i \in DOMAIN d : i = n \/ i \in DOMAIN cs
  BY <1>1
<1>4. ASSUME NEW K PROVE Final(d, K) = IF c.kind \in K THEN c ELSE Final(cs, K)
  <2>1. CASE c.kind \in K
    <3>1. LastOf(d, K, n)
      BY <1>1, <1>2, <2>1 DEF LastOf
    <3>2. QED
      BY <1>1, <2>1, <3>1, FinalIs
  <2>2. CASE c.kind \notin K /\ \E i \in DOMAIN cs : cs[i].kind \in K
    <3>1. PICK m \in DOMAIN cs : LastOf(cs, K, m)
      BY <2>2, SomeLast
    <3>2. LastOf(d, K, m)
      <4> HIDE DEF n
      <4>1. QED
        BY <1>1, <1>2, <1>3, <2>2, <3>1 DEF LastOf
    <3>3. Final(d, K) = d[m] /\ Final(cs, K) = cs[m]
      BY <1>1, <3>1, <3>2, FinalIs
    <3>4. QED
      BY <1>2, <2>2, <3>1, <3>3
  <2>3. CASE c.kind \notin K /\ \A i \in DOMAIN cs : cs[i].kind \notin K
    <3>1. \A i \in DOMAIN d : d[i].kind \notin K
      BY <1>1, <1>2, <1>3, <2>3
    <3>2. QED
      BY <2>3, <3>1, NoFinal
  <2>4. QED
    BY <2>1, <2>2, <2>3
<1>5. Sent(d) = Sent(cs) \cup {c.kind}
  <2> HIDE DEF n
  <2>1. QED
    BY <1>1, <1>2, <1>3 DEF Sent
<1>6. ToPrepare(d) = IF c.kind \in Moves THEN {}
                  ELSE IF c.kind = "queue_next" THEN ToPrepare(cs) \cup {c.track} ELSE ToPrepare(cs)
  <2>1. CASE c.kind \in Moves
    <3>1. \A i \in DOMAIN d : n >= i
      BY <1>1
    <3>2. \A x : \A i \in DOMAIN d : ~PrepareAt(d, i, x)
      BY <1>1, <1>2, <2>1, <3>1 DEF PrepareAt
    <3>3. QED
      BY <2>1, <3>2 DEF ToPrepare
  <2>2. CASE c.kind \notin Moves
    <3>1. ASSUME NEW i \in DOMAIN cs, NEW x PROVE PrepareAt(d, i, x) <=> PrepareAt(cs, i, x)
      <4> HIDE DEF n
      <4>1. QED
        BY <1>1, <1>2, <1>3, <2>2 DEF PrepareAt
    <3>2. ASSUME NEW x PROVE PrepareAt(d, n, x) <=> c.kind = "queue_next" /\ c.track = x
      BY <1>1, <1>2, <2>2 DEF PrepareAt
    <3>3. c.kind = "queue_next" => c.track \in Tracks
      BY CommandIs
    <3> HIDE DEF n
    <3>4. QED
      BY <1>2, <1>3, <2>2, <3>1, <3>2, <3>3 DEF ToPrepare
  <2>3. QED
    BY <2>1, <2>2
<1>7. QED
  BY <1>1, <1>4, <1>5, <1>6 DEF d

(* The first command taken out. *)
LEMMA Taken ==
  ASSUME NEW cs \in Seq(Command), cs # <<>>
  PROVE  /\ Tail(cs) \in Seq(Command) /\ Head(cs) \in Command
         /\ \A K : Final(cs, K) = IF Final(Tail(cs), K) # None THEN Final(Tail(cs), K)
                                  ELSE IF Head(cs).kind \in K THEN Head(cs) ELSE None
         /\ Sent(Tail(cs)) \subseteq Sent(cs) /\ Head(cs).kind \in Sent(cs)
         /\ ToPrepare(Tail(cs)) \subseteq ToPrepare(cs)
         /\ Final(cs, Moves) = None /\ Head(cs).kind = "queue_next" => Head(cs).track \in ToPrepare(cs)
<1> DEFINE d == Tail(cs)
<1>1. /\ d \in Seq(Command) /\ Head(cs) = cs[1] /\ Len(cs) \in Nat /\ Len(cs) >= 1
      /\ DOMAIN cs = 1..Len(cs) /\ DOMAIN d = 1..(Len(cs) - 1)
      /\ \A i \in 1..(Len(cs) - 1) : d[i] = cs[i + 1]
  BY HeadTailProperties, LenProperties, EmptySeq
<1> HIDE DEF d
<1>2. 1 \in DOMAIN cs /\ Head(cs) \in Command
  BY <1>1, ElementOfSeq
<1>3. \A i \in DOMAIN d : i + 1 \in DOMAIN cs /\ d[i] = cs[i + 1] /\ i \in Nat /\ i >= 1
  BY <1>1
<1>4. \A i \in DOMAIN cs : i = 1 \/ (i - 1 \in DOMAIN d /\ d[i - 1] = cs[i])
  <2> TAKE i \in DOMAIN cs
  <2>1. i = 1 \/ i - 1 \in 1..(Len(cs) - 1)
    BY <1>1
  <2>2. QED
    BY <1>1, <2>1
<1>5. ASSUME NEW K
      PROVE  Final(cs, K) = IF Final(d, K) # None THEN Final(d, K)
                            ELSE IF Head(cs).kind \in K THEN Head(cs) ELSE None
  <2>1. CASE \E i \in DOMAIN d : d[i].kind \in K
    <3>1. PICK m \in DOMAIN d : LastOf(d, K, m)
      BY <1>1, <2>1, SomeLast
    <3>2. LastOf(cs, K, m + 1)
      <4>1. m + 1 \in DOMAIN cs /\ cs[m + 1].kind \in K
        BY <1>3, <3>1 DEF LastOf
      <4>2. ASSUME NEW j \in DOMAIN cs, j > m + 1 PROVE cs[j].kind \notin K
        <5>1. j - 1 \in DOMAIN d /\ d[j - 1] = cs[j] /\ j - 1 > m
          BY <1>1, <1>3, <1>4, <3>1, <4>2
        <5>2. QED
          BY <3>1, <5>1 DEF LastOf
      <4>3. QED
        BY <4>1, <4>2 DEF LastOf
    <3>3. Final(d, K) = d[m] /\ Final(cs, K) = cs[m + 1]
      BY <1>1, <3>1, <3>2, FinalIs
    <3>4. Final(d, K) # None
      BY <1>1, <2>1, FinalKinds
    <3>5. QED
      BY <1>3, <3>1, <3>3, <3>4
  <2>2. CASE \A i \in DOMAIN d : d[i].kind \notin K
    <3>1. Final(d, K) = None
      BY <2>2, NoFinal
    <3>2. CASE Head(cs).kind \in K
      <4>1. LastOf(cs, K, 1)
        BY <1>1, <1>2, <1>4, <2>2, <3>2 DEF LastOf
      <4>2. QED
        BY <1>1, <3>1, <3>2, <4>1, FinalIs
    <3>3. CASE Head(cs).kind \notin K
      <4>1. \A i \in DOMAIN cs : cs[i].kind \notin K
        BY <1>1, <1>4, <2>2, <3>3
      <4>2. QED
        BY <3>1, <3>3, <4>1, NoFinal
    <3>4. QED
      BY <3>2, <3>3
  <2>3. QED
    BY <2>1, <2>2
<1>6. Sent(d) \subseteq Sent(cs) /\ Head(cs).kind \in Sent(cs)
  BY <1>1, <1>2, <1>3 DEF Sent
<1>7. ToPrepare(d) \subseteq ToPrepare(cs)
  <2>1. ASSUME NEW i \in DOMAIN d, NEW x, PrepareAt(d, i, x) PROVE i + 1 \in DOMAIN cs /\ PrepareAt(cs, i + 1, x)
    <3>1. i + 1 \in DOMAIN cs /\ cs[i + 1] = d[i]
      BY <1>3
    <3>2. ASSUME NEW j \in DOMAIN cs, j >= i + 1 PROVE cs[j].kind \notin Moves
      <4>1. j - 1 \in DOMAIN d /\ d[j - 1] = cs[j] /\ j - 1 >= i
        BY <1>1, <1>3, <1>4, <3>2
      <4>2. QED
        BY <2>1, <4>1 DEF PrepareAt
    <3>3. QED
      BY <2>1, <3>1, <3>2 DEF PrepareAt
  <2>2. QED
    BY <2>1 DEF ToPrepare
<1>8. ASSUME Final(cs, Moves) = None, Head(cs).kind = "queue_next" PROVE Head(cs).track \in ToPrepare(cs)
  <2>1. \A i \in DOMAIN cs : cs[i].kind \notin Moves
    BY <1>8, FinalKinds
  <2>2. PrepareAt(cs, 1, Head(cs).track)
    BY <1>1, <1>2, <1>8, <2>1 DEF PrepareAt
  <2>3. Head(cs).track \in Tracks
    BY <1>2, <1>8, CommandIs
  <2>4. QED
    BY <1>2, <2>2, <2>3 DEF ToPrepare
<1>9. QED
  BY <1>1, <1>2, <1>5, <1>6, <1>7, <1>8 DEF d

LEMMA EmptyChannel ==
  /\ <<>> \in Seq(Command) /\ \A K : Final(<<>>, K) = None
  /\ Sent(<<>>) = {} /\ ToPrepare(<<>>) = {} /\ ~HoldsTransport(<<>>)
<1>1. DOMAIN <<>> = {}
  OBVIOUS
<1>2. QED
  BY <1>1 DEF Final, Sent, ToPrepare, HoldsTransport

-----------------------------------------------------------------------------
(* What a submission does to the channel and to what is published. *)

LinkKept ==
  /\ channel' \in Seq(Command) /\ shown' = shown /\ pending' = pending
  /\ Final(channel', Transports) = Final(channel, Transports)
  /\ Final(channel', Moves) = Final(channel, Moves)
  /\ Sent(channel') \subseteq Sent(channel) \cup {"cancel_next", "snapshot"}
  /\ ToPrepare(channel') = ToPrepare(channel)
Prepares(x) ==
  /\ channel' \in Seq(Command) /\ shown' = shown /\ pending' = pending
  /\ Final(channel', Transports) = Final(channel, Transports)
  /\ Final(channel', Moves) = Final(channel, Moves)
  /\ Sent(channel') = Sent(channel) \cup {"queue_next"}
  /\ ToPrepare(channel') = ToPrepare(channel) \cup {x}
Asks(c) ==
  /\ channel' \in Seq(Command) /\ shown' = NoSnapshot /\ pending' = {}
  /\ Final(channel', Transports) = c /\ Final(channel', Moves) = c
  /\ Sent(channel') \subseteq Sent(channel) \cup {"cancel_next", c.kind}
  /\ ToPrepare(channel') = {}
Switches(c) ==
  /\ channel' \in Seq(Command) /\ shown' = NoSnapshot /\ pending' = {}
  /\ Final(channel', Transports) = c /\ Final(channel', Moves) = Final(channel, Moves)
  /\ Sent(channel') = Sent(channel) \cup {c.kind}
  /\ ToPrepare(channel') = ToPrepare(channel)

LEMMA OneHolds ==
  ASSUME NEW c \in Command
  PROVE  HoldsTransport(<<c>>) <=> c.kind \in Transports
<1>1. DOMAIN <<c>> = {1} /\ <<c>>[1] = c
  OBVIOUS
<1>2. HoldsTransport(<<c>>) <=> IsTransport(c)
  BY <1>1 DEF HoldsTransport
<1>3. QED
  BY <1>2, CommandIs

LEMMA TwoHold ==
  ASSUME NEW a, NEW c \in Command, c.kind \in Transports
  PROVE  HoldsTransport(<<a, c>>)
<1>1. 2 \in DOMAIN <<a, c>> /\ <<a, c>>[2] = c
  OBVIOUS
<1>2. IsTransport(c)
  BY CommandIs
<1> DEFINE t == <<a, c>>
<1> HIDE DEF t
<1>3. 2 \in DOMAIN t /\ t[2] = c
  BY <1>1 DEF t
<1>4. HoldsTransport(t)
  BY <1>2, <1>3 DEF HoldsTransport
<1>5. QED
  BY <1>4 DEF t

LEMMA SubmittedOne ==
  ASSUME channel \in Seq(Command), NEW c \in Command, Submit(<<c>>)
  PROVE  /\ c.kind \in {"cancel_next", "snapshot"} => LinkKept
         /\ c.kind = "queue_next" => Prepares(c.track)
         /\ c.kind \in {"load", "stop"} => Asks(c)
         /\ c.kind \in {"pause", "resume"} => Switches(c)
<1>1. channel' = Append(channel, c)
  BY AppendIsConcat DEF Submit
<1>2. IF c.kind \in Transports THEN shown' = NoSnapshot /\ pending' = {} ELSE shown' = shown /\ pending' = pending
  BY OneHolds DEF Submit
<1>3. /\ channel' \in Seq(Command)
      /\ Final(channel', Transports) = IF c.kind \in Transports THEN c ELSE Final(channel, Transports)
      /\ Final(channel', Moves) = IF c.kind \in Moves THEN c ELSE Final(channel, Moves)
      /\ Sent(channel') = Sent(channel) \cup {c.kind}
      /\ ToPrepare(channel') =
           IF c.kind \in Moves THEN {}
           ELSE IF c.kind = "queue_next" THEN ToPrepare(channel) \cup {c.track} ELSE ToPrepare(channel)
  BY <1>1, Appended
<1>4. CASE c.kind \in {"cancel_next", "snapshot"}
  <2>1. c.kind \notin Transports /\ c.kind \notin Moves /\ c.kind # "queue_next"
    BY <1>4 DEF Transports, Moves
  <2>2. LinkKept
    BY <1>2, <1>3, <1>4, <2>1 DEF LinkKept
  <2>3. QED
    BY <1>4, <2>2
<1>5. CASE c.kind = "queue_next"
  <2>1. c.kind \notin Transports /\ c.kind \notin Moves
    BY <1>5 DEF Transports, Moves
  <2>2. QED
    BY <1>2, <1>3, <1>5, <2>1 DEF Prepares
<1>6. CASE c.kind \in {"load", "stop"}
  <2>1. c.kind \in Transports /\ c.kind \in Moves
    BY <1>6 DEF Transports, Moves
  <2>2. Asks(c)
    BY <1>2, <1>3, <2>1 DEF Asks
  <2>3. QED
    BY <1>6, <2>2
<1>7. CASE c.kind \in {"pause", "resume"}
  <2>1. c.kind \in Transports /\ c.kind \notin Moves /\ c.kind # "queue_next"
    BY <1>7 DEF Transports, Moves
  <2>2. Switches(c)
    BY <1>2, <1>3, <2>1 DEF Switches
  <2>3. QED
    BY <1>7, <2>2
<1>8. QED
  BY <1>4, <1>5, <1>6, <1>7

LEMMA SubmittedNone ==
  ASSUME channel \in Seq(Command), Submit(<<>>) \/ UNCHANGED link
  PROVE  LinkKept /\ channel' = channel
<1>1. channel' = channel
  BY DEF Submit, link
<1>2. shown' = shown /\ pending' = pending
  BY EmptyChannel DEF Submit, link
<1>3. QED
  BY <1>1, <1>2 DEF LinkKept

LEMMA SubmittedBoth ==
  ASSUME channel \in Seq(Command), NEW c \in Command, c.kind = "load", Submit(<<Plain("cancel_next"), c>>)
  PROVE  Asks(c)
<1> DEFINE a == Plain("cancel_next")
<1>1. a \in Command /\ a.kind = "cancel_next"
  BY CommandsAre
<1>2. c.kind \in Transports /\ c.kind \in Moves
  BY DEF Transports, Moves
<1>3. channel' = Append(Append(channel, a), c)
  <2> HIDE DEF a
  <2>1. channel' = channel \o <<a, c>>
    BY DEF Submit, a
  <2>2. <<a, c>> = <<a>> \o <<c>>
    OBVIOUS
  <2>3. (channel \o <<a>>) \o <<c>> = channel \o (<<a>> \o <<c>>)
    <3>1. <<a>> \in Seq(Command) /\ <<c>> \in Seq(Command)
      BY <1>1
    <3>2. QED
      BY <3>1, ConcatAssociative
  <2>4. Append(channel, a) = channel \o <<a>> /\ Append(channel, a) \in Seq(Command)
    BY <1>1, AppendIsConcat, AppendProperties
  <2>5. Append(Append(channel, a), c) = Append(channel, a) \o <<c>>
    BY <2>4, AppendIsConcat
  <2>6. QED
    BY <2>1, <2>2, <2>3, <2>4, <2>5
<1>4. shown' = NoSnapshot /\ pending' = {}
  BY <1>2, TwoHold DEF Submit
<1> DEFINE d == Append(channel, a)
<1>5. d \in Seq(Command) /\ Sent(d) = Sent(channel) \cup {"cancel_next"}
  <2> HIDE DEF a
  <2>1. QED
    BY <1>1, Appended
<1>6. channel' = Append(d, c)
  BY <1>3
<1> HIDE DEF d, a
<1>7. /\ channel' \in Seq(Command)
      /\ Final(channel', Transports) = c
      /\ Final(channel', Moves) = c
      /\ Sent(channel') = Sent(d) \cup {c.kind}
      /\ ToPrepare(channel') = {}
  BY <1>2, <1>5, <1>6, Appended
<1>8. QED
  BY <1>4, <1>5, <1>7 DEF Asks

-----------------------------------------------------------------------------
(* What the handlers of the user's input come to. *)

Base ==
  /\ TypeOK /\ InPlace(ctrl)
  /\ tick.pc # "handle" => tick.state = "unknown" /\ tick.events = {}

Loads ==
  /\ Asks(Load(CurrentTrack(ctrl'))) /\ ctrl'.current # 0
  /\ uiCurrent' = ctrl'.current /\ isPlaying' = TRUE
Halts ==
  /\ LinkKept /\ ctrl' = ctrl /\ uiCurrent' = ctrl.current
  /\ isPlaying' \in BOOLEAN /\ (isPlaying' => isPlaying)
Stops == Asks(Plain("stop")) /\ uiCurrent' = 0 /\ isPlaying' = FALSE
Toggles ==
  /\ \E kind \in {"pause", "resume"} : Switches(Plain(kind))
  /\ ctrl' = ctrl /\ uiCurrent' = uiCurrent
  /\ isPlaying' \in BOOLEAN /\ (isPlaying' => uiCurrent # 0)
Trims ==
  /\ LinkKept /\ isPlaying' = isPlaying /\ uiCurrent' = ctrl'.current
  /\ CurrentTrack(ctrl') = CurrentTrack(ctrl) /\ (ctrl'.current = 0 <=> ctrl.current = 0)
Drops ==
  /\ LinkKept /\ ~isPlaying /\ isPlaying' = isPlaying /\ uiCurrent' = ctrl'.current /\ ctrl'.current # 0

QueueKept == InPlace(ctrl') /\ (NoRepeats(Lists(ctrl)) => NoRepeats(Lists(ctrl')))

UserDoes ==
  /\ UNCHANGED <<setting, near, player, engine, raised, tick>>
  /\ tick.pc = "idle" \/ "media" \in Surfaces
  /\ QueueKept
  /\ \/ Loads \/ Stops
     \/ Halts /\ Surfaces \cap {"transport", "media"} # {}
     \/ Toggles /\ Surfaces \cap {"pause", "media"} # {}
     \/ Trims /\ Surfaces \cap {"queue", "flat_queue"} # {}
     \/ Drops /\ "queue" \in Surfaces

LEMMA RemoveKeepsApart ==
  ASSUME NEW c, InPlace(c), NEW i \in DOMAIN c.items, NoRepeats(Lists(c))
  PROVE  NoRepeats(Lists(RemoveAlbum(c, i)))
<1>1. Lists(RemoveAlbum(c, i)) = RemoveAt(Lists(c), i)
  BY RemoveInPlace
<1>2. Lists(c) \in Seq(Seq(Tracks)) /\ i \in 1..Len(Lists(c))
  BY ListsFacts, Facts DEF InPlace
<1>3. QED
  BY <1>1, <1>2, AlbumTaken

LEMMA TakeKeepsApart ==
  ASSUME NEW c, InPlace(c), NEW r \in DOMAIN Upcoming(c), NoRepeats(Lists(c))
  PROVE  NoRepeats(Lists(TakeUpcoming(c, Upcoming(c)[r])))
<1> DEFINE d == TakeUpcoming(c, Upcoming(c)[r])
           albums == Lists(c)
<1>1. PICK i \in 1..Len(albums) : \E k \in 1..Len(albums[i]) :
        Lists(d) = IF Len(albums[i]) = 1 THEN RemoveAt(albums, i)
                   ELSE WithPart(albums, i, RemoveAt(albums[i], k))
  BY TakeInPlace
<1>2. PICK k \in 1..Len(albums[i]) :
        Lists(d) = IF Len(albums[i]) = 1 THEN RemoveAt(albums, i)
                   ELSE WithPart(albums, i, RemoveAt(albums[i], k))
  BY <1>1
<1>3. albums \in Seq(Seq(Tracks)) /\ NoRepeats(albums)
  BY ListsFacts DEF InPlace
<1> HIDE DEF d, albums
<1>4. NoRepeats(RemoveAt(albums, i)) /\ NoRepeats(WithPart(albums, i, RemoveAt(albums[i], k)))
  BY <1>3, AlbumTaken, TrackTaken
<1>5. NoRepeats(Lists(d))
  BY <1>2, <1>4
<1>6. QED
  BY <1>5 DEF d

LEMMA PairIs ==
  ASSUME NEW a, NEW b
  PROVE  <<a>> \o <<b>> = <<a, b>>
<1> DEFINE s == <<a, b>>
           t == <<a>> \o <<b>>
<1>1. <<a>> \in Seq({a, b}) /\ <<b>> \in Seq({a, b})
  OBVIOUS
<1>2. t \in Seq({a, b}) /\ Len(t) = 2 /\ t[1] = a /\ t[2] = b
  BY <1>1, ConcatProperties
<1>3. s \in Seq({a, b}) /\ Len(s) = 2 /\ s[1] = a /\ s[2] = b
  OBVIOUS
<1> HIDE DEF s, t
<1>4. \A i \in 1..Len(s) : s[i] = t[i]
  BY <1>2, <1>3
<1>5. s = t
  BY <1>2, <1>3, <1>4, SeqEqual
<1>6. QED
  BY <1>5 DEF s, t

LEMMA GoToDoes ==
  ASSUME channel \in Seq(Command), NEW c, InPlace(c), NEW moved, moved => c.current # 0,
         NEW before, before = <<>> \/ before = <<Plain("cancel_next")>>,
         GoTo(c, moved, before)
  PROVE  /\ ctrl' = c /\ uiCurrent' = c.current
         /\ moved => Loads
         /\ ~moved => LinkKept /\ isPlaying' = FALSE
<1>1. ctrl' = c /\ uiCurrent' = c.current
  BY DEF GoTo, Sync
<1>2. CASE moved
  <2> DEFINE x == CurrentTrack(c)
             command == Load(x)
  <2>1. x # NoTrack /\ x \in Tracks
    BY <1>2, InPlacePlays
  <2>2. Submit(before \o <<command>>) /\ isPlaying' = TRUE
    BY <1>2, <2>1 DEF GoTo
  <2>3. command \in Command /\ command.kind = "load"
    BY <2>1, CommandsAre
  <2> HIDE DEF command
  <2>4. Asks(command)
    <3>1. CASE before = <<>>
      <4>1. <<>> \o <<command>> = <<command>>
        OBVIOUS
      <4>2. Submit(<<command>>)
        BY <2>2, <3>1, <4>1
      <4>3. QED
        BY <2>3, <4>2, SubmittedOne
    <3>2. CASE before = <<Plain("cancel_next")>>
      <4> DEFINE a == Plain("cancel_next")
      <4>0. a \in Command
        BY CommandsAre
      <4> HIDE DEF a
      <4>1. <<a>> \o <<command>> = <<a, command>>
        BY <2>3, <4>0, PairIs
      <4>2. Submit(<<a, command>>)
        BY <2>2, <3>2, <4>1 DEF a
      <4>3. QED
        BY <2>3, <4>2, SubmittedBoth DEF a
    <3>3. QED
      BY <3>1, <3>2
  <2>5. QED
    BY <1>1, <1>2, <2>2, <2>4 DEF Loads, command
<1>3. CASE ~moved
  <2>1. Submit(before) /\ isPlaying' = FALSE
    BY <1>3 DEF GoTo
  <2>2. LinkKept
    <3>1. CASE before = <<>>
      BY <2>1, <3>1, SubmittedNone
    <3>2. CASE before = <<Plain("cancel_next")>>
      <4> DEFINE a == Plain("cancel_next")
      <4>1. a \in Command /\ a.kind = "cancel_next"
        BY CommandsAre
      <4> HIDE DEF a
      <4>2. Submit(<<a>>)
        BY <2>1, <3>2 DEF a
      <4>3. QED
        BY <4>1, <4>2, SubmittedOne
    <3>3. QED
      BY <3>1, <3>2
  <2>3. QED
    BY <1>1, <1>3, <2>1, <2>2
<1>4. QED
  BY <1>2, <1>3

LEMMA BaseFacts ==
  ASSUME Base
  PROVE  /\ channel \in Seq(Command) /\ InPlace(ctrl) /\ isPlaying \in BOOLEAN /\ uiCurrent \in Nat
         /\ WellFormed(ctrl)
BY DEF Base, TypeOK, InPlace

LEMMA LoadedIs ==
  ASSUME channel \in Seq(Command), InPlace(ctrl'), ctrl'.current # 0, uiCurrent' = ctrl'.current,
         isPlaying' = TRUE, Submit(<<Load(CurrentTrack(ctrl'))>>)
  PROVE  Loads
<1>0. \A c : InPlace(c) /\ c.current # 0 => CurrentTrack(c) \in Tracks
  BY InPlacePlays
<1>1. CurrentTrack(ctrl') \in Tracks
  BY <1>0
<1> DEFINE x == CurrentTrack(ctrl')
<1> HIDE DEF x
<1>2. Load(x) \in Command /\ Load(x).kind = "load"
  BY <1>1, CommandsAre DEF x
<1>3. Submit(<<Load(x)>>)
  BY DEF x
<1>4. Asks(Load(x))
  BY <1>2, <1>3, SubmittedOne
<1>5. QED
  BY <1>4 DEF Loads, x

LEMMA StoppedIs ==
  ASSUME channel \in Seq(Command), Submit(<<Plain("stop")>>)
  PROVE  Asks(Plain("stop"))
<1>1. Plain("stop") \in Command /\ Plain("stop").kind = "stop"
  BY CommandsAre
<1>2. QED
  BY <1>1, SubmittedOne

LEMMA NextKeyDoes ==
  ASSUME Base, NextKey PROVE UserDoes
<1> DEFINE d == NextTrack(ctrl)
<1>1. /\ channel \in Seq(Command) /\ InPlace(d) /\ Lists(d) = Lists(ctrl)
      /\ AtEnd(ctrl) => d = ctrl
      /\ ~AtEnd(ctrl) => d.current # 0
  BY BaseFacts, NextInPlace
<1>2. /\ UNCHANGED <<setting, near, player, engine, raised, tick>> /\ tick.pc = "idle"
      /\ "transport" \in Surfaces /\ GoTo(d, ~AtEnd(ctrl), <<Plain("cancel_next")>>)
  BY DEF NextKey, Handler, BetweenTicks
<1> HIDE DEF d
<1>3. /\ ctrl' = d /\ uiCurrent' = d.current /\ (~AtEnd(ctrl) => Loads)
      /\ AtEnd(ctrl) => LinkKept /\ isPlaying' = FALSE
  BY <1>1, <1>2, GoToDoes
<1>4. QueueKept
  BY <1>1, <1>3 DEF QueueKept
<1>5. Loads \/ Halts
  BY <1>1, <1>3 DEF Halts
<1>6. QED
  BY <1>2, <1>4, <1>5 DEF UserDoes

LEMMA PreviousKeyDoes ==
  ASSUME Base, PreviousKey PROVE UserDoes
<1> DEFINE d == PreviousTrack(ctrl)
<1>1. /\ channel \in Seq(Command) /\ InPlace(d) /\ Lists(d) = Lists(ctrl)
      /\ AtStart(ctrl) => d = ctrl
      /\ ~AtStart(ctrl) => d.current # 0
  BY BaseFacts, PreviousInPlace
<1>2. /\ UNCHANGED <<setting, near, player, engine, raised, tick>> /\ tick.pc = "idle"
      /\ "transport" \in Surfaces /\ GoTo(d, ~AtStart(ctrl), <<Plain("cancel_next")>>)
  BY DEF PreviousKey, Handler, BetweenTicks
<1> HIDE DEF d
<1>3. /\ ctrl' = d /\ uiCurrent' = d.current /\ (~AtStart(ctrl) => Loads)
      /\ AtStart(ctrl) => LinkKept /\ isPlaying' = FALSE
  BY <1>1, <1>2, GoToDoes
<1>4. QueueKept
  BY <1>1, <1>3 DEF QueueKept
<1>5. Loads \/ Halts
  BY <1>1, <1>3 DEF Halts
<1>6. QED
  BY <1>2, <1>4, <1>5 DEF UserDoes

LEMMA MediaNextDoes ==
  ASSUME Base, MediaNext PROVE UserDoes
<1> DEFINE d == NextTrack(ctrl)
<1>1. /\ channel \in Seq(Command) /\ InPlace(d) /\ Lists(d) = Lists(ctrl)
      /\ AtEnd(ctrl) => d = ctrl
      /\ ~AtEnd(ctrl) => d.current # 0
  BY BaseFacts, NextInPlace
<1>2. /\ UNCHANGED <<setting, near, player, engine, raised, tick>>
      /\ "media" \in Surfaces /\ GoTo(d, ~AtEnd(ctrl), <<>>)
  BY DEF MediaNext, Handler, InsideTick
<1> HIDE DEF d
<1>3. /\ ctrl' = d /\ uiCurrent' = d.current /\ (~AtEnd(ctrl) => Loads)
      /\ AtEnd(ctrl) => LinkKept /\ isPlaying' = FALSE
  BY <1>1, <1>2, GoToDoes
<1>4. QueueKept
  BY <1>1, <1>3 DEF QueueKept
<1>5. Loads \/ Halts
  BY <1>1, <1>3 DEF Halts
<1>6. QED
  BY <1>2, <1>4, <1>5 DEF UserDoes

LEMMA MediaPreviousDoes ==
  ASSUME Base, MediaPrevious PROVE UserDoes
<1> DEFINE d == PreviousTrack(ctrl)
<1>1. /\ channel \in Seq(Command) /\ InPlace(d) /\ Lists(d) = Lists(ctrl)
      /\ AtStart(ctrl) => d = ctrl
      /\ ~AtStart(ctrl) => d.current # 0
  BY BaseFacts, PreviousInPlace
<1>2. /\ UNCHANGED <<setting, near, player, engine, raised, tick>>
      /\ "media" \in Surfaces /\ ctrl' = d /\ uiCurrent' = d.current
      /\ AtStart(ctrl) => UNCHANGED link /\ isPlaying' = isPlaying
      /\ ~AtStart(ctrl) => Submit(<<Load(CurrentTrack(ctrl'))>>) /\ isPlaying' = TRUE
  BY DEF MediaPrevious, Handler, InsideTick, Sync
<1> HIDE DEF d
<1>3. QueueKept
  BY <1>1, <1>2 DEF QueueKept
<1>4. CASE AtStart(ctrl)
  <2>1. LinkKept
    BY <1>1, <1>2, <1>4, SubmittedNone
  <2>2. isPlaying \in BOOLEAN /\ isPlaying' = isPlaying
    BY <1>2, <1>4, BaseFacts
  <2>3. isPlaying' \in BOOLEAN /\ (isPlaying' => isPlaying)
    BY <2>2, Zenon
  <2>4. Halts
    BY <1>1, <1>2, <1>4, <2>1, <2>3 DEF Halts
  <2>5. QED
    BY <1>2, <1>3, <2>4 DEF UserDoes
<1>5. CASE ~AtStart(ctrl)
  <2>1. Loads
    BY <1>1, <1>2, <1>5, LoadedIs
  <2>2. QED
    BY <1>2, <1>3, <2>1 DEF UserDoes
<1>6. QED
  BY <1>4, <1>5

LEMMA StopAllDoes ==
  ASSUME Base, StopAll PROVE Stops /\ QueueKept
<1>1. Asks(Plain("stop"))
  BY BaseFacts, StoppedIs DEF StopAll
<1>2. ctrl' = ctrl
  BY DEF StopAll
<1>3. QED
  BY <1>1, <1>2, BaseFacts DEF StopAll, Stops, QueueKept

LEMMA StartDoes ==
  ASSUME Base, ctrl.items # <<>>, GoTo(JumpTo(ctrl, 1), TRUE, <<>>) PROVE Loads /\ QueueKept
<1> DEFINE d == JumpTo(ctrl, 1)
<1>1. channel \in Seq(Command) /\ InPlace(d) /\ Lists(d) = Lists(ctrl) /\ d.current = 1
  BY BaseFacts, StartInPlace
<1>2. GoTo(d, TRUE, <<>>)
  OBVIOUS
<1> HIDE DEF d
<1>3. d.current # 0
  BY <1>1
<1>4. ctrl' = d /\ Loads
  BY <1>1, <1>2, <1>3, GoToDoes
<1>5. QED
  BY <1>1, <1>4 DEF QueueKept

LEMMA SwitchDoes ==
  ASSUME Base, NEW kind \in {"pause", "resume"}, Submit(<<Plain(kind)>>), UNCHANGED <<ctrl, uiCurrent>>,
         isPlaying' \in BOOLEAN, isPlaying' => uiCurrent # 0
  PROVE  Toggles /\ QueueKept
<1>1. Plain(kind) \in Command /\ Plain(kind).kind = kind
  BY CommandsAre
<1>2. Switches(Plain(kind))
  BY <1>1, BaseFacts, SubmittedOne
<1>3. QED
  BY <1>2, BaseFacts DEF Toggles, QueueKept

LEMMA PauseOrResumeDoes ==
  ASSUME Base, PauseOrResume PROVE Toggles /\ QueueKept
<1> DEFINE kind == IF isPlaying THEN "pause" ELSE "resume"
<1>1. kind \in {"pause", "resume"} /\ Submit(<<Plain(kind)>>)
  BY DEF PauseOrResume
<1>2. /\ UNCHANGED <<ctrl, uiCurrent>> /\ isPlaying' \in BOOLEAN
      /\ isPlaying' => uiCurrent # 0
  BY BaseFacts DEF PauseOrResume
<1> HIDE DEF kind
<1>3. QED
  BY <1>1, <1>2, SwitchDoes

LEMMA RemoveFromQueueDoes ==
  ASSUME Base, NEW i \in DOMAIN ctrl.items, RemoveFromQueue(i) PROVE UserDoes
<1> DEFINE d == RemoveAlbum(ctrl, i)
<1>1. /\ channel \in Seq(Command) /\ InPlace(ctrl) /\ InPlace(d)
      /\ NoRepeats(Lists(ctrl)) => NoRepeats(Lists(d))
      /\ ctrl.current # i => CurrentTrack(d) = CurrentTrack(ctrl)
  BY BaseFacts, RemoveInPlace, RemoveKeepsApart
<1>2. /\ UNCHANGED <<setting, near, player, engine, raised, tick>> /\ tick.pc = "idle"
      /\ "queue" \in Surfaces /\ ctrl' = d /\ uiCurrent' = ctrl'.current
  BY DEF RemoveFromQueue, Handler, BetweenTicks, Sync
<1> DEFINE t == CurrentTrack(ctrl')
<1>3. \/ ctrl.current = i /\ t = NoTrack /\ Submit(<<Plain("stop")>>) /\ isPlaying' = FALSE
      \/ ctrl.current = i /\ t # NoTrack /\ isPlaying /\ Submit(<<Load(t)>>) /\ isPlaying' = isPlaying
      \/ /\ ~(ctrl.current = i /\ t = NoTrack) /\ ~(ctrl.current = i /\ t # NoTrack /\ isPlaying)
         /\ UNCHANGED link /\ isPlaying' = isPlaying
  BY DEF RemoveFromQueue
<1> HIDE DEF d
<1>4. QueueKept
  BY <1>1, <1>2 DEF QueueKept
<1>5. /\ (d.current = 0 <=> CurrentTrack(d) = NoTrack) /\ (ctrl.current = 0 <=> CurrentTrack(ctrl) = NoTrack)
      /\ d.current \in Nat /\ ctrl.current \in Nat
  BY <1>1, InPlacePlays
<1>6. CASE ctrl.current = i /\ t = NoTrack /\ Submit(<<Plain("stop")>>) /\ isPlaying' = FALSE
  <2>1. uiCurrent' = 0
    BY <1>2, <1>5, <1>6
  <2>2. Asks(Plain("stop"))
    BY <1>1, <1>6, StoppedIs
  <2>3. Stops
    BY <1>6, <2>1, <2>2 DEF Stops
  <2>4. QED
    BY <1>2, <1>4, <2>3 DEF UserDoes
<1>7. CASE ctrl.current = i /\ t # NoTrack /\ isPlaying /\ Submit(<<Load(t)>>) /\ isPlaying' = isPlaying
  <2>1. InPlace(ctrl') /\ ctrl'.current # 0 /\ isPlaying' = TRUE
    BY <1>1, <1>2, <1>5, <1>7, BaseFacts
  <2>2. Loads
    BY <1>1, <1>2, <1>7, <2>1, LoadedIs
  <2>3. QED
    BY <1>2, <1>4, <2>2 DEF UserDoes
<1>8. CASE /\ ~(ctrl.current = i /\ t = NoTrack) /\ ~(ctrl.current = i /\ t # NoTrack /\ isPlaying)
           /\ UNCHANGED link /\ isPlaying' = isPlaying
  <2>1. LinkKept
    BY <1>1, <1>8, SubmittedNone
  <2>2. CASE ctrl.current # i
    <3>1. Trims
      BY <1>1, <1>2, <1>5, <1>8, <2>1, <2>2 DEF Trims
    <3>2. QED
      BY <1>2, <1>4, <3>1 DEF UserDoes
  <2>3. CASE ctrl.current = i
    <3>1. Drops
      BY <1>1, <1>2, <1>5, <1>8, <2>1, <2>3 DEF Drops
    <3>2. QED
      BY <1>2, <1>4, <3>1 DEF UserDoes
  <2>4. QED
    BY <2>2, <2>3
<1>9. QED
  BY <1>3, <1>6, <1>7, <1>8

LEMMA RemoveUpcomingTrackDoes ==
  ASSUME Base, NEW r \in DOMAIN Upcoming(ctrl), RemoveUpcomingTrack(r) PROVE UserDoes
<1> DEFINE d == TakeUpcoming(ctrl, Upcoming(ctrl)[r])
<1>1. /\ channel \in Seq(Command) /\ InPlace(ctrl) /\ InPlace(d)
      /\ NoRepeats(Lists(ctrl)) => NoRepeats(Lists(d))
      /\ CurrentTrack(d) = CurrentTrack(ctrl)
  BY BaseFacts, TakeInPlace, TakeKeepsApart
<1>2. /\ UNCHANGED <<setting, near, player, engine, raised, tick>> /\ tick.pc = "idle"
      /\ "flat_queue" \in Surfaces /\ ctrl' = d /\ uiCurrent' = ctrl'.current
      /\ Submit(<<Plain("cancel_next")>>) /\ isPlaying' = isPlaying
  BY DEF RemoveUpcomingTrack, Handler, BetweenTicks, Sync
<1> HIDE DEF d
<1>3. QueueKept
  BY <1>1, <1>2 DEF QueueKept
<1>4. (d.current = 0 <=> CurrentTrack(d) = NoTrack) /\ (ctrl.current = 0 <=> CurrentTrack(ctrl) = NoTrack)
  BY <1>1, InPlacePlays
<1>5. LinkKept
  <2> DEFINE a == Plain("cancel_next")
  <2>1. a \in Command /\ a.kind = "cancel_next" /\ Submit(<<a>>)
    BY <1>2, CommandsAre
  <2> HIDE DEF a
  <2>2. QED
    BY <1>1, <2>1, SubmittedOne
<1>6. Trims
  BY <1>1, <1>2, <1>4, <1>5 DEF Trims
<1>7. QED
  BY <1>2, <1>3, <1>6 DEF UserDoes

LEMMA UserSteps ==
  ASSUME Base, User PROVE UserDoes
<1>1. CASE NextKey \/ PreviousKey \/ MediaNext \/ MediaPrevious
  BY <1>1, NextKeyDoes, PreviousKeyDoes, MediaNextDoes, MediaPreviousDoes
<1>2. CASE StopPlayback \/ MediaStop
  <2>1. Stops /\ QueueKept
    BY <1>2, StopAllDoes DEF StopPlayback, MediaStop
  <2>2. UNCHANGED <<setting, near, player, engine, raised, tick>> /\ (tick.pc = "idle" \/ "media" \in Surfaces)
    BY <1>2 DEF StopPlayback, MediaStop, Handler, BetweenTicks, InsideTick
  <2>3. QED
    BY <2>1, <2>2 DEF UserDoes
<1>3. CASE StartQueue \/ (MediaPlay /\ uiCurrent = 0)
  <2>1. ctrl.items # <<>> /\ GoTo(JumpTo(ctrl, 1), TRUE, <<>>)
    BY <1>3 DEF StartQueue, StartPlaying, MediaPlay
  <2>2. Loads /\ QueueKept
    BY <2>1, StartDoes
  <2>3. UNCHANGED <<setting, near, player, engine, raised, tick>> /\ (tick.pc = "idle" \/ "media" \in Surfaces)
    BY <1>3 DEF StartQueue, MediaPlay, Handler, BetweenTicks, InsideTick
  <2>4. QED
    BY <2>2, <2>3 DEF UserDoes
<1>4. CASE TogglePlayback \/ MediaPause \/ (MediaPlay /\ uiCurrent # 0)
  <2>1. Toggles /\ QueueKept
    <3>1. CASE TogglePlayback
      BY <3>1, PauseOrResumeDoes DEF TogglePlayback
    <3>2. CASE MediaPause
      <4>1. "pause" \in {"pause", "resume"} /\ Submit(<<Plain("pause")>>)
        BY <3>2 DEF MediaPause
      <4>2. UNCHANGED <<ctrl, uiCurrent>> /\ isPlaying' = FALSE
        BY <3>2 DEF MediaPause
      <4>3. QED
        BY <4>1, <4>2, SwitchDoes
    <3>3. CASE MediaPlay /\ uiCurrent # 0
      <4>1. "resume" \in {"pause", "resume"} /\ Submit(<<Plain("resume")>>)
        BY <3>3 DEF MediaPlay
      <4>2. UNCHANGED <<ctrl, uiCurrent>> /\ isPlaying' = TRUE
        BY <3>3 DEF MediaPlay
      <4>3. QED
        BY <3>3, <4>1, <4>2, SwitchDoes
    <3>4. QED
      BY <1>4, <3>1, <3>2, <3>3
  <2>2. /\ UNCHANGED <<setting, near, player, engine, raised, tick>> /\ (tick.pc = "idle" \/ "media" \in Surfaces)
        /\ Surfaces \cap {"pause", "media"} # {}
    BY <1>4 DEF TogglePlayback, MediaPause, MediaPlay, Handler, BetweenTicks, InsideTick
  <2>3. QED
    BY <2>1, <2>2 DEF UserDoes
<1>5. CASE \E i \in DOMAIN ctrl.items : RemoveFromQueue(i)
  BY <1>5, RemoveFromQueueDoes
<1>6. CASE \E r \in DOMAIN Upcoming(ctrl) : RemoveUpcomingTrack(r)
  BY <1>6, RemoveUpcomingTrackDoes
<1>7. QED
  BY <1>1, <1>2, <1>3, <1>4, <1>5, <1>6 DEF User

-----------------------------------------------------------------------------
(* What a timer tick comes to. *)

Wanted(c, u) ==
  /\ tick.state = "playing" /\ near /\ u # 0
  /\ PeekNext(c) # NoTrack /\ Layout[PeekNext(c)] = Layout[CurrentTrack(c)]
Readies(c, u) ==
  \/ LinkKept /\ ~Wanted(c, u)
  \/ Prepares(PeekNext(c)) /\ Wanted(c, u)

Rests ==
  /\ ctrl' = ctrl /\ uiCurrent' = uiCurrent /\ Readies(ctrl, uiCurrent)
  /\ isPlaying' \in BOOLEAN /\ (isPlaying' => isPlaying)
  /\ isPlaying => isPlaying' \/ "error" \in tick.events \/ EngineStopped
  /\ "moved" \in tick.events => tick.events \cap {"error", "restarted"} # {}
Advances ==
  /\ ctrl' = NextTrack(ctrl) /\ uiCurrent' = ctrl'.current /\ Readies(ctrl', uiCurrent')
  /\ isPlaying' = isPlaying /\ "moved" \in tick.events
GoesOn ==
  /\ OverByItself /\ tick.events \subseteq {"ended"}
  /\ Loads \/ (Halts /\ isPlaying' = FALSE)
HandleDoes ==
  /\ tick.pc = "handle" /\ tick' = Idle
  /\ UNCHANGED <<setting, near, player, raised>>
  /\ engine' = [engine EXCEPT !.ready = engine.ready \/ (engine.near /\ near /\ "queue_next" \notin Sent(channel'))]
  /\ QueueKept
  /\ Rests \/ Advances \/ GoesOn

LEMMA PrequeueDoes ==
  ASSUME channel \in Seq(Command), NEW c, InPlace(c), NEW u, Submit(Prequeue(c, u))
  PROVE  Readies(c, u)
<1>1. CASE Wanted(c, u)
  <2> DEFINE x == PeekNext(c)
  <2>1. Submit(<<QueueNext(x)>>)
    BY <1>1 DEF Wanted, Prequeue
  <2>2. x \in Tracks
    BY <1>1, PeekIs DEF Wanted
  <2> HIDE DEF x
  <2>3. QueueNext(x) \in Command /\ QueueNext(x).kind = "queue_next" /\ QueueNext(x).track = x
    BY <2>2, CommandsAre
  <2> DEFINE command == QueueNext(x)
  <2> HIDE DEF command
  <2>4. Prepares(command.track)
    BY <2>1, <2>3, SubmittedOne DEF command
  <2>5. command.track = x
    BY <2>3 DEF command
  <2>6. Prepares(x)
    BY <2>4, <2>5
  <2>7. QED
    BY <1>1, <2>6 DEF Readies, x
<1>2. CASE ~Wanted(c, u)
  <2>1. Submit(<<>>)
    BY <1>2 DEF Wanted, Prequeue
  <2>2. LinkKept
    BY <2>1, SubmittedNone
  <2>3. QED
    BY <1>2, <2>2 DEF Readies
<1>3. QED
  BY <1>1, <1>2

LEMMA TickHandleDoes ==
  ASSUME Base, TickHandle PROVE HandleDoes
<1> DEFINE d == NextTrack(ctrl)
<1>1. /\ channel \in Seq(Command) /\ InPlace(ctrl) /\ isPlaying \in BOOLEAN /\ InPlace(d)
      /\ Lists(d) = Lists(ctrl) /\ (AtEnd(ctrl) => d = ctrl) /\ (~AtEnd(ctrl) => d.current # 0)
  BY BaseFacts, NextInPlace
<1>2. /\ tick.pc = "handle" /\ tick' = Idle /\ HandleEngineState
      /\ UNCHANGED <<setting, near, player, raised>>
      /\ engine' = [engine EXCEPT !.ready = engine.ready \/ (engine.near /\ near /\ "queue_next" \notin Sent(channel'))]
  BY DEF TickHandle, Sent
<1>3. tick.events \subseteq Reported
  BY DEF Base, TypeOK
<1> HIDE DEF d
<1>4. CASE "error" \in tick.events
  <2>1. isPlaying' = FALSE /\ ctrl' = ctrl /\ uiCurrent' = uiCurrent /\ Submit(Prequeue(ctrl, uiCurrent))
    BY <1>2, <1>4 DEF HandleEngineState
  <2>2. Readies(ctrl, uiCurrent)
    BY <1>1, <2>1, PrequeueDoes
  <2>3. Rests /\ QueueKept
    BY <1>1, <1>4, <2>1, <2>2 DEF Rests, QueueKept
  <2>4. QED
    BY <1>2, <2>3 DEF HandleDoes
<1>5. CASE "error" \notin tick.events /\ "restarted" \in tick.events
  <2>1. isPlaying' = isPlaying /\ ctrl' = ctrl /\ uiCurrent' = uiCurrent /\ Submit(Prequeue(ctrl, uiCurrent))
    BY <1>2, <1>5 DEF HandleEngineState
  <2>2. Readies(ctrl, uiCurrent)
    BY <1>1, <2>1, PrequeueDoes
  <2>3. Rests /\ QueueKept
    BY <1>1, <1>5, <2>1, <2>2 DEF Rests, QueueKept
  <2>4. QED
    BY <1>2, <2>3 DEF HandleDoes
<1>6. CASE tick.events \cap {"error", "restarted"} = {} /\ "moved" \in tick.events
  <2>1. /\ ctrl' = d /\ uiCurrent' = ctrl'.current /\ isPlaying' = isPlaying
        /\ Submit(Prequeue(ctrl', uiCurrent'))
    BY <1>2, <1>6 DEF HandleEngineState, Sync, d
  <2>2. InPlace(ctrl')
    BY <1>1, <2>1
  <2>3. Readies(ctrl', uiCurrent')
    BY <1>1, <2>1, <2>2, PrequeueDoes
  <2>4. Advances /\ QueueKept
    BY <1>1, <1>6, <2>1, <2>2, <2>3 DEF Advances, QueueKept, d
  <2>5. QED
    BY <1>2, <2>4 DEF HandleDoes
<1>7. CASE tick.events \subseteq {"ended"} /\ OverByItself
  <2>1. GoTo(d, ~AtEnd(ctrl), <<>>)
    BY <1>2, <1>7 DEF HandleEngineState, d
  <2>2. /\ ctrl' = d /\ uiCurrent' = d.current /\ (~AtEnd(ctrl) => Loads)
        /\ AtEnd(ctrl) => LinkKept /\ isPlaying' = FALSE
    BY <1>1, <2>1, GoToDoes
  <2>3. QueueKept
    BY <1>1, <2>2 DEF QueueKept
  <2>4. Loads \/ (Halts /\ isPlaying' = FALSE)
    BY <1>1, <2>2 DEF Halts
  <2>5. GoesOn
    BY <1>7, <2>4 DEF GoesOn
  <2>6. QED
    BY <1>2, <2>3, <2>5 DEF HandleDoes
<1>8. CASE tick.events \subseteq {"ended"} /\ ~OverByItself
  <2>1. /\ isPlaying' = (isPlaying /\ ~StoppedOutsideQueue) /\ ctrl' = ctrl /\ uiCurrent' = uiCurrent
        /\ Submit(Prequeue(ctrl, uiCurrent))
    BY <1>2, <1>8 DEF HandleEngineState
  <2>2. Readies(ctrl, uiCurrent)
    BY <1>1, <2>1, PrequeueDoes
  <2>3. isPlaying' \in BOOLEAN /\ (isPlaying' => isPlaying) /\ (isPlaying => isPlaying' \/ EngineStopped)
    BY <2>1 DEF StoppedOutsideQueue
  <2>4. Rests /\ QueueKept
    BY <1>1, <1>8, <2>1, <2>2, <2>3 DEF Rests, QueueKept
  <2>5. QED
    BY <1>2, <2>4 DEF HandleDoes
<1>9. \/ "error" \in tick.events
      \/ "error" \notin tick.events /\ "restarted" \in tick.events
      \/ tick.events \cap {"error", "restarted"} = {} /\ "moved" \in tick.events
      \/ tick.events \subseteq {"ended"}
  BY <1>3 DEF Reported
<1>10. QED
  BY <1>4, <1>5, <1>6, <1>7, <1>8, <1>9

LEMMA TickRequestDoes ==
  ASSUME Base, TickRequest
  PROVE  /\ LinkKept /\ tick.pc = "idle" /\ tick' = [Idle EXCEPT !.pc = "read"]
         /\ UNCHANGED <<setting, ctrl, uiCurrent, isPlaying, near, player, engine, raised>>
<1>1. /\ tick.pc = "idle" /\ tick' = [Idle EXCEPT !.pc = "read"]
      /\ UNCHANGED <<setting, ctrl, uiCurrent, isPlaying, near, player, engine, raised, shown, pending>>
      /\ channel' = channel \/ channel' = Append(channel, Plain("snapshot"))
  BY DEF TickRequest, ui
<1>2. channel \in Seq(Command)
  BY BaseFacts
<1>3. CASE channel' = channel
  BY <1>1, <1>2, <1>3 DEF LinkKept
<1>4. CASE channel' = Append(channel, Plain("snapshot"))
  <2> DEFINE a == Plain("snapshot")
  <2>1. a \in Command /\ a.kind = "snapshot" /\ a.kind \notin Transports /\ a.kind \notin Moves
    BY CommandsAre DEF Transports, Moves
  <2> HIDE DEF a
  <2>2. channel' = Append(channel, a)
    BY <1>4 DEF a
  <2>3. /\ channel' \in Seq(Command)
        /\ Final(channel', Transports) = Final(channel, Transports)
        /\ Final(channel', Moves) = Final(channel, Moves)
        /\ Sent(channel') = Sent(channel) \cup {"snapshot"}
        /\ ToPrepare(channel') = ToPrepare(channel)
    BY <1>2, <2>1, <2>2, Appended
  <2>4. LinkKept
    BY <1>1, <2>3 DEF LinkKept
  <2>5. QED
    BY <1>1, <2>4
<1>5. QED
  BY <1>1, <1>3, <1>4

-----------------------------------------------------------------------------
(* Type correctness, and a cursor in place. *)

LEMMA LinkTyped ==
  ASSUME TypeOK, NEW c, NEW x,
         LinkKept \/ Prepares(x) \/ Asks(c) \/ Switches(c)
  PROVE  channel' \in Seq(Command) /\ shown' \in Snapshot /\ pending' \subseteq Reported
BY DEF TypeOK, LinkKept, Prepares, Asks, Switches, Snapshot

LEMMA CursorTyped ==
  ASSUME InPlace(ctrl') PROVE ctrl' \in Controller /\ ctrl'.current \in Nat
<1>1. \A c : InPlace(c) => c \in Controller /\ c.current \in Nat
  BY InPlacePlays
<1>2. QED
  BY <1>1

LEMMA IdleTyped ==
  /\ Idle.pc = "idle" /\ Idle.state = "unknown" /\ Idle.events = {} /\ Idle.was = FALSE
  /\ Idle = [pc |-> "idle", state |-> "unknown", events |-> {}, was |-> FALSE]
BY DEF Idle

LEMMA UserTyped ==
  ASSUME Base, UserDoes PROVE Base'
<1>1. ctrl' \in Controller /\ ctrl'.current \in Nat /\ ctrl \in Controller /\ ctrl.current \in Nat
  BY CursorTyped, InPlacePlays DEF UserDoes, QueueKept, Base
<1>2. channel' \in Seq(Command) /\ shown' \in Snapshot /\ pending' \subseteq Reported
  <2>1. LinkKept \/ \E c : Asks(c) \/ Switches(c)
    BY DEF UserDoes, Loads, Halts, Stops, Toggles, Trims, Drops
  <2>2. QED
    BY <2>1, LinkTyped DEF Base
<1>3. uiCurrent' \in Nat /\ isPlaying' \in BOOLEAN
  <2>1. uiCurrent \in Nat /\ isPlaying \in BOOLEAN
    BY DEF Base, TypeOK
  <2>2. uiCurrent' \in {ctrl'.current, ctrl.current, uiCurrent, 0}
    BY DEF UserDoes, Loads, Halts, Stops, Toggles, Trims, Drops
  <2>3. isPlaying' \in BOOLEAN
    BY <2>1, Zenon DEF UserDoes, Loads, Halts, Stops, Toggles, Trims, Drops
  <2>4. QED
    BY <1>1, <2>1, <2>2, <2>3
<1>4. QED
  BY <1>1, <1>2, <1>3 DEF Base, TypeOK, UserDoes, QueueKept

LEMMA TickTyped ==
  ASSUME Base, Tick PROVE Base'
<1>1. CASE TickRequest
  <2>1. /\ LinkKept /\ tick' = [Idle EXCEPT !.pc = "read"]
        /\ UNCHANGED <<setting, ctrl, uiCurrent, isPlaying, near, player, engine, raised>>
    BY <1>1, TickRequestDoes
  <2>2. channel' \in Seq(Command) /\ shown' \in Snapshot /\ pending' \subseteq Reported
    BY <2>1, LinkTyped DEF Base
  <2>3. tick' = [pc |-> "read", state |-> "unknown", events |-> {}, was |-> FALSE]
    BY <2>1 DEF Idle
  <2>4. /\ tick' \in [pc : {"idle", "read", "handle"}, state : EngineState \cup {"unknown"},
                    events : SUBSET Reported, was : BOOLEAN]
        /\ tick'.state = "unknown" /\ tick'.events = {}
    BY <2>3
  <2>5. TypeOK'
    BY <2>1, <2>2, <2>4 DEF Base, TypeOK
  <2>6. QED
    BY <2>1, <2>4, <2>5 DEF Base
<1>2. CASE TickRead
  <2>1. /\ UNCHANGED <<setting, ctrl, uiCurrent, channel, shown, player, engine, raised>> /\ pending' = {}
        /\ \/ /\ shown = NoSnapshot /\ isPlaying' = isPlaying /\ near' = near
              /\ tick' = [pc |-> "handle", state |-> IF isPlaying THEN "playing" ELSE "paused",
                          events |-> {}, was |-> isPlaying]
           \/ /\ shown # NoSnapshot /\ isPlaying' = (shown.state = "playing") /\ near' = shown.near
              /\ tick' = [pc |-> "handle", state |-> shown.state, events |-> pending, was |-> isPlaying]
    BY <1>2 DEF TickRead, Idle
  <2>2. shown # NoSnapshot => shown.state \in EngineState /\ shown.near \in BOOLEAN
    BY DEF Base, TypeOK, Snapshot
  <2>3. {"playing", "paused"} \subseteq EngineState
    BY DEF EngineState
  <2>4. pending \subseteq Reported /\ isPlaying \in BOOLEAN /\ near \in BOOLEAN
    BY DEF Base, TypeOK
  <2>5. /\ tick' \in [pc : {"idle", "read", "handle"}, state : EngineState \cup {"unknown"},
                    events : SUBSET Reported, was : BOOLEAN]
        /\ tick'.pc = "handle" /\ isPlaying' \in BOOLEAN /\ near' \in BOOLEAN
    <3>1. CASE shown = NoSnapshot
      <4>1. /\ isPlaying' = isPlaying /\ near' = near
            /\ tick' = [pc |-> "handle", state |-> IF isPlaying THEN "playing" ELSE "paused",
                        events |-> {}, was |-> isPlaying]
        BY <2>1, <3>1
      <4>2. (IF isPlaying THEN "playing" ELSE "paused") \in EngineState
        BY <2>3
      <4>3. QED
        BY <2>4, <4>1, <4>2
    <3>2. CASE shown # NoSnapshot
      <4>1. /\ isPlaying' = (shown.state = "playing") /\ near' = shown.near
            /\ tick' = [pc |-> "handle", state |-> shown.state, events |-> pending, was |-> isPlaying]
        BY <2>1, <3>2
      <4>2. shown.state \in EngineState /\ shown.near \in BOOLEAN
        BY <2>2, <3>2
      <4>3. QED
        BY <2>4, <4>1, <4>2
    <3>3. QED
      BY <3>1, <3>2
  <2>6. TypeOK'
    BY <2>1, <2>5 DEF Base, TypeOK
  <2>7. QED
    BY <2>1, <2>5, <2>6 DEF Base
<1>3. CASE TickHandle
  <2>1. HandleDoes
    BY <1>3, TickHandleDoes
  <2>2. ctrl' \in Controller /\ ctrl'.current \in Nat /\ ctrl.current \in Nat
    BY <2>1, CursorTyped, InPlacePlays DEF HandleDoes, QueueKept, Base
  <2>3. channel' \in Seq(Command) /\ shown' \in Snapshot /\ pending' \subseteq Reported
    <3>1. \/ LinkKept \/ Prepares(PeekNext(ctrl)) \/ Prepares(PeekNext(ctrl'))
          \/ Asks(Load(CurrentTrack(ctrl')))
      BY <2>1 DEF HandleDoes, Rests, Advances, GoesOn, Readies, Loads, Halts
    <3>2. QED
      BY <3>1, LinkTyped DEF Base
  <2>4. uiCurrent' \in Nat /\ isPlaying' \in BOOLEAN
    <3>1. uiCurrent \in Nat /\ isPlaying \in BOOLEAN
      BY DEF Base, TypeOK
    <3>2. uiCurrent' \in {uiCurrent, ctrl'.current, ctrl.current}
      BY <2>1 DEF HandleDoes, Rests, Advances, GoesOn, Loads, Halts
    <3>3. isPlaying' = isPlaying \/ isPlaying' \in BOOLEAN
      BY <2>1 DEF HandleDoes, Rests, Advances, GoesOn, Loads, Halts
    <3>4. QED
      BY <2>2, <3>1, <3>2, <3>3
  <2>5. engine' \in [state : EngineState, track : Tracks \cup {NoTrack}, next : Tracks \cup {NoTrack},
                    near : BOOLEAN, ready : BOOLEAN, revived : BOOLEAN]
    BY <2>1 DEF HandleDoes, Base, TypeOK
  <2>6. QED
    BY <2>1, <2>2, <2>3, <2>4, <2>5, IdleTyped DEF HandleDoes, QueueKept, Base, TypeOK
<1>4. QED
  BY <1>1, <1>2, <1>3 DEF Tick

Engines == [state : EngineState, track : Tracks \cup {NoTrack}, next : Tracks \cup {NoTrack},
            near : BOOLEAN, ready : BOOLEAN, revived : BOOLEAN]
Players == [saved : Tracks \cup {NoTrack}, restarts : 0..1]

LEMMA EnginesAre ==
  /\ Off \in Engines /\ Off.state = "stopped" /\ ~Off.revived /\ ~Off.near /\ ~Off.ready /\ Off.next = NoTrack
  /\ \A t \in Tracks \cup {NoTrack} :
       /\ Playing(t) \in Engines /\ [Playing(t) EXCEPT !.revived = TRUE] \in Engines
       /\ Playing(t).state = "playing" /\ Playing(t).track = t /\ Playing(t).next = NoTrack
       /\ ~Playing(t).near /\ ~Playing(t).ready /\ ~Playing(t).revived
       /\ [Playing(t) EXCEPT !.revived = TRUE].state = "playing"
       /\ [Playing(t) EXCEPT !.revived = TRUE].track = t
       /\ [Playing(t) EXCEPT !.revived = TRUE].next = NoTrack
       /\ [Playing(t) EXCEPT !.revived = TRUE].revived
       /\ ~[Playing(t) EXCEPT !.revived = TRUE].near /\ ~[Playing(t) EXCEPT !.revived = TRUE].ready
BY DEF Off, Playing, Engines, EngineState

LEMMA Received ==
  ASSUME Base, Receive
  PROVE  /\ UNCHANGED <<setting, ctrl, uiCurrent, isPlaying, near, tick>>
         /\ channel' = Tail(channel)
         /\ channel' \in Seq(Command) /\ Head(channel) \in Command
         /\ Final(channel, Transports) =
              IF Final(channel', Transports) # None THEN Final(channel', Transports)
              ELSE IF Head(channel).kind \in Transports THEN Head(channel) ELSE None
         /\ Final(channel, Moves) =
              IF Final(channel', Moves) # None THEN Final(channel', Moves)
              ELSE IF Head(channel).kind \in Moves THEN Head(channel) ELSE None
         /\ Sent(channel') \subseteq Sent(channel) /\ Head(channel).kind \in Sent(channel)
         /\ ToPrepare(channel') \subseteq ToPrepare(channel)
         /\ Final(channel, Moves) = None /\ Head(channel).kind = "queue_next"
              => Head(channel).track \in ToPrepare(channel)
<1>1. /\ UNCHANGED <<setting, ctrl, uiCurrent, isPlaying, near, tick>>
      /\ channel' = Tail(channel) /\ channel # <<>>
  BY DEF Receive, ui
<1>2. channel \in Seq(Command)
  BY BaseFacts
<1>3. /\ Tail(channel) \in Seq(Command) /\ Head(channel) \in Command
      /\ \A K : Final(channel, K) = IF Final(Tail(channel), K) # None THEN Final(Tail(channel), K)
                                   ELSE IF Head(channel).kind \in K THEN Head(channel) ELSE None
      /\ Sent(Tail(channel)) \subseteq Sent(channel) /\ Head(channel).kind \in Sent(channel)
      /\ ToPrepare(Tail(channel)) \subseteq ToPrepare(channel)
      /\ Final(channel, Moves) = None /\ Head(channel).kind = "queue_next"
           => Head(channel).track \in ToPrepare(channel)
  BY <1>1, <1>2, Taken
<1>4. QED
  BY <1>1, <1>3

LEMMA NowTyped ==
  ASSUME Base, UNCHANGED <<setting, ctrl, uiCurrent, isPlaying, near, tick>>, channel' \in Seq(Command),
         shown' \in Snapshot, pending' \subseteq Reported, player' \in Players, engine' \in Engines,
         raised' \in Raised
  PROVE  Base'
BY DEF Base, TypeOK, Players, Engines

LEMMA WasTyped ==
  ASSUME Base
  PROVE  /\ shown \in Snapshot /\ pending \subseteq Reported /\ player \in Players /\ engine \in Engines
         /\ raised \in Raised /\ Nothing \in Raised /\ Saved \in Tracks \cup {NoTrack}
         /\ player.saved \in Tracks \cup {NoTrack} /\ player.restarts \in 0..1 /\ raised.crashed \in BOOLEAN
         /\ raised.moved \in Tracks \cup {NoTrack} /\ raised.ended \in BOOLEAN
         /\ engine.state \in EngineState /\ engine.near \in BOOLEAN /\ engine.ready \in BOOLEAN
         /\ engine.revived \in BOOLEAN
         /\ engine.track \in Tracks \cup {NoTrack} /\ engine.next \in Tracks \cup {NoTrack}
<1>1. /\ shown \in Snapshot /\ pending \subseteq Reported /\ player \in Players /\ engine \in Engines
      /\ raised \in Raised
  BY DEF Base, TypeOK, Players, Engines
<1>2. Nothing \in Raised
  BY DEF Nothing, Raised
<1>3. /\ player.saved \in Tracks \cup {NoTrack} /\ player.restarts \in 0..1
      /\ raised.moved \in Tracks \cup {NoTrack} /\ raised.ended \in BOOLEAN /\ raised.crashed \in BOOLEAN
      /\ engine.state \in EngineState /\ engine.near \in BOOLEAN /\ engine.ready \in BOOLEAN
      /\ engine.revived \in BOOLEAN
      /\ engine.track \in Tracks \cup {NoTrack} /\ engine.next \in Tracks \cup {NoTrack}
  BY <1>1 DEF Players, Engines, Raised
<1>4. QED
  BY <1>1, <1>2, <1>3 DEF Saved

LEMMA PublishTyped ==
  ASSUME Base, NEW state \in EngineState, NEW isNear \in BOOLEAN, NEW events \in SUBSET Reported,
         Publish(state, isNear, events)
  PROVE  shown' \in Snapshot /\ pending' \subseteq Reported
BY WasTyped DEF Publish, Snapshot

(* What a poll does, said by its three outcomes. *)
Seen == {e \in {"moved", "ended"} : IF e = "moved" THEN raised.moved # NoTrack ELSE raised.ended}
Restarted ==
  /\ Restarts /\ player' = [saved |-> Saved, restarts |-> 1]
  /\ engine' = [Playing(Saved) EXCEPT !.revived = TRUE]
  /\ Publish("playing", FALSE, Seen \cup {"restarted"})
FailedToRestart ==
  /\ Restarts /\ "load" \in Faults /\ player' = [saved |-> Saved, restarts |-> 1]
  /\ engine' = Off
  /\ Publish("stopped", FALSE, Seen \cup {"error"})
JustPolled ==
  /\ ~Restarts /\ player' = [player EXCEPT !.saved = Saved] /\ engine' = engine
  /\ Publish(engine.state, engine.near, Seen \cup (IF raised.crashed THEN {"error"} ELSE {}))

LEMMA PollIs ==
  ASSUME RunPoll
  PROVE  /\ Receive /\ Head(channel).kind = "snapshot" /\ raised' = Nothing
         /\ Restarted \/ FailedToRestart \/ JustPolled
BY DEF RunPoll, Seen, Restarted, FailedToRestart, JustPolled

LEMMA WorkerTyped ==
  ASSUME Base, Worker PROVE Base'
<1>0. Receive
  BY DEF Worker, RunLoad, RunStop, RunPause, RunPrepare, RunPoll
<1>1. /\ UNCHANGED <<setting, ctrl, uiCurrent, isPlaying, near, tick>>
      /\ channel' \in Seq(Command) /\ Head(channel) \in Command
  BY <1>0, Received
<1>2. Head(channel).kind \in {"load", "queue_next"} => Head(channel).track \in Tracks
  BY <1>1, CommandIs
<1>3. CASE RunLoad
  <2>1. Head(channel).track \in Tracks /\ shown' = shown /\ pending' = pending
    BY <1>2, <1>3 DEF RunLoad
  <2>2. player' \in Players
    BY <1>3, <2>1 DEF RunLoad, Players
  <2>3. engine' \in Engines
    <3>1. Playing(Head(channel).track) \in Engines /\ Off \in Engines
      BY <2>1, EnginesAre
    <3>2. engine' = Playing(Head(channel).track) \/ engine' = Off \/ engine' = engine
      BY <1>3 DEF RunLoad, Unstoppable
    <3>3. QED
      BY <3>1, <3>2, WasTyped
  <2>4. raised' \in Raised
    BY <1>3, WasTyped DEF RunLoad, LeftOver, Unstoppable
  <2>5. QED
    BY <1>1, <2>1, <2>2, <2>3, <2>4, WasTyped, NowTyped
<1>4. CASE RunStop
  <2>1. player' \in Players /\ shown' = shown /\ pending' = pending
    BY <1>4, WasTyped DEF RunStop, Players
  <2>2. engine' \in Engines
    BY <1>4, EnginesAre, WasTyped DEF RunStop, Unstoppable
  <2>3. raised' \in Raised
    BY <1>4, WasTyped DEF RunStop, LeftOver, Unstoppable
  <2>4. QED
    BY <1>1, <2>1, <2>2, <2>3, WasTyped, NowTyped
<1>5. CASE RunPause
  <2>1. shown' = shown /\ pending' = pending /\ player' = player /\ raised' = raised
    BY <1>5 DEF RunPause
  <2>2. PICK state \in EngineState : engine' = [engine EXCEPT !.state = state]
    <3>1. engine.state \in EngineState /\ "playing" \in EngineState /\ "paused" \in EngineState
      BY WasTyped DEF EngineState
    <3>2. QED
      BY <1>5, <3>1 DEF RunPause
  <2>3. engine' \in Engines
    BY <2>2, WasTyped DEF Engines
  <2>4. QED
    BY <1>1, <2>1, <2>3, WasTyped, NowTyped
<1>6. CASE RunPrepare
  <2>1. shown' = shown /\ pending' = pending /\ player' = player /\ raised' = raised
    BY <1>6 DEF RunPrepare
  <2>2. engine' \in Engines
    BY <1>2, <1>6, WasTyped DEF RunPrepare, Engines
  <2>3. QED
    BY <1>1, <2>1, <2>2, WasTyped, NowTyped
<1>7. CASE RunPoll
  <2>1. raised' = Nothing /\ (Restarted \/ FailedToRestart \/ JustPolled)
    BY <1>7, PollIs
  <2>2. Saved \in Tracks \cup {NoTrack} /\ player \in Players /\ engine \in Engines /\ engine.state \in EngineState /\ engine.near \in BOOLEAN
    BY WasTyped
  <2>3. player' \in Players
    <3>1. player' = [saved |-> Saved, restarts |-> 1] \/ player' = [player EXCEPT !.saved = Saved]
      BY <2>1 DEF Restarted, FailedToRestart, JustPolled
    <3>2. QED
      BY <2>2, <3>1 DEF Players
  <2>4. engine' \in Engines
    <3>1. [Playing(Saved) EXCEPT !.revived = TRUE] \in Engines /\ Off \in Engines
      BY <2>2, EnginesAre
    <3>2. engine' \in {[Playing(Saved) EXCEPT !.revived = TRUE], Off, engine}
      BY <2>1 DEF Restarted, FailedToRestart, JustPolled
    <3>3. QED
      BY <2>2, <3>1, <3>2
  <2>5. shown' \in Snapshot /\ pending' \subseteq Reported
    <3>1. /\ Seen \cup {"restarted"} \in SUBSET Reported /\ Seen \cup {"error"} \in SUBSET Reported
          /\ Seen \cup (IF raised.crashed THEN {"error"} ELSE {}) \in SUBSET Reported
      BY DEF Seen, Reported
    <3>2. "playing" \in EngineState /\ "stopped" \in EngineState /\ FALSE \in BOOLEAN
      BY DEF EngineState
    <3>3. CASE Restarted
      BY <3>1, <3>2, <3>3, PublishTyped DEF Restarted
    <3>4. CASE FailedToRestart
      BY <3>1, <3>2, <3>4, PublishTyped DEF FailedToRestart
    <3>5. CASE JustPolled
      BY <2>2, <3>1, <3>5, PublishTyped DEF JustPolled
    <3>6. QED
      BY <2>1, <3>3, <3>4, <3>5
  <2>6. QED
    BY <1>1, <2>1, <2>3, <2>4, <2>5, WasTyped, NowTyped
<1>8. QED
  BY <1>3, <1>4, <1>5, <1>6, <1>7 DEF Worker

EngineSteps == NearEnd \/ GaplessTransition \/ EndOfStream \/ Crash

LEMMA EngineTyped ==
  ASSUME Base, EngineSteps PROVE Base'
<1>1. UNCHANGED <<setting, ctrl, uiCurrent, isPlaying, near, tick, channel, shown, pending, player>>
  BY DEF EngineSteps, NearEnd, GaplessTransition, EndOfStream, Crash, ui, link
<1>2. channel \in Seq(Command)
  BY BaseFacts
<1>3. engine' \in Engines /\ raised' \in Raised
  <2>1. /\ engine \in Engines /\ raised \in Raised /\ engine.next \in Tracks \cup {NoTrack}
        /\ "error" \in EngineState
    BY WasTyped DEF EngineState
  <2>2. CASE NearEnd
    BY <2>1, <2>2 DEF NearEnd, Engines
  <2>3. CASE GaplessTransition
    BY <2>1, <2>3, EnginesAre DEF GaplessTransition, Raised
  <2>4. CASE EndOfStream
    BY <2>1, <2>4, EnginesAre DEF EndOfStream, Raised
  <2>5. CASE Crash
    BY <2>1, <2>5 DEF Crash, Engines, Raised
  <2>6. QED
    BY <2>2, <2>3, <2>4, <2>5 DEF EngineSteps
<1>4. QED
  BY <1>1, <1>2, <1>3, WasTyped, NowTyped

LEMMA InitBase ==
  ASSUME Init PROVE Base
<1>1. PICK q \in setting.queues : ctrl = [EmptyController EXCEPT !.items = [i \in DOMAIN q |-> NewItem(q[i])]]
  BY DEF Init
<1>2. q \in Seq(Seq(Tracks) \ {<<>>})
  BY PlaybackAssumption DEF Init
<1> DEFINE items == [i \in DOMAIN q |-> NewItem(q[i])]
<1>3. ctrl = Made(items, 0, 1)
  BY <1>1 DEF EmptyController, Made
<1>4. items \in Seq(Stocked) /\ Len(items) \in Nat
  <2>1. Len(q) \in Nat /\ DOMAIN q = 1..Len(q) /\ \A i \in DOMAIN q : q[i] \in Seq(Tracks) \ {<<>>}
    BY <1>2, LenProperties, ElementOfSeq
  <2>2. \A i \in 1..Len(q) : NewItem(q[i]) \in Stocked
    BY <2>1 DEF NewItem, Stocked
  <2>3. items = [i \in 1..Len(q) |-> NewItem(q[i])]
    BY <2>1
  <2> HIDE DEF items
  <2>4. items \in [1..Len(q) -> Stocked]
    BY <2>2, <2>3
  <2>5. items \in Seq(Stocked)
    BY <2>1, <2>4
  <2>6. QED
    BY <2>5, LenProperties
<1> HIDE DEF items
<1>5. WellFormed(ctrl)
  <2>1. FitsIn(Stocked, items, 0, 1)
    BY <1>4 DEF FitsIn
  <2>2. Formed(Stocked, ctrl)
    BY <1>3, <2>1, StockedKind, MadeFormed
  <2>3. QED
    BY <2>2, WellFormedIs
<1>6. InPlace(ctrl)
  <2>1. ctrl.current = 0
    BY <1>3 DEF Made
  <2>2. QED
    BY <1>5, <2>1 DEF InPlace
<1>7. ctrl \in Controller
  BY <1>6, InPlacePlays
<1>8. /\ setting \in Settings /\ uiCurrent = 0 /\ isPlaying = FALSE /\ near = FALSE /\ tick = Idle
      /\ channel = <<>> /\ shown = NoSnapshot /\ pending = {} /\ player = [saved |-> NoTrack, restarts |-> 0]
      /\ engine = Off /\ raised = Nothing
  BY DEF Init
<1>9. /\ tick \in [pc : {"idle", "read", "handle"}, state : EngineState \cup {"unknown"},
                   events : SUBSET Reported, was : BOOLEAN]
      /\ tick.state = "unknown" /\ tick.events = {}
  BY <1>8 DEF Idle
<1>10. channel \in Seq(Command) /\ shown \in Snapshot /\ pending \subseteq Reported
  BY <1>8 DEF Snapshot
<1>11. player \in Players /\ engine \in Engines /\ raised \in Raised
  BY <1>8, EnginesAre DEF Players, Nothing, Raised
<1>12. TypeOK
  BY <1>7, <1>8, <1>9, <1>10, <1>11 DEF TypeOK, Players, Engines
<1>13. QED
  BY <1>6, <1>9, <1>12 DEF Base

LEMMA NextCases == Next <=> User \/ Tick \/ Worker \/ EngineSteps
BY DEF Next, EngineSteps

LEMMA BaseKept ==
  ASSUME Base, [Next]_vars PROVE Base'
<1>1. CASE User
  BY <1>1, UserSteps, UserTyped
<1>2. CASE Tick
  BY <1>2, TickTyped
<1>3. CASE Worker
  BY <1>3, WorkerTyped
<1>4. CASE EngineSteps
  BY <1>4, EngineTyped
<1>5. CASE UNCHANGED vars
  BY <1>5 DEF vars, ui, link, Base, TypeOK
<1>6. QED
  BY <1>1, <1>2, <1>3, <1>4, <1>5, NextCases

LEMMA AlwaysBase == Spec => []Base
<1>1. Init => Base
  BY InitBase
<1>2. Base /\ [Next]_vars => Base'
  BY BaseKept
<1>3. QED
  BY <1>1, <1>2, PTL DEF Spec

(* In every run the state has its type, whatever the queues and settings:  *)
(* a cursor that names a queued album, commands the player knows, events   *)
(* the engine can raise (ui/tick.rs, player.rs).                           *)
THEOREM TypeCorrect == Spec => []TypeOK
<1>1. Base => TypeOK
  BY DEF Base
<1>2. QED
  BY <1>1, AlwaysBase, PTL

-----------------------------------------------------------------------------
(* Stopped and quiet: with nothing current in the interface, either a stop *)
(* is the last transport on its way, or the engine is off and has nothing  *)
(* to restart from.                                                        *)

LEMMA SettingStays == Next \/ UNCHANGED vars => setting' = setting
<1>1. Tick => setting' = setting
  BY DEF Tick, TickRequest, TickRead, TickHandle, ui
<1>2. Worker => setting' = setting
  BY DEF Worker, RunLoad, RunStop, RunPause, RunPrepare, RunPoll, Receive, ui
<1>3. EngineSteps \/ UNCHANGED vars => setting' = setting
  BY DEF EngineSteps, NearEnd, GaplessTransition, EndOfStream, Crash, vars, ui
<1>4. User => setting' = setting
  BY DEF User, NextKey, PreviousKey, StopPlayback, StartQueue, TogglePlayback, MediaNext, MediaPrevious,
         MediaStop, MediaPause, MediaPlay, RemoveFromQueue, RemoveUpcomingTrack, Handler
<1>5. QED
  BY <1>1, <1>2, <1>3, <1>4, NextCases

Silent ==
  \/ Final(channel, Moves).kind = "stop"
  \/ Final(channel, Moves) = None /\ player.saved = NoTrack /\ engine.state = "stopped"
Quiet ==
  /\ ctrl.current = 0 => uiCurrent = 0
  /\ uiCurrent = 0 => ~isPlaying /\ shown.state # "playing" /\ Silent
Calm == "stop" \notin Faults => Quiet

LEMMA UserQuiet ==
  ASSUME Base, Quiet, UserDoes PROVE Quiet'
<1>1. player' = player /\ engine' = engine
  BY DEF UserDoes
<1>2. CASE Loads
  BY <1>2 DEF Loads, Quiet
<1>3. CASE Stops
  <2>1. shown'.state # "playing"
    BY <1>3 DEF Stops, Asks, NoSnapshot
  <2>2. Final(channel', Moves).kind = "stop"
    BY <1>3, CommandsAre DEF Stops, Asks
  <2>3. QED
    BY <1>3, <2>1, <2>2 DEF Stops, Quiet, Silent
<1>4. CASE Halts
  <2>1. isPlaying \in BOOLEAN
    BY BaseFacts
  <2>2. QED
    BY <1>1, <1>4, <2>1 DEF Halts, LinkKept, Quiet, Silent
<1>5. CASE Toggles
  BY <1>1, <1>5 DEF Toggles, Switches, NoSnapshot, Quiet, Silent
<1>6. CASE Trims
  BY <1>1, <1>6 DEF Trims, LinkKept, Quiet, Silent
<1>7. CASE Drops
  BY <1>7 DEF Drops, Quiet
<1>8. QED
  BY <1>2, <1>3, <1>4, <1>5, <1>6, <1>7 DEF UserDoes

LEMMA ReadiesQuiet ==
  ASSUME NEW c, NEW u, Readies(c, u)
  PROVE  /\ shown' = shown /\ pending' = pending /\ channel' \in Seq(Command)
         /\ Final(channel', Transports) = Final(channel, Transports)
         /\ Final(channel', Moves) = Final(channel, Moves)
         /\ Sent(channel') \subseteq Sent(channel) \cup {"cancel_next", "snapshot", "queue_next"}
BY DEF Readies, LinkKept, Prepares

LEMMA TickQuiet ==
  ASSUME Base, Quiet, Tick PROVE Quiet'
<1>0. isPlaying \in BOOLEAN /\ InPlace(ctrl)
  BY BaseFacts
<1>1. CASE TickRequest
  <2>1. LinkKept /\ UNCHANGED <<ctrl, uiCurrent, isPlaying, player, engine>>
    BY <1>1, TickRequestDoes
  <2>2. QED
    BY <2>1 DEF LinkKept, Quiet, Silent
<1>2. CASE TickRead
  <2>1. /\ UNCHANGED <<ctrl, uiCurrent, channel, shown, player, engine>>
        /\ isPlaying' => isPlaying \/ shown.state = "playing"
    BY <1>2 DEF TickRead
  <2>2. QED
    BY <2>1 DEF Quiet, Silent
<1>3. CASE TickHandle
  <2>1. HandleDoes
    BY <1>3, TickHandleDoes
  <2>2. player' = player /\ engine'.state = engine.state
    BY <2>1, WasTyped DEF HandleDoes, Engines
  <2>3. CASE Rests
    <3>1. ctrl' = ctrl /\ uiCurrent' = uiCurrent /\ (isPlaying' => isPlaying) /\ Readies(ctrl, uiCurrent)
      BY <2>3 DEF Rests
    <3>2. shown' = shown /\ Final(channel', Moves) = Final(channel, Moves)
      BY <3>1, ReadiesQuiet
    <3>3. QED
      BY <1>0, <2>2, <3>1, <3>2 DEF Quiet, Silent
  <2>4. CASE Advances
    <3>1. /\ ctrl' = NextTrack(ctrl) /\ uiCurrent' = ctrl'.current /\ isPlaying' = isPlaying
          /\ Readies(ctrl', uiCurrent')
      BY <2>4 DEF Advances
    <3>2. shown' = shown /\ Final(channel', Moves) = Final(channel, Moves)
      BY <3>1, ReadiesQuiet
    <3>3. ctrl'.current = 0 => ctrl.current = 0
      BY <1>0, <3>1, NextInPlace
    <3>4. QED
      BY <2>2, <3>1, <3>2, <3>3 DEF Quiet, Silent
  <2>5. CASE GoesOn
    <3>1. CASE Loads
      BY <3>1 DEF Loads, Quiet
    <3>2. CASE Halts
      BY <1>0, <2>2, <3>2 DEF Halts, LinkKept, Quiet, Silent
    <3>3. QED
      BY <2>5, <3>1, <3>2 DEF GoesOn
  <2>6. QED
    BY <2>1, <2>3, <2>4, <2>5 DEF HandleDoes
<1>4. QED
  BY <1>1, <1>2, <1>3 DEF Tick

(* No source to restart from: a poll restarts nothing. *)
LEMMA NothingToRestart ==
  ASSUME player.saved = NoTrack PROVE Saved = NoTrack /\ ~Restarts
BY DEF Saved, CrashKnown, Restarts

LEMMA WorkerQuiet ==
  ASSUME Base, Quiet, "stop" \notin Faults, Worker PROVE Quiet'
<1>0. Receive
  BY DEF Worker, RunLoad, RunStop, RunPause, RunPrepare, RunPoll
<1>1. /\ ctrl' = ctrl /\ uiCurrent' = uiCurrent /\ isPlaying' = isPlaying
      /\ channel' = Tail(channel) /\ channel' \in Seq(Command)
      /\ Final(channel, Moves) =
           IF Final(channel', Moves) # None THEN Final(channel', Moves)
           ELSE IF Head(channel).kind \in Moves THEN Head(channel) ELSE None
  BY <1>0, Received
<1>2. SUFFICES ASSUME uiCurrent = 0 PROVE shown'.state # "playing" /\ Silent'
  BY <1>1 DEF Quiet
<1>3. ~isPlaying /\ shown.state # "playing" /\ Silent
  BY <1>2 DEF Quiet
<1>4. None.kind # "stop"
  BY DEF None
<1>5. CASE RunLoad
  <2>1. Head(channel).kind = "load" /\ Head(channel).kind \in Moves /\ shown' = shown
    BY <1>5 DEF RunLoad, Moves
  <2>2. Head(channel) # None
    BY <2>1 DEF None
  <2>3. Final(channel', Moves).kind = "stop"
    BY <1>1, <1>3, <2>1, <2>2 DEF Silent
  <2>4. QED
    BY <1>3, <2>1, <2>3 DEF Silent
<1>6. CASE RunStop
  <2>1. player'.saved = NoTrack /\ engine'.state = "stopped" /\ shown' = shown
    BY <1>6, EnginesAre DEF RunStop, Unstoppable
  <2>2. Head(channel).kind = "stop" /\ Head(channel) # None /\ Head(channel).kind \in Moves
    BY <1>6 DEF RunStop, Moves, None
  <2>3. Final(channel', Moves).kind = "stop" \/ Final(channel', Moves) = None
    BY <1>1, <1>3, <2>2 DEF Silent
  <2>4. QED
    BY <1>3, <2>1, <2>3 DEF Silent
<1>7. CASE RunPause
  <2>1. Head(channel).kind \notin Moves /\ shown' = shown /\ player' = player
    BY <1>7 DEF RunPause, Moves
  <2>2. engine.state = "stopped" => engine'.state = "stopped"
    BY <1>7, WasTyped DEF RunPause, Engines
  <2>3. Final(channel', Moves) = Final(channel, Moves)
    BY <1>1, <2>1
  <2>4. QED
    BY <1>3, <2>1, <2>2, <2>3 DEF Silent
<1>8. CASE RunPrepare
  <2>1. Head(channel).kind \notin Moves /\ shown' = shown /\ player' = player
    BY <1>8 DEF RunPrepare, Moves
  <2>2. engine'.state = engine.state
    BY <1>8, WasTyped DEF RunPrepare, Engines
  <2>3. Final(channel', Moves) = Final(channel, Moves)
    BY <1>1, <2>1
  <2>4. QED
    BY <1>3, <2>1, <2>2, <2>3 DEF Silent
<1>9. CASE RunPoll
  <2>1. Head(channel).kind \notin Moves /\ (Restarted \/ FailedToRestart \/ JustPolled)
    BY <1>9, PollIs DEF Moves
  <2>2. Final(channel', Moves) = Final(channel, Moves)
    BY <1>1, <2>1
  <2>3. CASE Final(channel, Moves).kind = "stop"
    <3>1. HoldsTransport(channel')
      BY <1>1, <1>4, <2>2, <2>3, HoldsIs
    <3>2. shown' = shown
      BY <1>1, <2>1, <3>1 DEF Restarted, FailedToRestart, JustPolled, Publish
    <3>3. QED
      BY <1>3, <2>2, <2>3, <3>2 DEF Silent
  <2>4. CASE Final(channel, Moves) = None /\ player.saved = NoTrack /\ engine.state = "stopped"
    <3>1. Saved = NoTrack /\ ~Restarts
      BY <2>4, NothingToRestart
    <3>2. JustPolled
      BY <2>1, <3>1 DEF Restarted, FailedToRestart
    <3>3. player'.saved = NoTrack /\ engine' = engine
      BY <3>1, <3>2, WasTyped DEF JustPolled, Players
    <3>4. shown' = shown \/ shown' = [state |-> engine.state, near |-> engine.near]
      BY <3>2 DEF JustPolled, Publish
    <3>5. shown'.state # "playing"
      BY <1>3, <2>4, <3>4
    <3>6. QED
      BY <2>2, <2>4, <3>3, <3>5 DEF Silent
  <2>5. QED
    BY <1>3, <2>3, <2>4 DEF Silent
<1>10. QED
  BY <1>5, <1>6, <1>7, <1>8, <1>9 DEF Worker

LEMMA EngineQuiet ==
  ASSUME Quiet, EngineSteps PROVE Quiet'
<1>1. UNCHANGED <<ctrl, uiCurrent, isPlaying, channel, shown, player>> /\ engine.state = "playing"
  BY DEF EngineSteps, NearEnd, GaplessTransition, EndOfStream, Crash, ui, link
<1>2. uiCurrent = 0 => Final(channel, Moves).kind = "stop"
  BY <1>1 DEF Quiet, Silent
<1>3. QED
  BY <1>1, <1>2 DEF Quiet, Silent

LEMMA AlwaysCalm == Spec => [](Base /\ Calm)
<1>1. Init => Calm
  <2> SUFFICES ASSUME Init PROVE Quiet
    BY DEF Calm
  <2>1. /\ uiCurrent = 0 /\ isPlaying = FALSE /\ shown = NoSnapshot /\ channel = <<>>
        /\ player.saved = NoTrack /\ engine = Off
    BY DEF Init
  <2>2. Final(channel, Moves) = None
    BY <2>1, EmptyChannel
  <2>3. QED
    BY <2>1, <2>2, EnginesAre DEF Quiet, Silent, NoSnapshot
<1>2. Base /\ Calm /\ [Next]_vars => Calm'
  <2> SUFFICES ASSUME Base, Calm, [Next]_vars, "stop" \notin Faults' PROVE Quiet'
    BY DEF Calm
  <2>0. "stop" \notin Faults /\ Quiet
    BY SettingStays DEF Calm, Faults
  <2>1. CASE User
    BY <2>0, <2>1, UserSteps, UserQuiet
  <2>2. CASE Tick
    BY <2>0, <2>2, TickQuiet
  <2>3. CASE Worker
    BY <2>0, <2>3, WorkerQuiet
  <2>4. CASE EngineSteps
    BY <2>0, <2>4, EngineQuiet
  <2>5. CASE UNCHANGED vars
    BY <2>0, <2>5 DEF vars, ui, link, Quiet, Silent
  <2>6. QED
    BY <2>1, <2>2, <2>3, <2>4, <2>5, NextCases
<1>3. QED
  BY <1>1, <1>2, AlwaysBase, PTL DEF Spec

(* Stop is final: with nothing current in the interface and no transport   *)
(* behind it, neither a late end of track, transition or crash nor what    *)
(* the tick in progress has read brings the music back or asks for it      *)
(* (player.rs:320-327, ui/tick.rs:80-95).                                  *)
THEOREM StopIsFinal == Spec => StaysStopped
<1>1. ASSUME Base, [Next]_vars, uiCurrent = 0, ~HoldsTransport(channel), TickHandled
      PROVE  ~HoldsTransport(channel')
  <2>1. channel \in Seq(Command) /\ Final(channel, Transports) = None
    BY <1>1, BaseFacts, HoldsIs
  <2>2. tick' # tick /\ tick.pc = "handle"
    BY <1>1 DEF TickHandled
  <2>3. ~User /\ ~Worker
    BY <1>1, <2>2, UserSteps, Received
       DEF UserDoes, Worker, RunLoad, RunStop, RunPause, RunPrepare, RunPoll
  <2>4. ~EngineSteps /\ ~UNCHANGED vars
    BY <2>2 DEF EngineSteps, NearEnd, GaplessTransition, EndOfStream, Crash, vars
  <2>5. TickHandle
    BY <1>1, <2>2, <2>3, <2>4, NextCases DEF Tick, TickRequest, TickRead
  <2>6. HandleDoes
    BY <1>1, <2>5, TickHandleDoes
  <2>7. Rests \/ Advances
    BY <1>1, <2>6 DEF HandleDoes, GoesOn, OverByItself
  <2>8. channel' \in Seq(Command) /\ Final(channel', Transports) = Final(channel, Transports)
    BY <2>7, ReadiesQuiet DEF Rests, Advances
  <2>9. QED
    BY <2>1, <2>8, HoldsIs
<1>2. ASSUME Base, Quiet, "stop" \notin Faults, [Next]_vars, uiCurrent = 0, ~HoldsTransport(channel)
      PROVE  ~StartsNow
  <2>0. channel \in Seq(Command)
    BY <1>2, BaseFacts
  <2>1. Final(channel, Transports) = None /\ Final(channel, Moves) = None
    BY <1>2, <2>0, HoldsIs
  <2>2. player.saved = NoTrack /\ engine.state = "stopped"
    BY <1>2, <2>1 DEF Quiet, Silent, None
  <2>3. CASE User \/ Tick \/ UNCHANGED vars
    <3>1. engine' = engine \/ \E x : engine' = [engine EXCEPT !.ready = x]
      BY <1>2, <2>3, UserSteps DEF UserDoes, Tick, TickRequest, TickRead, TickHandle, vars
    <3>2. engine'.state = engine.state
      BY <1>2, <3>1, WasTyped DEF Engines
    <3>3. QED
      BY <2>2, <3>2 DEF StartsNow
  <2>4. CASE Worker
    <3>1. Receive
      BY <2>4 DEF Worker, RunLoad, RunStop, RunPause, RunPrepare, RunPoll
    <3>2. Head(channel).kind \notin Transports
      <4>1. /\ Head(channel) \in Command
            /\ Final(channel, Transports) =
                 IF Final(channel', Transports) # None THEN Final(channel', Transports)
                 ELSE IF Head(channel).kind \in Transports THEN Head(channel) ELSE None
        BY <1>2, <3>1, Received
      <4>2. Head(channel) # None
        BY <4>1, CommandIs DEF None
      <4>3. QED
        BY <2>1, <4>1, <4>2
    <3>3. RunPrepare \/ RunPoll
      BY <2>4, <3>2 DEF Worker, RunLoad, RunStop, RunPause, Transports
    <3>4. CASE RunPrepare
      <4>1. engine'.state = engine.state
        BY <1>2, <3>4, WasTyped DEF RunPrepare, Engines
      <4>2. QED
        BY <2>2, <4>1 DEF StartsNow
    <3>5. CASE RunPoll
      <4>1. engine' = engine
        BY <2>2, <3>5, PollIs, NothingToRestart DEF Restarted, FailedToRestart, JustPolled
      <4>2. QED
        BY <2>2, <4>1 DEF StartsNow
    <3>6. QED
      BY <3>3, <3>4, <3>5
  <2>5. CASE EngineSteps
    <3>1. engine.state = "playing"
      BY <2>5 DEF EngineSteps, NearEnd, GaplessTransition, EndOfStream, Crash
    <3>2. QED
      BY <2>2, <3>1
  <2>6. QED
    BY <1>2, <2>3, <2>4, <2>5, NextCases
<1>3. Base /\ Calm /\ [Next]_vars =>
        [uiCurrent = 0 /\ ~HoldsTransport(channel) =>
           /\ StartsNow => "stop" \in Faults
           /\ TickHandled => ~HoldsTransport(channel')]_vars
  BY <1>1, <1>2 DEF Calm
<1>4. QED
  BY <1>3, AlwaysCalm, PTL DEF Spec, StaysStopped

-----------------------------------------------------------------------------
(* What a crash would restart is what sounds. *)

Follows ==
  /\ engine.revived => player.restarts = 1
  /\ "late_events" \notin Faults /\ engine.state # "stopped" =>
       player.saved # NoTrack /\ engine.track = Saved
Traced == "stop" \notin Faults => Follows

LEMMA SavedNow ==
  /\ Nothing.moved = NoTrack /\ ~Nothing.crashed /\ ~Nothing.ended
  /\ raised' = Nothing => Saved' = player'.saved
<1>1. Nothing.moved = NoTrack /\ ~Nothing.crashed /\ ~Nothing.ended
  BY DEF Nothing
<1>2. QED
  BY <1>1 DEF Saved

LEMMA WorkerFollows ==
  ASSUME Base, Follows, "stop" \notin Faults, Worker PROVE Follows'
<1>0. Receive
  BY DEF Worker, RunLoad, RunStop, RunPause, RunPrepare, RunPoll
<1>1. setting' = setting /\ Head(channel) \in Command
  BY <1>0, Received
<1>2. Faults' = Faults
  BY <1>1 DEF Faults
<1>3. CASE RunLoad
  <2>1. Head(channel).track \in Tracks
    BY <1>1, <1>3, CommandIs DEF RunLoad
  <2>2. /\ player' = [saved |-> Head(channel).track, restarts |-> 0]
        /\ engine' = Playing(Head(channel).track) \/ engine' = Off
        /\ "late_events" \notin Faults => raised' = Nothing
    BY <1>3 DEF RunLoad, LeftOver, Unstoppable
  <2>3. ~engine'.revived /\ (engine'.state = "stopped" \/ engine'.track = Head(channel).track)
    <3>1. /\ Playing(Head(channel).track).track = Head(channel).track /\ ~Playing(Head(channel).track).revived
          /\ Off.state = "stopped" /\ ~Off.revived
      BY <2>1, EnginesAre
    <3>2. QED
      BY <2>2, <3>1
  <2>4. player'.saved = Head(channel).track /\ player'.saved # NoTrack
    BY <2>1, <2>2, NoTrackAssumption
  <2>5. "late_events" \notin Faults => Saved' = player'.saved
    BY <2>2, SavedNow
  <2>6. QED
    BY <1>2, <2>3, <2>4, <2>5 DEF Follows
<1>4. CASE RunStop
  <2>1. engine'.state = "stopped" /\ ~engine'.revived
    BY <1>4, EnginesAre DEF RunStop, Unstoppable
  <2>2. QED
    BY <2>1 DEF Follows
<1>5. CASE RunPause
  <2>1. player' = player /\ raised' = raised
    BY <1>5 DEF RunPause
  <2>2. /\ engine'.revived = engine.revived /\ engine'.track = engine.track
        /\ engine'.state = "stopped" <=> engine.state = "stopped"
    BY <1>5, WasTyped DEF RunPause, Engines
  <2>3. Saved' = Saved
    BY <2>1 DEF Saved
  <2>4. QED
    BY <1>2, <2>1, <2>2, <2>3 DEF Follows
<1>6. CASE RunPrepare
  <2>1. player' = player /\ raised' = raised
    BY <1>6 DEF RunPrepare
  <2>2. engine'.revived = engine.revived /\ engine'.track = engine.track /\ engine'.state = engine.state
    BY <1>6, WasTyped DEF RunPrepare, Engines
  <2>3. Saved' = Saved
    BY <2>1 DEF Saved
  <2>4. QED
    BY <1>2, <2>1, <2>2, <2>3 DEF Follows
<1>7. CASE RunPoll
  <2>1. raised' = Nothing /\ (Restarted \/ FailedToRestart \/ JustPolled)
    BY <1>7, PollIs
  <2>2. Saved' = player'.saved
    BY <2>1, SavedNow
  <2>3. Saved \in Tracks \cup {NoTrack} /\ player \in Players
    BY WasTyped
  <2>4. CASE Restarted
    <3>1. /\ player'.saved = Saved /\ player'.restarts = 1 /\ Saved # NoTrack
          /\ engine'.track = Saved
      BY <2>3, <2>4, EnginesAre DEF Restarted, Restarts, CrashKnown
    <3>2. QED
      BY <2>2, <3>1 DEF Follows
  <2>5. CASE FailedToRestart
    <3>1. engine'.state = "stopped" /\ ~engine'.revived
      BY <2>5, EnginesAre DEF FailedToRestart
    <3>2. QED
      BY <3>1 DEF Follows
  <2>6. CASE JustPolled
    <3>1. player'.saved = Saved /\ player'.restarts = player.restarts /\ engine' = engine
      BY <2>3, <2>6 DEF JustPolled, Players
    <3>2. player.saved # NoTrack => Saved # NoTrack
      BY DEF Saved
    <3>3. QED
      BY <1>2, <2>2, <3>1, <3>2 DEF Follows
  <2>7. QED
    BY <2>1, <2>4, <2>5, <2>6
<1>8. QED
  BY <1>3, <1>4, <1>5, <1>6, <1>7 DEF Worker

LEMMA EngineFollows ==
  ASSUME Base, Follows, EngineSteps PROVE Follows'
<1>1. UNCHANGED <<setting, player>> /\ engine.state = "playing"
  BY DEF EngineSteps, NearEnd, GaplessTransition, EndOfStream, Crash, ui
<1>2. Faults' = Faults
  BY <1>1 DEF Faults
<1>3. CASE NearEnd \/ Crash
  <2>1. engine'.revived = engine.revived /\ engine'.track = engine.track
    BY <1>3, WasTyped DEF NearEnd, Crash, Engines
  <2>2. raised'.moved = raised.moved
    BY <1>3, WasTyped DEF NearEnd, Crash, Raised
  <2>3. Saved' = Saved
    BY <1>1, <2>2 DEF Saved
  <2>4. QED
    BY <1>1, <1>2, <2>1, <2>3 DEF Follows
<1>4. CASE GaplessTransition
  <2>1. engine.next \in Tracks \cup {NoTrack} /\ engine.next # NoTrack /\ engine' = Playing(engine.next)
    BY <1>4, WasTyped DEF GaplessTransition
  <2>2. engine'.track = engine.next /\ ~engine'.revived
    BY <2>1, EnginesAre
  <2>3. raised'.moved = engine.next
    BY <1>4, WasTyped DEF GaplessTransition, Raised
  <2>4. player.saved # NoTrack => Saved' = engine.next
    BY <1>1, <2>1, <2>3 DEF Saved
  <2>5. QED
    BY <1>1, <1>2, <2>2, <2>4 DEF Follows
<1>5. CASE EndOfStream
  <2>1. engine'.state = "stopped" /\ ~engine'.revived
    BY <1>5, EnginesAre DEF EndOfStream
  <2>2. QED
    BY <2>1 DEF Follows
<1>6. QED
  BY <1>3, <1>4, <1>5 DEF EngineSteps

LEMMA InterfaceFollows ==
  ASSUME Base, Follows, UserDoes \/ Tick \/ UNCHANGED vars PROVE Follows'
<1>1. UNCHANGED <<setting, player, raised>>
  BY DEF UserDoes, Tick, TickRequest, TickRead, TickHandle, vars, ui
<1>2. engine'.revived = engine.revived /\ engine'.track = engine.track /\ engine'.state = engine.state
  <2>1. engine' = engine \/ \E x : engine' = [engine EXCEPT !.ready = x]
    BY DEF UserDoes, Tick, TickRequest, TickRead, TickHandle, vars
  <2>2. QED
    BY <2>1, WasTyped DEF Engines
<1>3. Faults' = Faults /\ Saved' = Saved
  BY <1>1 DEF Faults, Saved
<1>4. QED
  BY <1>1, <1>2, <1>3 DEF Follows

LEMMA AlwaysTraced == Spec => [](Base /\ Traced)
<1>1. Init => Traced
  <2> SUFFICES ASSUME Init PROVE Follows
    BY DEF Traced
  <2>1. engine.state = "stopped" /\ ~engine.revived
    BY EnginesAre DEF Init
  <2>2. QED
    BY <2>1 DEF Follows
<1>2. Base /\ Traced /\ [Next]_vars => Traced'
  <2> SUFFICES ASSUME Base, Traced, [Next]_vars, "stop" \notin Faults' PROVE Follows'
    BY DEF Traced
  <2>0. "stop" \notin Faults /\ Follows
    BY SettingStays DEF Traced, Faults
  <2>1. CASE User
    BY <2>0, <2>1, UserSteps, InterfaceFollows
  <2>2. CASE Tick \/ UNCHANGED vars
    BY <2>0, <2>2, InterfaceFollows
  <2>3. CASE Worker
    BY <2>0, <2>3, WorkerFollows
  <2>4. CASE EngineSteps
    BY <2>0, <2>4, EngineFollows
  <2>5. QED
    BY <2>1, <2>2, <2>3, <2>4, NextCases
<1>3. QED
  BY <1>1, <1>2, AlwaysBase, PTL DEF Spec

(* A crash is followed by at most one restart, and of the source that was  *)
(* playing, also when a transition and the crash come in the same batch of *)
(* events (player.rs:511-563).                                             *)
THEOREM RestartFollows == Spec => RestartsFaithfully
<1> DEFINE Faithful ==
             "late_events" \notin Faults /\ StartsNow /\ engine.state = "error" /\ Head(channel).kind = "snapshot" =>
               "stop" \in Faults \/ (engine'.track = engine.track /\ ~engine.revived)
<1>1. ASSUME Base, Follows, [Next]_vars, "late_events" \notin Faults, StartsNow, engine.state = "error",
             Head(channel).kind = "snapshot"
      PROVE  engine'.track = engine.track /\ ~engine.revived
  <2>1. engine.state # "playing" /\ engine'.state = "playing" /\ engine.state = "error"
    BY <1>1 DEF StartsNow
  <2>2. CASE User \/ Tick \/ UNCHANGED vars
    <3>1. engine' = engine \/ \E x : engine' = [engine EXCEPT !.ready = x]
      BY <1>1, <2>2, UserSteps DEF UserDoes, Tick, TickRequest, TickRead, TickHandle, vars
    <3>2. engine'.state = engine.state
      BY <1>1, <3>1, WasTyped DEF Engines
    <3>3. QED
      BY <2>1, <3>2
  <2>3. CASE EngineSteps
    <3>1. engine.state = "playing"
      BY <2>3 DEF EngineSteps, NearEnd, GaplessTransition, EndOfStream, Crash
    <3>2. QED
      BY <2>1, <3>1
  <2>4. CASE Worker
    <3>1. RunPoll
      BY <1>1, <2>4 DEF Worker, RunLoad, RunStop, RunPause, RunPrepare
    <3>2. Restarted \/ FailedToRestart \/ JustPolled
      BY <3>1, PollIs
    <3>3. Restarted
      BY <2>1, <3>2, EnginesAre DEF FailedToRestart, JustPolled
    <3>4. Saved \in Tracks \cup {NoTrack}
      BY <1>1, WasTyped
    <3>5. engine'.track = Saved /\ player.restarts = 0
      BY <3>3, <3>4, EnginesAre DEF Restarted, Restarts
    <3>6. engine.track = Saved /\ ~engine.revived
      BY <1>1, <2>1, <3>5 DEF Follows
    <3>7. QED
      BY <3>5, <3>6
  <2>5. QED
    BY <1>1, <2>2, <2>3, <2>4, NextCases
<1>2. Base /\ Traced /\ [Next]_vars => [Faithful]_vars
  BY <1>1 DEF Traced
<1>3. QED
  BY <1>2, AlwaysTraced, PTL DEF Spec, RestartsFaithfully

-----------------------------------------------------------------------------
(* In step, where no two tracks have one layout: nothing is ever prepared, *)
(* so every change of track is a load, and the last one asked for is of    *)
(* the current track.                                                      *)

ApartPromise ==
  /\ Apart /\ "stop" \notin Faults
  /\ "queue" \in Surfaces =>
       Surfaces \subseteq {"start", "queue", "flat_queue"} /\ Faults \subseteq {"load", "crash"}

Sounds == engine.state \in {"playing", "paused"}
Live == Sounds \/ (raised.crashed /\ player.saved # NoTrack)

NoGaps ==
  /\ NoRepeats(Lists(ctrl)) /\ engine.next = NoTrack /\ raised.moved = NoTrack
  /\ "moved" \notin pending /\ "moved" \notin tick.events /\ "queue_next" \notin Sent(channel)

Destined ==
  /\ Final(channel, Moves).kind = "load" => Final(channel, Moves).track = CurrentTrack(ctrl)
  /\ Final(channel, Moves) = None /\ Live =>
       player.saved = CurrentTrack(ctrl) /\ (Sounds => engine.track = player.saved)

(* An album removed while the interface shows nothing playing is not       *)
(* replaced by a load, so then the engine must be on its way to silence.   *)
Ending == Final(channel, Moves).kind = "stop" \/ (Final(channel, Moves) = None /\ ~Live)
Signs ==
  \/ ~isPlaying
  \/ shown # NoSnapshot /\ shown.state # "playing"
  \/ pending \cap {"ended", "error"} # {}
  \/ tick.events \cap {"ended", "error"} # {}
  \/ tick.state \in {"stopped", "error"}
Straight ==
  /\ engine.state # "paused" /\ Sent(channel) \cap {"pause", "resume"} = {}
  /\ raised.ended => engine.state = "stopped" /\ ~raised.crashed
  /\ raised.crashed => engine.state = "error"
  /\ shown # NoSnapshot => Final(channel, Moves) = None
Ended == "queue" \in Surfaces => Straight /\ (Signs => Ending)

ApartHeld == Base /\ ApartPromise /\ NoGaps /\ Destined /\ Ended

LEMMA PromiseKept ==
  ASSUME setting' = setting
  PROVE  /\ ApartPromise' = ApartPromise /\ Surfaces' = Surfaces /\ Faults' = Faults /\ Layout' = Layout
BY DEF ApartPromise, Apart, Surfaces, Faults, Layout

LEMMA NothingReady ==
  ASSUME ApartPromise, NEW c, InPlace(c), NoRepeats(Lists(c)), NEW u, Readies(c, u)
  PROVE  LinkKept
<1>1. CASE Wanted(c, u)
  <2>1. PeekNext(c) # NoTrack /\ Layout[PeekNext(c)] = Layout[CurrentTrack(c)]
    BY <1>1 DEF Wanted
  <2>2. PeekNext(c) # CurrentTrack(c)
    BY <2>1, PeekDiffers
  <2>3. PeekNext(c) \in Tracks
    BY <2>1, PeekIs
  <2>4. c.current # 0
    BY <2>1, PeekIs, NextInPlace
  <2>5. CurrentTrack(c) \in Tracks
    BY <2>4, InPlacePlays
  <2>6. FALSE
    BY <2>1, <2>2, <2>3, <2>5 DEF ApartPromise, Apart
  <2>7. QED
    BY <2>6
<1>2. QED
  BY <1>1 DEF Readies

LEMMA StopAndLoad ==
  /\ Plain("stop").kind = "stop" /\ None.kind = "none" /\ Plain("stop") # None
  /\ \A x : Load(x).kind = "load" /\ Load(x).track = x /\ Load(x) # None
BY DEF Plain, Load, None

LEMMA ApartUser ==
  ASSUME ApartHeld, UserDoes PROVE NoGaps' /\ Destined' /\ Ended'
<1>1. /\ UNCHANGED <<setting, player, engine, raised, tick>> /\ QueueKept /\ Surfaces' = Surfaces
  BY PromiseKept DEF UserDoes
<1>2. Sounds' = Sounds /\ Live' = Live
  BY <1>1 DEF Sounds, Live
<1>3. /\ NoGaps /\ Destined /\ Ended /\ Base /\ ApartPromise
  BY DEF ApartHeld
<1>4. NoRepeats(Lists(ctrl'))
  BY <1>1, <1>3 DEF QueueKept, NoGaps
<1>5. "queue" \in Surfaces => tick.pc = "idle"
  BY <1>3 DEF UserDoes, ApartPromise
<1>6. "queue" \in Surfaces => tick.state = "unknown" /\ tick.events = {}
  BY <1>3, <1>5 DEF Base
<1>7. CASE Loads
  <2> DEFINE x == CurrentTrack(ctrl')
  <2>1. /\ Final(channel', Moves) = Load(x) /\ shown' = NoSnapshot /\ pending' = {}
        /\ Sent(channel') \subseteq Sent(channel) \cup {"cancel_next", "load"} /\ isPlaying' = TRUE
    BY <1>7, StopAndLoad DEF Loads, Asks
  <2>2. NoGaps'
    BY <1>1, <1>3, <1>4, <2>1 DEF NoGaps
  <2>3. Destined'
    BY <2>1, StopAndLoad DEF Destined
  <2>4. Ended'
    BY <1>1, <1>3, <1>6, <2>1 DEF Ended, Straight, Signs
  <2>5. QED
    BY <2>2, <2>3, <2>4
<1>8. CASE Stops
  <2>1. /\ Final(channel', Moves) = Plain("stop") /\ shown' = NoSnapshot /\ pending' = {}
        /\ Sent(channel') \subseteq Sent(channel) \cup {"cancel_next", "stop"}
    BY <1>8, StopAndLoad DEF Stops, Asks
  <2>2. NoGaps'
    BY <1>1, <1>3, <1>4, <2>1 DEF NoGaps
  <2>3. Destined'
    BY <2>1, StopAndLoad DEF Destined
  <2>4. Ending'
    BY <2>1, StopAndLoad DEF Ending
  <2>5. Ended'
    BY <1>1, <1>3, <2>1, <2>4 DEF Ended, Straight
  <2>6. QED
    BY <2>2, <2>3, <2>5
<1>9. CASE Halts /\ Surfaces \cap {"transport", "media"} # {}
  <2>1. /\ Final(channel', Moves) = Final(channel, Moves) /\ shown' = shown /\ pending' = pending
        /\ Sent(channel') \subseteq Sent(channel) \cup {"cancel_next", "snapshot"} /\ ctrl' = ctrl
    BY <1>9 DEF Halts, LinkKept
  <2>2. NoGaps'
    BY <1>1, <1>3, <1>4, <2>1 DEF NoGaps
  <2>3. Destined'
    BY <1>1, <1>2, <1>3, <2>1 DEF Destined
  <2>4. Ended'
    BY <1>1, <1>3, <1>9 DEF Ended, ApartPromise
  <2>5. QED
    BY <2>2, <2>3, <2>4
<1>10. CASE Toggles /\ Surfaces \cap {"pause", "media"} # {}
  <2>1. PICK kind \in {"pause", "resume"} : Switches(Plain(kind)) /\ ctrl' = ctrl
    BY <1>10 DEF Toggles
  <2>2. /\ Final(channel', Moves) = Final(channel, Moves) /\ pending' = {}
        /\ Sent(channel') = Sent(channel) \cup {kind}
    BY <2>1, CommandsAre DEF Switches
  <2>3. NoGaps'
    BY <1>1, <1>3, <1>4, <2>2 DEF NoGaps
  <2>4. Destined'
    BY <1>1, <1>2, <1>3, <2>1, <2>2 DEF Destined
  <2>5. Ended'
    BY <1>1, <1>3, <1>10 DEF Ended, ApartPromise
  <2>6. QED
    BY <2>3, <2>4, <2>5
<1>11. CASE Trims
  <2>1. /\ Final(channel', Moves) = Final(channel, Moves) /\ shown' = shown /\ pending' = pending
        /\ Sent(channel') \subseteq Sent(channel) \cup {"cancel_next", "snapshot"}
        /\ CurrentTrack(ctrl') = CurrentTrack(ctrl) /\ isPlaying' = isPlaying
    BY <1>11 DEF Trims, LinkKept
  <2>2. NoGaps'
    BY <1>1, <1>3, <1>4, <2>1 DEF NoGaps
  <2>3. Destined'
    BY <1>1, <1>2, <1>3, <2>1 DEF Destined
  <2>4. Ending' = Ending /\ Signs' = Signs
    BY <1>1, <1>2, <2>1 DEF Ending, Signs
  <2>5. Ended'
    BY <1>1, <1>3, <2>1, <2>4 DEF Ended, Straight
  <2>6. QED
    BY <2>2, <2>3, <2>5
<1>12. CASE Drops /\ "queue" \in Surfaces
  <2>1. /\ Final(channel', Moves) = Final(channel, Moves) /\ shown' = shown /\ pending' = pending
        /\ Sent(channel') \subseteq Sent(channel) \cup {"cancel_next", "snapshot"}
        /\ isPlaying' = isPlaying /\ ~isPlaying
    BY <1>12 DEF Drops, LinkKept
  <2>2. NoGaps'
    BY <1>1, <1>3, <1>4, <2>1 DEF NoGaps
  <2>3. Ending' = Ending /\ Signs' = Signs /\ Ending
    BY <1>1, <1>2, <1>3, <1>12, <2>1 DEF Ending, Signs, Ended
  <2>4. Destined'
    BY <1>2, <2>1, <2>3, StopAndLoad DEF Destined, Ending
  <2>5. Ended'
    BY <1>1, <1>3, <2>1, <2>3 DEF Ended, Straight
  <2>6. QED
    BY <2>2, <2>4, <2>5
<1>13. QED
  BY <1>7, <1>8, <1>9, <1>10, <1>11, <1>12 DEF UserDoes

LEMMA ApartTick ==
  ASSUME ApartHeld, Tick PROVE NoGaps' /\ Destined' /\ Ended'
<1>1. /\ NoGaps /\ Destined /\ Ended /\ Base /\ ApartPromise
  BY DEF ApartHeld
<1>2. CASE TickRequest
  <2>1. /\ LinkKept /\ tick.pc = "idle" /\ tick' = [Idle EXCEPT !.pc = "read"]
        /\ UNCHANGED <<setting, ctrl, isPlaying, player, engine, raised>>
    BY <1>1, <1>2, TickRequestDoes
  <2>2. tick'.state = tick.state /\ tick'.events = tick.events
    BY <1>1, <2>1 DEF Base, Idle
  <2>3. Live' = Live /\ Sounds' = Sounds /\ Surfaces' = Surfaces
    BY <2>1, PromiseKept DEF Live, Sounds
  <2>4. NoGaps' /\ Destined'
    BY <1>1, <2>1, <2>2, <2>3 DEF LinkKept, NoGaps, Destined
  <2>5. Ending' = Ending /\ Signs' = Signs
    BY <2>1, <2>2, <2>3 DEF LinkKept, Ending, Signs
  <2>6. Ended'
    BY <1>1, <2>1, <2>3, <2>5 DEF LinkKept, Ended, Straight
  <2>7. QED
    BY <2>4, <2>6
<1>3. CASE TickRead
  <2>1. /\ UNCHANGED <<setting, ctrl, channel, shown, player, engine, raised>> /\ pending' = {}
        /\ \/ /\ shown = NoSnapshot /\ isPlaying' = isPlaying
              /\ tick'.state \in {"playing", "paused"} /\ tick'.events = {}
           \/ /\ shown # NoSnapshot /\ isPlaying' = (shown.state = "playing")
              /\ tick'.state = shown.state /\ tick'.events = pending
    BY <1>3 DEF TickRead, Idle
  <2>2. Live' = Live /\ Sounds' = Sounds /\ Surfaces' = Surfaces
    BY <2>1, PromiseKept DEF Live, Sounds
  <2>3. NoGaps' /\ Destined'
    BY <1>1, <2>1, <2>2 DEF NoGaps, Destined
  <2>4. Ending' = Ending
    BY <2>1, <2>2 DEF Ending
  <2>5. Signs' => Signs
    BY <2>1 DEF Signs
  <2>6. Ended'
    BY <1>1, <2>1, <2>2, <2>4, <2>5 DEF Ended, Straight
  <2>7. QED
    BY <2>3, <2>6
<1>4. CASE TickHandle
  <2>1. HandleDoes
    BY <1>1, <1>4, TickHandleDoes
  <2>2. UNCHANGED <<setting, player, raised>> /\ engine'.state = engine.state /\ engine'.track = engine.track
        /\ engine'.next = engine.next
    BY <1>1, <2>1, WasTyped DEF HandleDoes, Engines
  <2>3. Live' = Live /\ Sounds' = Sounds /\ Surfaces' = Surfaces
    BY <2>2, PromiseKept DEF Live, Sounds
  <2>4. tick'.state = "unknown" /\ tick'.events = {} /\ QueueKept
    BY <2>1, IdleTyped DEF HandleDoes
  <2>5. NoRepeats(Lists(ctrl'))
    BY <1>1, <2>4 DEF QueueKept, NoGaps
  <2>6. ~Advances
    BY <1>1 DEF NoGaps, Advances
  <2>7. CASE Rests \/ (GoesOn /\ Halts)
    <3>1. LinkKept /\ ctrl' = ctrl
      <4>1. CASE Rests
        <5>1. ctrl' = ctrl /\ Readies(ctrl, uiCurrent) /\ InPlace(ctrl) /\ NoRepeats(Lists(ctrl))
          BY <1>1, <4>1 DEF Rests, Base, NoGaps
        <5>2. QED
          BY <1>1, <5>1, NothingReady
      <4>2. CASE GoesOn /\ Halts
        BY <4>2 DEF Halts
      <4>3. QED
        BY <2>7, <4>1, <4>2
    <3>2. /\ Final(channel', Moves) = Final(channel, Moves) /\ shown' = shown /\ pending' = pending
          /\ Sent(channel') \subseteq Sent(channel) \cup {"cancel_next", "snapshot"}
      BY <3>1 DEF LinkKept
    <3>3. NoGaps' /\ Destined'
      BY <1>1, <2>2, <2>3, <2>4, <2>5, <3>1, <3>2 DEF NoGaps, Destined
    <3>4. Ending' = Ending
      BY <2>3, <3>2 DEF Ending
    <3>5. Signs' => Signs
      <4>1. ~isPlaying' => Signs
        BY <2>7 DEF Rests, GoesOn, OverByItself, EngineStopped, Signs
      <4>2. QED
        BY <2>4, <3>2, <4>1 DEF Signs
    <3>6. Ended'
      BY <1>1, <2>2, <2>3, <3>2, <3>4, <3>5 DEF Ended, Straight
    <3>7. QED
      BY <3>3, <3>6
  <2>8. CASE GoesOn /\ Loads
    <3> DEFINE x == CurrentTrack(ctrl')
    <3>1. /\ Final(channel', Moves) = Load(x) /\ shown' = NoSnapshot /\ pending' = {}
          /\ Sent(channel') \subseteq Sent(channel) \cup {"cancel_next", "load"} /\ isPlaying' = TRUE
      BY <2>8, StopAndLoad DEF Loads, Asks
    <3>2. NoGaps'
      BY <1>1, <2>2, <2>4, <2>5, <3>1 DEF NoGaps
    <3>3. Destined'
      BY <3>1, StopAndLoad DEF Destined
    <3>4. Ended'
      BY <1>1, <2>2, <2>3, <2>4, <3>1 DEF Ended, Straight, Signs
    <3>5. QED
      BY <3>2, <3>3, <3>4
  <2>9. QED
    BY <2>1, <2>6, <2>7, <2>8 DEF HandleDoes, GoesOn
<1>5. QED
  BY <1>2, <1>3, <1>4 DEF Tick

(* Something is heard of a poll only when no transport is behind it, and   *)
(* then no load and no stop.                                               *)
LEMMA PublishDoes ==
  ASSUME Base, Receive, NEW state, NEW isNear, NEW events, Publish(state, isNear, events)
  PROVE  \/ shown' = shown /\ pending' = pending
         \/ /\ Final(channel', Transports) = None /\ Final(channel', Moves) = None
            /\ shown' = [state |-> state, near |-> isNear] /\ pending' = pending \cup events
<1>1. channel' = Tail(channel) /\ channel' \in Seq(Command)
  BY Received
<1>2. CASE HoldsTransport(channel')
  BY <1>1, <1>2 DEF Publish
<1>3. CASE ~HoldsTransport(channel')
  BY <1>1, <1>3, HoldsIs DEF Publish
<1>4. QED
  BY <1>2, <1>3

LEMMA ApartLoad ==
  ASSUME ApartHeld, RunLoad PROVE NoGaps' /\ Destined' /\ Ended'
<1>1. NoGaps /\ Destined /\ Ended /\ Base /\ ApartPromise /\ Receive /\ Head(channel).kind = "load"
  BY DEF ApartHeld, RunLoad
<1>2. /\ UNCHANGED <<setting, ctrl, isPlaying, tick>> /\ Head(channel) \in Command
      /\ Final(channel, Moves) =
           IF Final(channel', Moves) # None THEN Final(channel', Moves)
           ELSE IF Head(channel).kind \in Moves THEN Head(channel) ELSE None
      /\ Sent(channel') \subseteq Sent(channel)
  BY <1>1, Received
<1> DEFINE x == Head(channel).track
<1>3. x \in Tracks /\ Head(channel) # None /\ Head(channel).kind \in Moves
  BY <1>1, <1>2, CommandIs DEF None, Moves
<1>4. /\ UNCHANGED <<shown, pending>> /\ player'.saved = x
      /\ engine' = Playing(x) \/ engine' = Off
      /\ raised' = Nothing \/ ("late_events" \in Faults /\ raised' = raised)
  BY <1>1 DEF RunLoad, LeftOver, Unstoppable, ApartPromise
<1>5. /\ engine'.next = NoTrack /\ engine'.state \in {"playing", "stopped"}
      /\ engine'.state = "playing" => engine'.track = x
  <2>1. /\ Off.state = "stopped" /\ Off.next = NoTrack
        /\ Playing(x).state = "playing" /\ Playing(x).track = x /\ Playing(x).next = NoTrack
    BY <1>3, EnginesAre
  <2>2. QED
    BY <1>4, <2>1
<1>6. Final(channel', Moves) = None => Final(channel, Moves) = Head(channel)
  BY <1>2, <1>3
<1>7. Final(channel', Moves) # None => Final(channel', Moves) = Final(channel, Moves)
  BY <1>2
<1>8. Final(channel, Moves) # None /\ None.kind = "none"
  BY <1>3, <1>6, <1>7 DEF None
<1>9. NoGaps'
  BY <1>1, <1>2, <1>4, <1>5, SavedNow DEF NoGaps
<1>10. Destined'
  <2>1. ASSUME Final(channel', Moves) = None PROVE x = CurrentTrack(ctrl)
    BY <1>1, <1>6, <2>1 DEF Destined
  <2>2. Sounds' => engine'.track = x
    BY <1>5 DEF Sounds
  <2>3. Final(channel', Moves).kind = "load" => Final(channel', Moves).track = CurrentTrack(ctrl)
    BY <1>1, <1>7, <1>8 DEF Destined
  <2>4. QED
    BY <1>2, <1>4, <2>1, <2>2, <2>3 DEF Destined
<1>11. Ended'
  <2> SUFFICES ASSUME "queue" \in Surfaces PROVE Straight' /\ (Signs' => Ending')
    BY <1>2, PromiseKept DEF Ended
  <2>1. Straight /\ (Signs => Ending) /\ "late_events" \notin Faults
    BY <1>1 DEF Ended, ApartPromise
  <2>2. raised' = Nothing
    BY <1>4, <2>1
  <2>3. shown' = NoSnapshot
    BY <1>4, <1>8, <2>1 DEF Straight
  <2>4. Straight'
    BY <1>2, <1>5, <2>1, <2>2, <2>3, SavedNow DEF Straight
  <2>5. Signs' = Signs
    BY <1>2, <1>4 DEF Signs
  <2>6. Signs => Final(channel, Moves).kind = "stop"
    BY <1>8, <2>1 DEF Ending
  <2>7. Signs => Ending'
    BY <1>1, <1>6, <1>7, <2>6 DEF Ending
  <2>8. QED
    BY <2>4, <2>5, <2>7
<1>12. QED
  BY <1>9, <1>10, <1>11

LEMMA ApartStop ==
  ASSUME ApartHeld, RunStop PROVE NoGaps' /\ Destined' /\ Ended'
<1>1. NoGaps /\ Destined /\ Ended /\ Base /\ ApartPromise /\ Receive
  BY DEF ApartHeld, RunStop
<1>2. /\ UNCHANGED <<setting, ctrl, isPlaying, tick>>
      /\ Final(channel', Moves) # None => Final(channel', Moves) = Final(channel, Moves)
      /\ Sent(channel') \subseteq Sent(channel)
  BY <1>1, Received
<1>3. /\ UNCHANGED <<shown, pending>> /\ player'.saved = NoTrack /\ engine' = Off
      /\ raised' = Nothing \/ ("late_events" \in Faults /\ raised' = raised)
      /\ Head(channel).kind = "stop"
  BY <1>1 DEF RunStop, LeftOver, Unstoppable, ApartPromise
<1>4. engine'.next = NoTrack /\ engine'.state = "stopped"
  BY <1>3, EnginesAre
<1>5. ~Sounds' /\ ~Live'
  BY <1>3, <1>4 DEF Sounds, Live
<1>6. NoGaps'
  BY <1>1, <1>2, <1>3, <1>4, SavedNow DEF NoGaps
<1>7. Destined'
  <2>1. Final(channel', Moves).kind = "load" => Final(channel', Moves).track = CurrentTrack(ctrl)
    BY <1>1, <1>2, StopAndLoad DEF Destined
  <2>2. QED
    BY <1>2, <1>5, <2>1 DEF Destined
<1>8. Ended'
  <2> SUFFICES ASSUME "queue" \in Surfaces PROVE Straight' /\ (Signs' => Ending')
    BY <1>2, PromiseKept DEF Ended
  <2>1. Straight /\ (Signs => Ending) /\ raised' = Nothing
    BY <1>1, <1>3 DEF Ended, ApartPromise
  <2>2. Final(channel, Moves) # None
    <3>1. /\ Head(channel).kind \in Moves /\ Head(channel) # None
          /\ Final(channel, Moves) =
               IF Final(channel', Moves) # None THEN Final(channel', Moves)
               ELSE IF Head(channel).kind \in Moves THEN Head(channel) ELSE None
      BY <1>1, <1>3, Received DEF Moves, None
    <3>2. QED
      BY <3>1
  <2>3. shown' = NoSnapshot
    BY <1>3, <2>1, <2>2 DEF Straight
  <2>4. Straight'
    BY <1>2, <1>4, <2>1, <2>3, SavedNow DEF Straight
  <2>5. Signs' = Signs
    BY <1>2, <1>3 DEF Signs
  <2>6. Signs => Ending'
    BY <1>2, <1>5, <2>1, <2>2 DEF Ending
  <2>7. QED
    BY <2>4, <2>5, <2>6
<1>9. QED
  BY <1>6, <1>7, <1>8

LEMMA ApartPauseOrPrepare ==
  ASSUME ApartHeld, RunPause \/ RunPrepare PROVE NoGaps' /\ Destined' /\ Ended'
<1>1. NoGaps /\ Destined /\ Ended /\ Base /\ ApartPromise /\ Receive
  BY DEF ApartHeld, RunPause, RunPrepare
<1>2. /\ UNCHANGED <<setting, ctrl, isPlaying, tick>>
      /\ Final(channel, Moves) =
           IF Final(channel', Moves) # None THEN Final(channel', Moves)
           ELSE IF Head(channel).kind \in Moves THEN Head(channel) ELSE None
      /\ Sent(channel') \subseteq Sent(channel) /\ Head(channel).kind \in Sent(channel)
  BY <1>1, Received
<1>3. Head(channel).kind \in {"pause", "resume", "queue_next", "cancel_next"}
      /\ UNCHANGED <<shown, pending, player, raised>>
  BY DEF RunPause, RunPrepare
<1>4. Final(channel', Moves) = Final(channel, Moves)
  BY <1>2, <1>3 DEF Moves
<1>5. Head(channel).kind # "queue_next"
  BY <1>1, <1>2 DEF NoGaps
<1>6. /\ engine'.next = NoTrack /\ engine'.track = engine.track
      /\ engine'.state = engine.state \/ (engine.state \in {"playing", "paused"} /\ engine'.state \in {"playing", "paused"})
  <2>1. CASE RunPause
    BY <1>1, <2>1, WasTyped DEF RunPause, Engines, NoGaps
  <2>2. CASE RunPrepare
    BY <1>1, <1>5, <2>2, WasTyped DEF RunPrepare, Engines
  <2>3. QED
    BY <2>1, <2>2
<1>7. Sounds' = Sounds /\ Live' = Live
  BY <1>3, <1>6 DEF Sounds, Live
<1>8. NoGaps'
  BY <1>1, <1>2, <1>3, <1>6 DEF NoGaps
<1>9. Destined'
  BY <1>1, <1>2, <1>3, <1>4, <1>6, <1>7 DEF Destined
<1>10. Ended'
  <2> SUFFICES ASSUME "queue" \in Surfaces PROVE Straight' /\ (Signs' => Ending')
    BY <1>2, PromiseKept DEF Ended
  <2>1. Straight /\ (Signs => Ending)
    BY <1>1 DEF Ended
  <2>2. RunPrepare
    BY <1>2, <2>1 DEF RunPause, Straight
  <2>3. engine'.state = engine.state
    BY <1>1, <2>2, WasTyped DEF RunPrepare, Engines
  <2>4. Straight'
    BY <1>2, <1>3, <1>4, <2>1, <2>3 DEF Straight
  <2>5. Signs' = Signs /\ Ending' = Ending
    BY <1>2, <1>3, <1>4, <1>7 DEF Signs, Ending
  <2>6. QED
    BY <2>1, <2>4, <2>5
<1>11. QED
  BY <1>8, <1>9, <1>10

LEMMA ApartPoll ==
  ASSUME ApartHeld, RunPoll PROVE NoGaps' /\ Destined' /\ Ended'
<1>1. NoGaps /\ Destined /\ Ended /\ Base /\ ApartPromise /\ Receive
  BY DEF ApartHeld, RunPoll
<1>2. /\ UNCHANGED <<setting, ctrl, isPlaying, tick>>
      /\ Final(channel, Moves) =
           IF Final(channel', Moves) # None THEN Final(channel', Moves)
           ELSE IF Head(channel).kind \in Moves THEN Head(channel) ELSE None
      /\ Sent(channel') \subseteq Sent(channel)
  BY <1>1, Received
<1>3. Head(channel).kind = "snapshot" /\ raised' = Nothing /\ (Restarted \/ FailedToRestart \/ JustPolled)
  BY PollIs
<1>4. Final(channel', Moves) = Final(channel, Moves)
  BY <1>2, <1>3 DEF Moves
<1>5. Saved = player.saved /\ Saved \in Tracks \cup {NoTrack} /\ player \in Players
  BY <1>1, WasTyped DEF Saved, NoGaps
<1>6. ~raised'.ended /\ ~raised'.crashed /\ raised'.moved = NoTrack
  BY <1>3, SavedNow
<1>7. "moved" \notin Seen
  BY <1>1 DEF NoGaps, Seen
<1>8. player'.saved = player.saved
  <2>1. player'.saved = Saved
    <3>1. player' = [saved |-> Saved, restarts |-> 1] \/ player' = [player EXCEPT !.saved = Saved]
      BY <1>3 DEF Restarted, FailedToRestart, JustPolled
    <3>2. QED
      BY <1>5, <3>1 DEF Players
  <2>2. QED
    BY <1>5, <2>1
<1>9. \/ Restarted /\ engine'.state = "playing" /\ engine'.track = Saved /\ engine'.next = NoTrack
      \/ FailedToRestart /\ engine'.state = "stopped" /\ engine'.next = NoTrack
      \/ JustPolled /\ engine' = engine
  <2>1. Restarted => engine'.state = "playing" /\ engine'.track = Saved /\ engine'.next = NoTrack
    BY <1>5, EnginesAre DEF Restarted
  <2>2. FailedToRestart => engine'.state = "stopped" /\ engine'.next = NoTrack
    BY EnginesAre DEF FailedToRestart
  <2>3. JustPolled => engine' = engine
    BY DEF JustPolled
  <2>4. QED
    BY <1>3, <2>1, <2>2, <2>3
<1>10. Restarts => Live
  BY <1>5 DEF Restarts, CrashKnown, Live
<1>11. Live' => Sounds' /\ Live
  BY <1>6, <1>9, <1>10 DEF Live, Sounds, Restarted
<1> DEFINE Uneventful(news) ==
             engine'.state = "playing" /\ ~raised.ended /\ (raised.crashed => engine.state = "error")
               => news \cap {"ended", "error"} = {}
<1>12. \E isNear, news : Publish(engine'.state, isNear, news) /\ "moved" \notin news /\ Uneventful(news)
  <2>1. ~raised.ended => Seen = {}
    BY <1>7 DEF Seen
  <2>2. CASE Restarted
    <3>1. engine'.state = "playing"
      BY <1>5, <2>2, EnginesAre DEF Restarted
    <3>2. Publish("playing", FALSE, Seen \cup {"restarted"})
      BY <2>2 DEF Restarted
    <3>3. Publish(engine'.state, FALSE, Seen \cup {"restarted"})
      BY <3>1, <3>2
    <3>4. "moved" \notin Seen \cup {"restarted"} /\ Uneventful(Seen \cup {"restarted"})
      BY <1>7, <2>1
    <3>5. QED
      BY <3>3, <3>4
  <2>3. CASE FailedToRestart
    <3>1. engine'.state = "stopped" /\ Publish("stopped", FALSE, Seen \cup {"error"})
      BY <2>3, EnginesAre DEF FailedToRestart
    <3>2. "moved" \notin Seen \cup {"error"} /\ Uneventful(Seen \cup {"error"})
      BY <1>7, <3>1
    <3>3. QED
      BY <3>1, <3>2
  <2>4. CASE JustPolled
    <3> DEFINE news == Seen \cup (IF raised.crashed THEN {"error"} ELSE {})
    <3>1. engine' = engine /\ Publish(engine.state, engine.near, news)
      BY <2>4 DEF JustPolled
    <3>2. Publish(engine'.state, engine.near, news)
      BY <3>1
    <3>3. "moved" \notin news
      BY <1>7
    <3>4. Uneventful(news)
      BY <2>1, <3>1
    <3>5. QED
      BY <3>2, <3>3, <3>4
  <2>5. QED
    BY <1>3, <2>2, <2>3, <2>4
<1>13. PICK news : /\ "moved" \notin news /\ Uneventful(news)
                   /\ \/ shown' = shown /\ pending' = pending
                      \/ /\ Final(channel', Moves) = None /\ Final(channel, Moves) = None
                         /\ shown'.state = engine'.state /\ pending' = pending \cup news
  <2>1. PICK isNear, news : Publish(engine'.state, isNear, news) /\ "moved" \notin news /\ Uneventful(news)
    BY <1>12
  <2> HIDE DEF Uneventful
  <2>2. \/ shown' = shown /\ pending' = pending
        \/ /\ Final(channel', Moves) = None
           /\ shown' = [state |-> engine'.state, near |-> isNear] /\ pending' = pending \cup news
    BY <1>1, <2>1, PublishDoes
  <2>3. QED
    BY <1>4, <2>1, <2>2
<1>14. NoGaps'
  <2>1. "moved" \notin pending'
    BY <1>1, <1>13 DEF NoGaps
  <2>2. engine'.next = NoTrack
    BY <1>1, <1>9 DEF NoGaps
  <2>3. QED
    BY <1>1, <1>2, <1>6, <2>1, <2>2 DEF NoGaps
<1>15. Destined'
  <2>1. Sounds' => engine'.track = Saved \/ (engine'.track = engine.track /\ Sounds)
    BY <1>9 DEF Sounds
  <2>2. QED
    BY <1>1, <1>2, <1>4, <1>5, <1>8, <1>11, <2>1 DEF Destined, Live
<1>16. Ended'
  <2> SUFFICES ASSUME "queue" \in Surfaces PROVE Straight' /\ (Signs' => Ending')
    BY <1>2, PromiseKept DEF Ended
  <2>1. Straight /\ (Signs => Ending)
    BY <1>1 DEF Ended
  <2>2. Straight'
    <3>1. engine'.state # "paused"
      BY <1>9, <2>1 DEF Straight
    <3>2. shown' # NoSnapshot => Final(channel', Moves) = None
      BY <1>4, <1>13, <2>1 DEF Straight
    <3>3. QED
      BY <1>2, <1>6, <2>1, <3>1, <3>2 DEF Straight
  <2>3. SUFFICES ASSUME Signs', ~Ending' PROVE FALSE
    BY <2>2
  <2>4. ~Ending
    BY <1>4, <1>11, <2>3 DEF Ending
  <2>5. ~Signs /\ (shown' # shown \/ pending' # pending)
    <3>1. ~Signs
      BY <2>1, <2>4
    <3>2. shown' = shown /\ pending' = pending => Signs' = Signs
      BY <1>2 DEF Signs
    <3>3. QED
      BY <2>3, <3>1, <3>2
  <2>6. Final(channel', Moves) = None /\ shown'.state = engine'.state /\ pending' = pending \cup news
    BY <1>13, <2>5
  <2>7. Live' /\ Sounds'
    BY <1>11, <2>3, <2>6 DEF Ending
  <2>8. engine'.state = "playing" /\ ~raised.ended
    BY <1>5, <1>9, <2>1, <2>7 DEF Straight, Sounds, Restarted, Restarts, CrashKnown
  <2>9. news \cap {"ended", "error"} = {}
    BY <1>13, <2>1, <2>8 DEF Straight
  <2>10. Signs
    BY <1>2, <2>3, <2>6, <2>8, <2>9 DEF Signs
  <2>11. QED
    BY <2>1, <2>4, <2>10
<1>17. QED
  BY <1>14, <1>15, <1>16

LEMMA ApartEngine ==
  ASSUME ApartHeld, EngineSteps PROVE NoGaps' /\ Destined' /\ Ended'
<1>1. NoGaps /\ Destined /\ Ended /\ Base /\ ApartPromise
  BY DEF ApartHeld
<1>2. UNCHANGED <<setting, ctrl, isPlaying, tick, channel, shown, pending, player>> /\ engine.state = "playing"
  BY DEF EngineSteps, NearEnd, GaplessTransition, EndOfStream, Crash, ui, link
<1>3. ~GaplessTransition
  BY <1>1 DEF NoGaps, GaplessTransition
<1>4. /\ engine'.next = NoTrack /\ raised'.moved = raised.moved
      /\ \/ engine'.state = "playing" /\ engine'.track = engine.track /\ raised' = raised
         \/ engine'.state = "stopped" /\ raised'.ended /\ raised'.crashed = raised.crashed
         \/ engine'.state = "error" /\ raised'.crashed /\ raised'.ended = raised.ended
  <2>1. CASE NearEnd
    BY <1>1, <2>1, WasTyped DEF NearEnd, Engines, NoGaps
  <2>2. CASE EndOfStream
    <3>1. engine' = Off /\ raised' = [raised EXCEPT !.ended = TRUE] /\ raised \in Raised
      BY <1>1, <2>2, WasTyped DEF EndOfStream
    <3>2. engine'.next = NoTrack /\ engine'.state = "stopped"
      BY <3>1, EnginesAre
    <3>3. raised'.moved = raised.moved /\ raised'.ended /\ raised'.crashed = raised.crashed
      BY <3>1 DEF Raised
    <3>4. QED
      BY <3>2, <3>3
  <2>3. CASE Crash
    <3>1. engine' = [engine EXCEPT !.state = "error"] /\ raised' = [raised EXCEPT !.crashed = TRUE]
          /\ raised \in Raised /\ engine \in Engines
      BY <1>1, <2>3, WasTyped DEF Crash
    <3>2. engine'.next = engine.next /\ engine'.state = "error"
      BY <3>1 DEF Engines
    <3>3. raised'.moved = raised.moved /\ raised'.crashed /\ raised'.ended = raised.ended
      BY <3>1 DEF Raised
    <3>4. QED
      BY <1>1, <3>2, <3>3 DEF NoGaps
  <2>4. QED
    BY <1>3, <2>1, <2>2, <2>3 DEF EngineSteps
<1>5. Live
  BY <1>2 DEF Live, Sounds
<1>6. NoGaps'
  BY <1>1, <1>2, <1>4 DEF NoGaps
<1>7. Destined'
  <2>1. Sounds' => engine'.track = engine.track /\ Sounds
    BY <1>2, <1>4 DEF Sounds
  <2>2. QED
    BY <1>1, <1>2, <1>5, <2>1 DEF Destined
<1>8. Ended'
  <2> SUFFICES ASSUME "queue" \in Surfaces PROVE Straight' /\ (Signs' => Ending')
    BY <1>2, PromiseKept DEF Ended
  <2>1. Straight /\ (Signs => Ending)
    BY <1>1 DEF Ended
  <2>2. ~raised.ended /\ ~raised.crashed
    BY <1>2, <2>1 DEF Straight
  <2>3. Straight'
    BY <1>2, <1>4, <2>1, <2>2 DEF Straight
  <2>4. Signs' = Signs
    BY <1>2 DEF Signs
  <2>5. Ending => Ending'
    BY <1>2, <1>5 DEF Ending
  <2>6. QED
    BY <2>1, <2>3, <2>4, <2>5
<1>9. QED
  BY <1>6, <1>7, <1>8

LEMMA AlwaysApart == Spec => [](Base /\ (ApartPromise => NoGaps /\ Destined /\ Ended))
<1> DEFINE Held == ApartPromise => NoGaps /\ Destined /\ Ended
<1>1. Init => Held
  <2> SUFFICES ASSUME Init, ApartPromise PROVE NoGaps /\ Destined /\ Ended
    OBVIOUS
  <2>1. /\ channel = <<>> /\ shown = NoSnapshot /\ pending = {} /\ player.saved = NoTrack
        /\ engine = Off /\ raised = Nothing /\ tick = Idle
    BY DEF Init
  <2>2. PICK q \in setting.queues : ctrl = [EmptyController EXCEPT !.items = [i \in DOMAIN q |-> NewItem(q[i])]]
    BY DEF Init
  <2>3. Lists(ctrl) = q
    <3>1. /\ q \in Seq(Seq(Tracks) \ {<<>>})
      BY <2>2, PlaybackAssumption DEF Init
    <3>2. DOMAIN q = 1..Len(q) /\ q = [i \in DOMAIN q |-> q[i]]
      BY <3>1, LenProperties
    <3>3. ctrl.items = [i \in DOMAIN q |-> NewItem(q[i])]
      BY <2>2 DEF EmptyController
    <3>4. \A i \in DOMAIN q : NewItem(q[i]).tracks = q[i]
      BY DEF NewItem
    <3>5. QED
      BY <3>2, <3>3, <3>4 DEF Lists
  <2>4. NoRepeats(Lists(ctrl))
    BY <2>2, <2>3 DEF ApartPromise, Apart
  <2>5. Final(channel, Moves) = None /\ Sent(channel) = {}
    BY <2>1, EmptyChannel
  <2>6. ~Live /\ engine.state = "stopped" /\ engine.next = NoTrack
    BY <2>1, EnginesAre, SavedNow DEF Live, Sounds
  <2>7. raised.moved = NoTrack /\ ~raised.ended /\ ~raised.crashed /\ tick.events = {}
    BY <2>1, SavedNow, IdleTyped
  <2>8. NoGaps
    BY <2>1, <2>4, <2>5, <2>6, <2>7 DEF NoGaps
  <2>9. Destined
    BY <2>5, <2>6 DEF Destined, None
  <2>10. Straight /\ Ending
    BY <2>1, <2>5, <2>6, <2>7 DEF Straight, Ending
  <2>11. QED
    BY <2>8, <2>9, <2>10 DEF Ended
<1>2. Base /\ Held /\ [Next]_vars => Held'
  <2> SUFFICES ASSUME Base, Held, [Next]_vars, ApartPromise' PROVE NoGaps' /\ Destined' /\ Ended'
    OBVIOUS
  <2>1. ApartHeld
    <3>1. ApartPromise
      BY SettingStays, PromiseKept
    <3>2. QED
      BY <3>1 DEF ApartHeld
  <2>2. CASE User
    BY <2>1, <2>2, UserSteps, ApartUser
  <2>3. CASE Tick
    BY <2>1, <2>3, ApartTick
  <2>4. CASE Worker
    BY <2>1, <2>4, ApartLoad, ApartStop, ApartPauseOrPrepare, ApartPoll DEF Worker
  <2>5. CASE EngineSteps
    BY <2>1, <2>5, ApartEngine
  <2>6. CASE UNCHANGED vars
    <3>1. UNCHANGED <<setting, ctrl, isPlaying, tick, channel, shown, pending, player, engine, raised>>
      BY <2>6 DEF vars, ui, link
    <3>2. Sounds' = Sounds /\ Live' = Live /\ Signs' = Signs /\ Surfaces' = Surfaces
      BY <3>1 DEF Sounds, Live, Signs, Surfaces
    <3>3. QED
      BY <2>1, <3>1, <3>2 DEF ApartHeld, NoGaps, Destined, Ended, Straight, Ending
  <2>7. QED
    BY <2>2, <2>3, <2>4, <2>5, <2>6, NextCases
<1>3. QED
  BY <1>1, <1>2, AlwaysBase, PTL DEF Spec

-----------------------------------------------------------------------------
(* In step, where all tracks have one layout: the cursor and the engine    *)
(* may differ by the one transition that is on its way to the interface,   *)
(* and what is prepared is what comes after the engine's track.            *)

AlikePromise == Alike /\ Surfaces \subseteq {"start", "transport"} /\ Faults \subseteq {"load"}

Lag == raised.moved # NoTrack \/ "moved" \in pending \/ "moved" \in tick.events
Upnext == IF Lag THEN {PeekNext(ctrl)} ELSE {CurrentTrack(ctrl), PeekNext(ctrl)}

Series ==
  /\ engine.state \in {"playing", "stopped"} /\ ~raised.crashed
  /\ engine.near => engine.state = "playing"
  /\ engine.ready => engine.near
  /\ Sent(channel) \subseteq {"load", "stop", "queue_next", "cancel_next", "snapshot"}
  /\ pending \subseteq {"moved", "ended"} /\ tick.events \subseteq {"moved", "ended"}
  /\ shown = NoSnapshot => pending = {}
  /\ shown # NoSnapshot /\ shown.near => shown.state = "playing"

(* A load or a stop is on its way: everything read is of after it.         *)
Incoming ==
  Final(channel, Moves) # None =>
    /\ shown = NoSnapshot /\ tick.events = {}
    /\ Final(channel, Moves).kind = "load" => Final(channel, Moves).track = CurrentTrack(ctrl)
    /\ ToPrepare(channel) \subseteq {CurrentTrack(ctrl), PeekNext(ctrl)}

Once ==
  /\ raised.moved # NoTrack => "moved" \notin pending /\ "moved" \notin tick.events
  /\ "moved" \in pending => "moved" \notin tick.events
Located ==
  engine.state = "playing" => engine.track = CurrentTrack(IF Lag THEN NextTrack(ctrl) ELSE ctrl)
NearTheEnd ==
  engine.near =>
    /\ raised = Nothing /\ pending = {} /\ tick.events = {}
    /\ ToPrepare(channel) \subseteq {PeekNext(ctrl)}
    /\ near => /\ shown # NoSnapshot /\ shown.near
               /\ tick.pc = "handle" => tick.state = "playing"
Prepared ==
  /\ ToPrepare(channel) \subseteq Upnext
  /\ engine.state = "playing" /\ engine.next # NoTrack => engine.next \in Upnext
  /\ engine.ready => engine.next \in {NoTrack, CurrentTrack(NextTrack(ctrl))}
Current == Final(channel, Moves) = None => Once /\ Located /\ NearTheEnd /\ Prepared

AlikeHeld == Base /\ Quiet /\ AlikePromise /\ Series /\ Incoming /\ Current

LEMMA AlikeKept ==
  ASSUME setting' = setting PROVE AlikePromise' = AlikePromise
BY DEF AlikePromise, Alike, Surfaces, Faults, Layout

LEMMA QueuedTracks ==
  \A x \in ToPrepare(channel) : x \in Tracks
BY DEF ToPrepare

(* A load or a stop is asked for, and the tick has nothing left to tell.   *)
LEMMA AskedAlike ==
  ASSUME AlikeHeld, NEW c, c \in {Load(CurrentTrack(ctrl')), Plain("stop")}, Asks(c),
         raised' = raised, tick'.events = {},
         engine'.state = engine.state, engine'.near = engine.near, engine'.ready => engine'.near
  PROVE  Series' /\ Incoming' /\ Current'
<1>1. Series /\ c # None /\ c.kind \in {"load", "stop"} /\ (c.kind = "load" => c.track = CurrentTrack(ctrl'))
  BY StopAndLoad DEF AlikeHeld
<1>2. /\ Final(channel', Moves) = c /\ shown' = NoSnapshot /\ pending' = {} /\ ToPrepare(channel') = {}
      /\ Sent(channel') \subseteq Sent(channel) \cup {"cancel_next", c.kind}
  BY DEF Asks
<1>3. Series'
  BY <1>1, <1>2 DEF Series
<1>4. Incoming'
  BY <1>1, <1>2 DEF Incoming
<1>5. Current'
  BY <1>1, <1>2 DEF Current
<1>6. QED
  BY <1>3, <1>4, <1>5

LEMMA AlikeUser ==
  ASSUME AlikeHeld, UserDoes PROVE Series' /\ Incoming' /\ Current'
<1>1. /\ UNCHANGED <<setting, near, player, engine, raised, tick>>
      /\ Series /\ Incoming /\ Current /\ Base /\ Surfaces \subseteq {"start", "transport"}
  BY DEF UserDoes, AlikeHeld, AlikePromise
<1>2. tick.events = {}
  BY <1>1 DEF UserDoes, Base
<1>3. CASE Loads
  BY <1>1, <1>2, <1>3, AskedAlike DEF Loads, Series
<1>4. CASE Stops
  BY <1>1, <1>2, <1>4, AskedAlike DEF Stops, Series
<1>5. CASE Halts
  <2>1. /\ Final(channel', Moves) = Final(channel, Moves) /\ shown' = shown /\ pending' = pending
        /\ Sent(channel') \subseteq Sent(channel) \cup {"cancel_next", "snapshot"}
        /\ ToPrepare(channel') = ToPrepare(channel) /\ ctrl' = ctrl
    BY <1>5 DEF Halts, LinkKept
  <2>2. Series'
    BY <1>1, <2>1 DEF Series
  <2>3. Incoming'
    BY <1>1, <2>1 DEF Incoming
  <2>4. Lag' = Lag /\ Upnext' = Upnext
    BY <1>1, <2>1 DEF Lag, Upnext
  <2>5. Current'
    BY <1>1, <2>1, <2>4 DEF Current, Once, Located, NearTheEnd, Prepared
  <2>6. QED
    BY <2>2, <2>3, <2>5
<1>6. QED
  BY <1>1, <1>3, <1>4, <1>5 DEF UserDoes

LEMMA AlikeRequest ==
  ASSUME AlikeHeld, TickRequest PROVE Series' /\ Incoming' /\ Current'
<1>1. Series /\ Incoming /\ Current /\ Base
  BY DEF AlikeHeld
<1>2. /\ LinkKept /\ tick.pc = "idle" /\ tick' = [Idle EXCEPT !.pc = "read"]
      /\ UNCHANGED <<ctrl, near, player, engine, raised>>
  BY <1>1, TickRequestDoes
<1>3. tick.events = {} /\ tick'.events = {} /\ tick'.pc = "read"
  BY <1>1, <1>2 DEF Base, Idle
<1>4. /\ Final(channel', Moves) = Final(channel, Moves) /\ shown' = shown /\ pending' = pending
      /\ Sent(channel') \subseteq Sent(channel) \cup {"cancel_next", "snapshot"}
      /\ ToPrepare(channel') = ToPrepare(channel)
  BY <1>2 DEF LinkKept
<1>5. Series'
  BY <1>1, <1>2, <1>3, <1>4 DEF Series
<1>6. Incoming'
  BY <1>1, <1>2, <1>3, <1>4 DEF Incoming
<1>7. Lag' = Lag /\ Upnext' = Upnext
  BY <1>2, <1>3, <1>4 DEF Lag, Upnext
<1>8. Current'
  BY <1>1, <1>2, <1>3, <1>4, <1>7 DEF Current, Once, Located, NearTheEnd, Prepared
<1>9. QED
  BY <1>5, <1>6, <1>8

LEMMA AlikeRead ==
  ASSUME AlikeHeld, TickRead PROVE Series' /\ Incoming' /\ Current'
<1>1. Series /\ Incoming /\ Current /\ Base
  BY DEF AlikeHeld
<1>2. tick.events = {}
  BY <1>1 DEF TickRead, Base
<1>3. /\ UNCHANGED <<ctrl, channel, shown, engine, raised>> /\ pending' = {}
      /\ \/ shown = NoSnapshot /\ near' = near /\ tick'.events = {}
         \/ /\ shown # NoSnapshot /\ near' = shown.near
            /\ tick'.state = shown.state /\ tick'.events = pending
  BY DEF TickRead, Idle
<1>4. tick'.events = pending
  BY <1>1, <1>3 DEF Series
<1>5. Series'
  BY <1>1, <1>3, <1>4 DEF Series
<1>6. Incoming'
  BY <1>1, <1>3, <1>4 DEF Incoming, Series
<1>7. Lag' <=> Lag
  BY <1>2, <1>3, <1>4 DEF Lag
<1>8. Upnext' = Upnext
  BY <1>3, <1>7 DEF Upnext
<1>9. ASSUME Final(channel, Moves) = None
      PROVE  Once' /\ Located' /\ NearTheEnd' /\ Prepared'
  <2>1. Once /\ Located /\ NearTheEnd /\ Prepared
    BY <1>1, <1>9 DEF Current
  <2>2. Once'
    BY <1>3, <1>4, <2>1 DEF Once
  <2>3. Located'
    BY <1>3, <1>7, <2>1 DEF Located
  <2>4. NearTheEnd'
    BY <1>1, <1>3, <1>4, <2>1 DEF NearTheEnd, Series
  <2>5. Prepared'
    BY <1>3, <1>8, <2>1 DEF Prepared
  <2>6. QED
    BY <2>2, <2>3, <2>4, <2>5
<1>10. Current'
  BY <1>3, <1>9 DEF Current
<1>11. QED
  BY <1>5, <1>6, <1>10

(* What the tick does with the engine: it may have had its turn.           *)
LEMMA TurnTaken ==
  ASSUME Base, HandleDoes
  PROVE  /\ engine'.state = engine.state /\ engine'.near = engine.near /\ engine'.track = engine.track
         /\ engine'.next = engine.next
         /\ engine'.ready => engine.ready \/ (engine.near /\ near /\ "queue_next" \notin Sent(channel'))
         /\ UNCHANGED <<setting, near, player, raised>> /\ tick'.events = {} /\ tick'.pc = "idle" /\ tick.pc = "handle"
BY WasTyped, IdleTyped DEF HandleDoes, Engines

(* An engine near its end plays: then the interface shows something.       *)
LEMMA PlayingIsShown ==
  ASSUME AlikeHeld, Final(channel, Moves) = None, engine.state = "playing"
  PROVE  uiCurrent # 0
<1>1. channel \in Seq(Command) /\ Sent(channel) \cap {"pause", "resume"} = {}
  BY BaseFacts DEF AlikeHeld, Series
<1>2. Final(channel, Transports) = None
  BY <1>1, HoldsIs
<1>3. ~Silent
  BY <1>2 DEF Silent, None
<1>4. QED
  BY <1>3 DEF AlikeHeld, Quiet

(* When all layouts are alike, whatever comes next is prepared in time.    *)
LEMMA NothingComesNext ==
  ASSUME AlikeHeld, HandleDoes, Final(channel, Moves) = None, Readies(ctrl, uiCurrent),
         engine.near, near, "queue_next" \notin Sent(channel')
  PROVE  AtEnd(ctrl) /\ PeekNext(ctrl) = NoTrack
<1>1. Series /\ Current /\ Base /\ Alike /\ InPlace(ctrl) /\ tick.pc = "handle"
  BY DEF AlikeHeld, AlikePromise, Base, HandleDoes
<1>2. engine.state = "playing" /\ tick.state = "playing"
  BY <1>1 DEF Series, Current, NearTheEnd
<1>3. uiCurrent # 0
  BY <1>2, PlayingIsShown
<1>4. ~Wanted(ctrl, uiCurrent)
  BY DEF Readies, Prepares
<1>5. ASSUME ~AtEnd(ctrl) PROVE FALSE
  <2>1. PeekNext(ctrl) \in Tracks /\ ctrl.current # 0
    BY <1>1, <1>5, PeekIs, NextInPlace
  <2>2. CurrentTrack(ctrl) \in Tracks /\ PeekNext(ctrl) # NoTrack
    BY <1>1, <2>1, InPlacePlays, NoTrackAssumption
  <2>3. Layout[PeekNext(ctrl)] = Layout[CurrentTrack(ctrl)]
    BY <1>1, <2>1, <2>2 DEF Alike
  <2>4. QED
    BY <1>2, <1>3, <1>4, <2>2, <2>3 DEF Wanted
<1>6. QED
  BY <1>1, <1>5, PeekIs

LEMMA AlikeRests ==
  ASSUME AlikeHeld, HandleDoes, Rests PROVE Series' /\ Incoming' /\ Current'
<1>1. Series /\ Incoming /\ Current /\ Base /\ InPlace(ctrl)
  BY DEF AlikeHeld, Base
<1>2. /\ engine'.state = engine.state /\ engine'.near = engine.near /\ engine'.track = engine.track
      /\ engine'.next = engine.next
      /\ engine'.ready => engine.ready \/ (engine.near /\ near /\ "queue_next" \notin Sent(channel'))
      /\ near' = near /\ raised' = raised /\ tick'.events = {} /\ tick'.pc = "idle"
  BY <1>1, TurnTaken
<1>3. ctrl' = ctrl /\ Readies(ctrl, uiCurrent) /\ "moved" \notin tick.events
  BY <1>1 DEF Rests, Series
<1>4. /\ shown' = shown /\ pending' = pending /\ Final(channel', Moves) = Final(channel, Moves)
      /\ Sent(channel') \subseteq Sent(channel) \cup {"cancel_next", "snapshot", "queue_next"}
      /\ ToPrepare(channel') \subseteq ToPrepare(channel) \cup {PeekNext(ctrl)}
  BY <1>3 DEF Readies, LinkKept, Prepares
<1>5. Series'
  BY <1>1, <1>2, <1>4 DEF Series
<1>6. Incoming'
  BY <1>1, <1>2, <1>3, <1>4 DEF Incoming
<1>7. Lag' <=> Lag
  BY <1>2, <1>3, <1>4 DEF Lag
<1>8. Upnext' = Upnext /\ PeekNext(ctrl) \in Upnext
  BY <1>3, <1>7 DEF Upnext
<1>9. ASSUME Final(channel, Moves) = None
      PROVE  Once' /\ Located' /\ NearTheEnd' /\ Prepared'
  <2>1. Once /\ Located /\ NearTheEnd /\ Prepared
    BY <1>1, <1>9 DEF Current
  <2>2. Once'
    BY <1>2, <1>4, <2>1 DEF Once
  <2>3. Located'
    BY <1>2, <1>3, <1>7, <2>1 DEF Located
  <2>4. NearTheEnd'
    BY <1>2, <1>3, <1>4, <2>1 DEF NearTheEnd
  <2>5. ToPrepare(channel') \subseteq Upnext'
    BY <1>4, <1>8, <2>1 DEF Prepared
  <2>6. ASSUME engine.near, near, "queue_next" \notin Sent(channel')
        PROVE  engine.next \in {NoTrack, CurrentTrack(NextTrack(ctrl))}
    <3>1. AtEnd(ctrl) /\ PeekNext(ctrl) = NoTrack
      BY <1>3, <1>9, <2>6, NothingComesNext
    <3>2. CurrentTrack(NextTrack(ctrl)) = CurrentTrack(ctrl)
      BY <1>1, <3>1, PeekIs
    <3>3. ~Lag /\ engine.state = "playing"
      BY <1>1, <2>1, <2>6 DEF NearTheEnd, Lag, Nothing, Series
    <3>4. engine.next # NoTrack => engine.next \in {CurrentTrack(ctrl), PeekNext(ctrl)}
      BY <2>1, <3>3 DEF Prepared, Upnext
    <3>5. QED
      BY <3>1, <3>2, <3>4
  <2>7. engine'.ready => engine'.next \in {NoTrack, CurrentTrack(NextTrack(ctrl'))}
    BY <1>2, <1>3, <2>1, <2>6 DEF Prepared
  <2>8. Prepared'
    BY <1>2, <1>8, <2>1, <2>5, <2>7 DEF Prepared
  <2>9. QED
    BY <2>2, <2>3, <2>4, <2>8
<1>10. Current'
  BY <1>4, <1>9 DEF Current
<1>11. QED
  BY <1>5, <1>6, <1>10

LEMMA AlikeAdvances ==
  ASSUME AlikeHeld, HandleDoes, Advances PROVE Series' /\ Incoming' /\ Current'
<1>1. Series /\ Incoming /\ Current /\ Base /\ InPlace(ctrl)
  BY DEF AlikeHeld, Base
<1>2. /\ engine'.state = engine.state /\ engine'.near = engine.near /\ engine'.track = engine.track
      /\ engine'.next = engine.next
      /\ engine'.ready => engine.ready \/ engine.near
      /\ raised' = raised /\ tick'.events = {} /\ tick'.pc = "idle"
  BY <1>1, TurnTaken
<1>3. ctrl' = NextTrack(ctrl) /\ Readies(ctrl', uiCurrent') /\ "moved" \in tick.events
  BY DEF Advances
<1>4. /\ shown' = shown /\ pending' = pending /\ Final(channel', Moves) = Final(channel, Moves)
      /\ Sent(channel') \subseteq Sent(channel) \cup {"cancel_next", "snapshot", "queue_next"}
      /\ ToPrepare(channel') \subseteq ToPrepare(channel) \cup {PeekNext(ctrl')}
  BY <1>3 DEF Readies, LinkKept, Prepares
<1>5. Final(channel, Moves) = None
  BY <1>1, <1>3 DEF Incoming
<1>6. Once /\ Located /\ NearTheEnd /\ Prepared
  BY <1>1, <1>5 DEF Current
<1>7. Lag /\ raised.moved = NoTrack /\ "moved" \notin pending /\ ~engine.near /\ ~engine.ready
  BY <1>1, <1>3, <1>6 DEF Lag, Once, NearTheEnd, Series
<1>8. ~Lag'
  BY <1>2, <1>4, <1>7 DEF Lag
<1>9. Upnext = {PeekNext(ctrl)} /\ Upnext' = {CurrentTrack(ctrl'), PeekNext(ctrl')}
  BY <1>7, <1>8 DEF Upnext
<1>10. PeekNext(ctrl) # NoTrack => PeekNext(ctrl) = CurrentTrack(ctrl')
  BY <1>1, <1>3, PeekIs
<1>11. Series'
  BY <1>1, <1>2, <1>4, <1>7 DEF Series
<1>12. Incoming'
  BY <1>4, <1>5 DEF Incoming
<1>13. Once'
  BY <1>2, <1>4, <1>7 DEF Once
<1>14. Located'
  BY <1>2, <1>3, <1>6, <1>7, <1>8 DEF Located
<1>15. NearTheEnd'
  BY <1>2, <1>7 DEF NearTheEnd
<1>16. Prepared'
  <2>1. \A x \in ToPrepare(channel) : x = CurrentTrack(ctrl')
    BY <1>6, <1>9, <1>10, QueuedTracks, NoTrackAssumption DEF Prepared
  <2>2. ToPrepare(channel') \subseteq Upnext'
    BY <1>4, <1>9, <2>1
  <2>3. engine'.state = "playing" /\ engine'.next # NoTrack => engine'.next \in Upnext'
    BY <1>2, <1>6, <1>9, <1>10 DEF Prepared
  <2>4. QED
    BY <1>2, <1>7, <2>2, <2>3 DEF Prepared
<1>17. QED
  BY <1>11, <1>12, <1>13, <1>14, <1>15, <1>16 DEF Current

LEMMA AlikeGoesOn ==
  ASSUME AlikeHeld, HandleDoes, GoesOn PROVE Series' /\ Incoming' /\ Current'
<1>1. Series /\ Incoming /\ Current /\ Base
  BY DEF AlikeHeld
<1>2. /\ engine'.state = engine.state /\ engine'.near = engine.near /\ engine'.track = engine.track
      /\ engine'.next = engine.next
      /\ engine'.ready => engine.ready \/ (engine.near /\ near)
      /\ near' = near /\ raised' = raised /\ tick'.events = {} /\ tick'.pc = "idle" /\ tick.pc = "handle"
  BY <1>1, TurnTaken
<1>3. CASE Loads
  <2>1. engine'.ready => engine'.near
    BY <1>1, <1>2 DEF Series
  <2>2. QED
    BY <1>2, <1>3, <2>1, AskedAlike DEF Loads
<1>4. CASE Halts
  <2>1. /\ Final(channel', Moves) = Final(channel, Moves) /\ shown' = shown /\ pending' = pending
        /\ Sent(channel') \subseteq Sent(channel) \cup {"cancel_next", "snapshot"}
        /\ ToPrepare(channel') = ToPrepare(channel) /\ ctrl' = ctrl
    BY <1>4 DEF Halts, LinkKept
  <2>2. "moved" \notin tick.events /\ ("ended" \in tick.events \/ EngineStopped)
    BY DEF GoesOn, OverByItself
  <2>3. Series'
    BY <1>1, <1>2, <2>1 DEF Series
  <2>4. Incoming'
    BY <1>1, <1>2, <2>1 DEF Incoming
  <2>5. Lag' <=> Lag
    BY <1>2, <2>1, <2>2 DEF Lag
  <2>6. Upnext' = Upnext
    BY <2>1, <2>5 DEF Upnext
  <2>7. ASSUME Final(channel, Moves) = None PROVE Once' /\ Located' /\ NearTheEnd' /\ Prepared'
    <3>1. Once /\ Located /\ NearTheEnd /\ Prepared
      BY <1>1, <2>7 DEF Current
    <3>2. ~(engine.near /\ near)
      BY <1>2, <2>2, <3>1 DEF NearTheEnd, EngineStopped
    <3>3. Once' /\ Located' /\ NearTheEnd'
      BY <1>2, <2>1, <2>5, <3>1 DEF Once, Located, NearTheEnd
    <3>4. Prepared'
      BY <1>2, <2>1, <2>6, <3>1, <3>2 DEF Prepared
    <3>5. QED
      BY <3>3, <3>4
  <2>8. Current'
    BY <2>1, <2>7 DEF Current
  <2>9. QED
    BY <2>3, <2>4, <2>8
<1>5. QED
  BY <1>3, <1>4 DEF GoesOn

LEMMA AlikeTick ==
  ASSUME AlikeHeld, Tick PROVE Series' /\ Incoming' /\ Current'
<1>1. TickHandle => HandleDoes
  BY TickHandleDoes DEF AlikeHeld
<1>2. HandleDoes => Rests \/ Advances \/ GoesOn
  BY DEF HandleDoes
<1>3. QED
  BY <1>1, <1>2, AlikeRequest, AlikeRead, AlikeRests, AlikeAdvances, AlikeGoesOn DEF Tick

LEMMA AlikeLoadOrStop ==
  ASSUME AlikeHeld, RunLoad \/ RunStop PROVE Series' /\ Incoming' /\ Current'
<1>1. Series /\ Incoming /\ Base /\ Receive /\ Faults \cap {"late_events", "stop"} = {}
  BY DEF AlikeHeld, AlikePromise, RunLoad, RunStop
<1>2. /\ UNCHANGED <<ctrl, near, tick>> /\ Head(channel) \in Command
      /\ Final(channel, Moves) =
           IF Final(channel', Moves) # None THEN Final(channel', Moves)
           ELSE IF Head(channel).kind \in Moves THEN Head(channel) ELSE None
      /\ Sent(channel') \subseteq Sent(channel) /\ ToPrepare(channel') \subseteq ToPrepare(channel)
  BY <1>1, Received
<1>3. Head(channel).kind \in {"load", "stop"} /\ Head(channel).kind \in Moves /\ Head(channel) # None
  BY DEF RunLoad, RunStop, Moves, None
<1>4. UNCHANGED <<shown, pending>> /\ raised' = Nothing
  BY <1>1 DEF RunLoad, RunStop, LeftOver, Unstoppable
<1>5. /\ engine'.state \in {"playing", "stopped"} /\ ~engine'.near /\ ~engine'.ready /\ engine'.next = NoTrack
      /\ engine'.state = "playing" => Head(channel).kind = "load" /\ engine'.track = Head(channel).track
  <2>1. CASE RunLoad
    <3>1. Head(channel).track \in Tracks /\ Head(channel).kind = "load"
      BY <1>2, <2>1, CommandIs DEF RunLoad
    <3>2. engine' = Playing(Head(channel).track) \/ engine' = Off
      BY <1>1, <2>1 DEF RunLoad, Unstoppable
    <3> DEFINE x == Head(channel).track
    <3>3. /\ Off.state = "stopped" /\ Off.next = NoTrack /\ ~Off.near /\ ~Off.ready
          /\ Playing(x).state = "playing" /\ Playing(x).track = x /\ Playing(x).next = NoTrack
          /\ ~Playing(x).near /\ ~Playing(x).ready
      BY <3>1, EnginesAre
    <3>4. QED
      BY <3>1, <3>2, <3>3
  <2>2. CASE RunStop
    BY <1>1, <2>2, EnginesAre DEF RunStop, Unstoppable
  <2>3. QED
    BY <2>1, <2>2
<1>6. Final(channel, Moves) # None
  BY <1>2, <1>3
<1>7. /\ shown = NoSnapshot /\ tick.events = {} /\ pending = {}
      /\ ToPrepare(channel) \subseteq {CurrentTrack(ctrl), PeekNext(ctrl)}
  BY <1>1, <1>6 DEF Incoming, Series
<1>8. Series'
  BY <1>1, <1>2, <1>4, <1>5, SavedNow DEF Series
<1>9. Incoming'
  BY <1>1, <1>2, <1>4, <1>6 DEF Incoming
<1>10. ~Lag'
  BY <1>2, <1>4, <1>7, SavedNow DEF Lag
<1>11. Upnext' = {CurrentTrack(ctrl), PeekNext(ctrl)}
  BY <1>2, <1>10 DEF Upnext
<1>12. ASSUME Final(channel', Moves) = None PROVE Once' /\ Located' /\ NearTheEnd' /\ Prepared'
  <2>1. Final(channel, Moves) = Head(channel)
    BY <1>2, <1>3, <1>12
  <2>2. Head(channel).kind = "load" => Head(channel).track = CurrentTrack(ctrl)
    BY <1>1, <1>6, <2>1 DEF Incoming
  <2>3. Once'
    BY <1>2, <1>4, <1>7, SavedNow DEF Once
  <2>4. Located'
    BY <1>2, <1>5, <1>10, <2>2 DEF Located
  <2>5. NearTheEnd'
    BY <1>5 DEF NearTheEnd
  <2>6. Prepared'
    BY <1>2, <1>5, <1>7, <1>11 DEF Prepared
  <2>7. QED
    BY <2>3, <2>4, <2>5, <2>6
<1>13. Current'
  BY <1>12 DEF Current
<1>14. QED
  BY <1>8, <1>9, <1>13

LEMMA AlikePrepare ==
  ASSUME AlikeHeld, RunPrepare PROVE Series' /\ Incoming' /\ Current'
<1>1. Series /\ Incoming /\ Current /\ Base /\ InPlace(ctrl) /\ Receive
  BY DEF AlikeHeld, Base, RunPrepare
<1>2. /\ UNCHANGED <<ctrl, near, tick>> /\ Head(channel) \in Command
      /\ Final(channel, Moves) =
           IF Final(channel', Moves) # None THEN Final(channel', Moves)
           ELSE IF Head(channel).kind \in Moves THEN Head(channel) ELSE None
      /\ Sent(channel') \subseteq Sent(channel) /\ ToPrepare(channel') \subseteq ToPrepare(channel)
      /\ Final(channel, Moves) = None /\ Head(channel).kind = "queue_next" => Head(channel).track \in ToPrepare(channel)
  BY <1>1, Received
<1>3. UNCHANGED <<shown, pending, raised>> /\ Head(channel).kind \in {"queue_next", "cancel_next"}
  BY DEF RunPrepare
<1>4. Final(channel', Moves) = Final(channel, Moves)
  BY <1>2, <1>3 DEF Moves
<1>5. /\ engine'.state = engine.state /\ engine'.track = engine.track /\ engine'.near = engine.near
      /\ \/ engine'.next = NoTrack /\ engine'.ready = engine.ready
         \/ /\ Head(channel).kind = "queue_next" /\ engine'.next = Head(channel).track
            /\ engine'.ready => engine.ready \/ engine.near
  BY <1>1, WasTyped DEF RunPrepare, Engines
<1>6. Series'
  BY <1>1, <1>2, <1>3, <1>5 DEF Series
<1>7. Incoming'
  BY <1>1, <1>2, <1>3, <1>4 DEF Incoming
<1>8. Lag' = Lag /\ Upnext' = Upnext
  BY <1>2, <1>3 DEF Lag, Upnext
<1>9. ASSUME Final(channel, Moves) = None PROVE Once' /\ Located' /\ NearTheEnd' /\ Prepared'
  <2>1. Once /\ Located /\ NearTheEnd /\ Prepared
    BY <1>1, <1>9 DEF Current
  <2>2. Once' /\ Located' /\ NearTheEnd'
    BY <1>2, <1>3, <1>5, <1>8, <2>1 DEF Once, Located, NearTheEnd
  <2>3. Head(channel).kind = "queue_next" => Head(channel).track \in Tracks /\ Head(channel).track \in Upnext
    BY <1>2, <1>9, <2>1, CommandIs DEF Prepared
  <2>4. engine'.state = "playing" /\ engine'.next # NoTrack => engine'.next \in Upnext
    BY <1>5, <2>1, <2>3 DEF Prepared
  <2>5. ASSUME Head(channel).kind = "queue_next", engine.near
        PROVE  Head(channel).track = CurrentTrack(NextTrack(ctrl))
    <3>1. Head(channel).track \in ToPrepare(channel) /\ ToPrepare(channel) \subseteq {PeekNext(ctrl)}
      BY <1>2, <1>9, <2>1, <2>5 DEF NearTheEnd
    <3>2. PeekNext(ctrl) # NoTrack
      BY <2>3, <2>5, <3>1, NoTrackAssumption
    <3>3. QED
      BY <1>1, <3>1, <3>2, PeekIs
  <2>6. engine'.ready => engine'.next \in {NoTrack, CurrentTrack(NextTrack(ctrl))}
    BY <1>1, <1>5, <2>1, <2>5 DEF Prepared, Series
  <2>7. Prepared'
    BY <1>2, <1>8, <2>1, <2>4, <2>6 DEF Prepared
  <2>8. QED
    BY <2>2, <2>7
<1>10. Current'
  BY <1>4, <1>9 DEF Current
<1>11. QED
  BY <1>6, <1>7, <1>10

LEMMA AlikePoll ==
  ASSUME AlikeHeld, RunPoll PROVE Series' /\ Incoming' /\ Current'
<1>1. Series /\ Incoming /\ Current /\ Base /\ Receive
  BY DEF AlikeHeld, RunPoll
<1>2. /\ UNCHANGED <<ctrl, near, tick>> /\ channel' = Tail(channel) /\ channel' \in Seq(Command)
      /\ Final(channel, Moves) =
           IF Final(channel', Moves) # None THEN Final(channel', Moves)
           ELSE IF Head(channel).kind \in Moves THEN Head(channel) ELSE None
      /\ Sent(channel') \subseteq Sent(channel) /\ ToPrepare(channel') \subseteq ToPrepare(channel)
  BY <1>1, Received
<1>3. Head(channel).kind = "snapshot" /\ raised' = Nothing /\ (Restarted \/ FailedToRestart \/ JustPolled)
  BY PollIs
<1>4. Final(channel', Moves) = Final(channel, Moves)
  BY <1>2, <1>3 DEF Moves
<1>5. ~raised.crashed
  BY <1>1 DEF Series
<1>6. engine' = engine /\ Publish(engine.state, engine.near, Seen)
  <2>1. JustPolled
    BY <1>3, <1>5 DEF Restarted, FailedToRestart, Restarts, CrashKnown
  <2>2. Seen \cup (IF raised.crashed THEN {"error"} ELSE {}) = Seen
    BY <1>5
  <2>3. QED
    BY <2>1, <2>2 DEF JustPolled
<1>7. raised'.moved = NoTrack /\ ~raised'.crashed
  BY <1>3, SavedNow
<1>8. Seen \subseteq {"moved", "ended"} /\ ("moved" \in Seen <=> raised.moved # NoTrack)
  BY DEF Seen
<1>9. \/ Final(channel', Moves) # None /\ shown' = shown /\ pending' = pending
      \/ /\ Final(channel', Moves) = None
         /\ shown' = [state |-> engine.state, near |-> engine.near] /\ pending' = pending \cup Seen
  <2>1. Sent(channel') \cap {"pause", "resume"} = {}
    BY <1>1, <1>2 DEF Series
  <2>2. HoldsTransport(channel') <=> Final(channel', Moves) # None
    BY <1>2, <2>1, HoldsIs
  <2>3. QED
    BY <1>2, <1>6, <2>2 DEF Publish
<1>10. Series'
  <2>1. shown' = [state |-> engine.state, near |-> engine.near]
           => shown' # NoSnapshot /\ shown'.state = engine.state /\ shown'.near = engine.near
    BY <1>1 DEF NoSnapshot, Series
  <2>2. CASE Final(channel', Moves) # None
    BY <1>1, <1>2, <1>6, <1>7, <1>9, <2>2 DEF Series
  <2>3. CASE Final(channel', Moves) = None
    BY <1>1, <1>2, <1>6, <1>7, <1>8, <1>9, <2>1, <2>3 DEF Series
  <2>4. QED
    BY <2>2, <2>3
<1>11. Incoming'
  BY <1>1, <1>2, <1>4, <1>9 DEF Incoming
<1>12. ASSUME Final(channel, Moves) = None PROVE Once' /\ Located' /\ NearTheEnd' /\ Prepared'
  <2>1. Once /\ Located /\ NearTheEnd /\ Prepared
    BY <1>1, <1>12 DEF Current
  <2>2. shown' = [state |-> engine.state, near |-> engine.near] /\ pending' = pending \cup Seen
    BY <1>4, <1>9, <1>12
  <2>3. Lag' <=> Lag
    BY <1>2, <1>7, <1>8, <2>2 DEF Lag
  <2>4. Upnext' = Upnext
    BY <1>2, <2>3 DEF Upnext
  <2>5. Once'
    BY <1>2, <1>7, <1>8, <2>1, <2>2 DEF Once
  <2>6. Located'
    BY <1>2, <1>6, <2>1, <2>3 DEF Located
  <2>7. NearTheEnd'
    <3>1. shown' # NoSnapshot /\ shown'.near = engine.near
      BY <1>1, <2>2 DEF NoSnapshot, Series
    <3>2. engine.near => Seen = {}
      BY <1>8, <2>1, SavedNow DEF NearTheEnd, Seen
    <3>3. QED
      BY <1>2, <1>3, <1>6, <2>1, <2>2, <3>1, <3>2 DEF NearTheEnd
  <2>8. Prepared'
    BY <1>2, <1>6, <2>1, <2>4 DEF Prepared
  <2>9. QED
    BY <2>5, <2>6, <2>7, <2>8
<1>13. Current'
  BY <1>4, <1>12 DEF Current
<1>14. QED
  BY <1>10, <1>11, <1>13

LEMMA AlikeWorker ==
  ASSUME AlikeHeld, Worker PROVE Series' /\ Incoming' /\ Current'
<1>1. ~RunPause
  <2>1. RunPause => Receive /\ Head(channel).kind \in {"pause", "resume"}
    BY DEF RunPause
  <2>2. Receive => Head(channel).kind \in Sent(channel)
    BY Received DEF AlikeHeld
  <2>3. QED
    BY <2>1, <2>2 DEF AlikeHeld, Series
<1>2. QED
  BY <1>1, AlikeLoadOrStop, AlikePrepare, AlikePoll DEF Worker

LEMMA AlikeEngine ==
  ASSUME AlikeHeld, EngineSteps PROVE Series' /\ Incoming' /\ Current'
<1>1. Series /\ Incoming /\ Current /\ Base /\ "crash" \notin Faults
  BY DEF AlikeHeld, AlikePromise
<1>2. UNCHANGED <<ctrl, near, tick, channel, shown, pending>> /\ engine.state = "playing"
  BY DEF EngineSteps, NearEnd, GaplessTransition, EndOfStream, Crash, ui, link
<1>3. Incoming'
  BY <1>1, <1>2 DEF Incoming
<1>4. CASE NearEnd
  <2>1. raised' = raised /\ BeginningShown
    BY <1>4 DEF NearEnd
  <2>2. /\ engine'.state = engine.state /\ engine'.track = engine.track /\ engine'.next = engine.next
        /\ engine'.ready = engine.ready
    BY <1>1, <1>4, WasTyped DEF NearEnd, Engines
  <2>3. Series'
    <3>1. engine'.ready => engine'.near
      BY <1>1, <1>4, <2>2 DEF Series, NearEnd
    <3>2. QED
      BY <1>1, <1>2, <2>1, <2>2, <3>1 DEF Series
  <2>4. ToPrepare(channel) = {}
    BY <2>1 DEF ToPrepare, PrepareAt, BeginningShown
  <2>5. Lag' = Lag /\ Upnext' = Upnext
    BY <1>2, <2>1 DEF Lag, Upnext
  <2>6. NearTheEnd'
    BY <1>2, <2>1, <2>4 DEF NearTheEnd, BeginningShown
  <2>7. Current'
    BY <1>1, <1>2, <2>1, <2>2, <2>5, <2>6 DEF Current, Once, Located, Prepared
  <2>8. QED
    BY <1>3, <2>3, <2>7
<1>5. CASE GaplessTransition
  <2>1. /\ engine.ready /\ engine.next # NoTrack /\ engine.next \in Tracks \cup {NoTrack}
        /\ engine' = Playing(engine.next) /\ raised' = [raised EXCEPT !.moved = engine.next] /\ raised \in Raised
    BY <1>1, <1>5, WasTyped DEF GaplessTransition
  <2>2. /\ engine'.state = "playing" /\ engine'.track = engine.next /\ engine'.next = NoTrack
        /\ ~engine'.near /\ ~engine'.ready
    BY <2>1, EnginesAre
  <2>3. raised'.moved # NoTrack /\ raised'.crashed = raised.crashed
    BY <2>1 DEF Raised
  <2>4. Series'
    BY <1>1, <1>2, <2>2, <2>3 DEF Series
  <2>5. ASSUME Final(channel, Moves) = None PROVE Once' /\ Located' /\ NearTheEnd' /\ Prepared'
    <3>1. NearTheEnd /\ Prepared /\ engine.near
      BY <1>1, <2>1, <2>5 DEF Current, Series
    <3>2. pending = {} /\ tick.events = {} /\ ToPrepare(channel) \subseteq {PeekNext(ctrl)}
      BY <3>1 DEF NearTheEnd
    <3>3. Lag' /\ Upnext' = {PeekNext(ctrl)}
      BY <1>2, <2>3 DEF Lag, Upnext
    <3>4. engine.next = CurrentTrack(NextTrack(ctrl))
      BY <2>1, <3>1 DEF Prepared
    <3>5. Once'
      BY <1>2, <3>2 DEF Once
    <3>6. Located'
      BY <1>2, <2>2, <3>3, <3>4 DEF Located
    <3>7. NearTheEnd'
      BY <2>2 DEF NearTheEnd
    <3>8. Prepared'
      BY <1>2, <2>2, <3>2, <3>3 DEF Prepared
    <3>9. QED
      BY <3>5, <3>6, <3>7, <3>8
  <2>6. Current'
    BY <1>2, <2>5 DEF Current
  <2>7. QED
    BY <1>3, <2>4, <2>6
<1>6. CASE EndOfStream
  <2>1. engine.ready /\ engine' = Off /\ raised' = [raised EXCEPT !.ended = TRUE] /\ raised \in Raised
    BY <1>1, <1>6, WasTyped DEF EndOfStream
  <2>2. engine'.state = "stopped" /\ ~engine'.near /\ ~engine'.ready
    BY <2>1, EnginesAre
  <2>3. raised'.moved = raised.moved /\ raised'.crashed = raised.crashed
    BY <2>1 DEF Raised
  <2>4. Series'
    BY <1>1, <1>2, <2>2, <2>3 DEF Series
  <2>5. Lag' = Lag
    BY <1>2, <2>3 DEF Lag
  <2>6. Upnext' = Upnext
    BY <1>2, <2>5 DEF Upnext
  <2>7. Current'
    BY <1>1, <1>2, <2>2, <2>3, <2>6 DEF Current, Once, Located, NearTheEnd, Prepared
  <2>8. QED
    BY <1>3, <2>4, <2>7
<1>7. ~Crash
  BY <1>1 DEF Crash
<1>8. QED
  BY <1>4, <1>5, <1>6, <1>7 DEF EngineSteps

LEMMA AlwaysAlike == Spec => [](Base /\ Calm /\ (AlikePromise => Series /\ Incoming /\ Current))
<1> DEFINE Held == AlikePromise => Series /\ Incoming /\ Current
<1>1. Init => Held
  <2> SUFFICES ASSUME Init PROVE Series /\ Incoming /\ Current
    OBVIOUS
  <2>1. /\ channel = <<>> /\ shown = NoSnapshot /\ pending = {} /\ engine = Off /\ raised = Nothing /\ tick = Idle
    BY DEF Init
  <2>2. Final(channel, Moves) = None /\ Sent(channel) = {} /\ ToPrepare(channel) = {}
    BY <2>1, EmptyChannel
  <2>3. engine.state = "stopped" /\ ~engine.near /\ ~engine.ready
    BY <2>1, EnginesAre
  <2>4. raised.moved = NoTrack /\ ~raised.crashed /\ tick.events = {}
    BY <2>1, SavedNow, IdleTyped
  <2>5. QED
    BY <2>1, <2>2, <2>3, <2>4 DEF Series, Incoming, Current, Once, Located, NearTheEnd, Prepared
<1>2. Base /\ Calm /\ Held /\ [Next]_vars => Held'
  <2> SUFFICES ASSUME Base, Calm, Held, [Next]_vars, AlikePromise' PROVE Series' /\ Incoming' /\ Current'
    OBVIOUS
  <2>1. AlikeHeld
    <3>1. AlikePromise
      BY SettingStays, AlikeKept
    <3>2. Quiet
      BY <3>1 DEF AlikePromise, Calm
    <3>3. QED
      BY <3>1, <3>2 DEF AlikeHeld
  <2>2. CASE User
    BY <2>1, <2>2, UserSteps, AlikeUser
  <2>3. CASE Tick
    BY <2>1, <2>3, AlikeTick
  <2>4. CASE Worker
    BY <2>1, <2>4, AlikeWorker
  <2>5. CASE EngineSteps
    BY <2>1, <2>5, AlikeEngine
  <2>6. CASE UNCHANGED vars
    <3>1. UNCHANGED <<ctrl, near, tick, channel, shown, pending, engine, raised>>
      BY <2>6 DEF vars, ui, link
    <3>2. Lag' = Lag /\ Upnext' = Upnext
      BY <3>1 DEF Lag, Upnext
    <3>3. Series' /\ Incoming'
      BY <2>1, <3>1 DEF AlikeHeld, Series, Incoming
    <3>4. Current'
      BY <2>1, <3>1, <3>2 DEF AlikeHeld, Current, Once, Located, NearTheEnd, Prepared
    <3>5. QED
      BY <3>3, <3>4
  <2>7. QED
    BY <2>2, <2>3, <2>4, <2>5, <2>6, NextCases
<1>3. QED
  BY <1>1, <1>2, AlwaysCalm, PTL DEF Spec

(* In step: whenever nothing is under way, the track that sounds is the    *)
(* one the queue shows as current, although the engine moves on by itself  *)
(* and the events that report it race with skips, ends and restarts        *)
(* (ui/tick.rs:760-765), for every queue whose tracks all have one layout  *)
(* and every one whose tracks all have different ones.                     *)
THEOREM InStepAlways == Spec => []InStep
<1>1. ASSUME Base, AlikePromise => Series /\ Incoming /\ Current,
             ApartPromise => NoGaps /\ Destined /\ Ended,
             Promised, Settled, engine.state \in {"playing", "paused"}
      PROVE  CurrentTrack(ctrl) = engine.track
  <2>1. Final(channel, Moves) = None
    BY <1>1, EmptyChannel DEF Settled
  <2>2. CASE AlikePromise
    <3>1. Series /\ Located
      BY <1>1, <2>1, <2>2 DEF Current
    <3>2. ~Lag
      BY <1>1, SavedNow DEF Settled, Lag, Base
    <3>3. engine.state = "playing"
      BY <1>1, <3>1 DEF Series
    <3>4. QED
      BY <3>1, <3>2, <3>3 DEF Located
  <2>3. CASE ApartPromise
    <3>1. Sounds /\ Live
      BY <1>1 DEF Sounds, Live
    <3>2. QED
      BY <1>1, <2>1, <2>3, <3>1 DEF Destined
  <2>4. QED
    BY <1>1, <2>2, <2>3 DEF Promised, AlikePromise, ApartPromise
<1>2. Base /\ Calm /\ (AlikePromise => Series /\ Incoming /\ Current)
        /\ (ApartPromise => NoGaps /\ Destined /\ Ended) => InStep
  BY <1>1 DEF InStep
<1>3. QED
  BY <1>2, AlwaysAlike, AlwaysApart, PTL
=============================================================================
