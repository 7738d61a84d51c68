-------------------------------- MODULE QueueLemmas --------------------------------
(***************************************************************************)
(* What the operators of QueueOps do to any queue: the facts the proofs of *)
(* the state machines that own a queue share.                              *)
(*                                                                         *)
(* Three layers.  First, every operation returns a queue of the same form  *)
(* (Formed): items of the same kind, a cursor and a selection that name    *)
(* items.  Second, the navigation operations leave the albums alone and    *)
(* keep something playing.  Third, the edits addressed by a row of the     *)
(* upcoming list (enqueue_next, remove_upcoming_track,                     *)
(* move_upcoming_track) do to the queue, read as one list of tracks,       *)
(* exactly what they say.                                                  *)
(*                                                                         *)
(* The list flattens two levels, albums and their tracks, and an edit may  *)
(* split an album on the way.  The argument of the third layer: list every *)
(* place (album, track) of the queue beside its track; the upcoming rows   *)
(* are the end of that list, from the cursor on (FlatIsHeardAndUpcoming);  *)
(* an edit that keeps the albums up to the cursor keeps what was heard     *)
(* (CursorKeptShows) and then the rest of the flat list is what is         *)
(* upcoming afterwards (DoesIt).                                           *)
(***************************************************************************)
EXTENDS QueueOps, SequencesExt, SequenceTheorems, WellFoundedInduction, TLAPS

(* Every non-empty set of naturals has a least member: the induction of    *)
(* this module takes a least counterexample.                               *)
LEMMA Least ==
  ASSUME NEW S, S \subseteq Nat, S # {}
  PROVE  \E n \in S : \A m \in S : n <= m
<1> DEFINE R == OpToRel(<, Nat)
<1>1. IsWellFoundedOn(R, Nat)
  BY NatLessThanWellFounded
<1>2. ASSUME NEW m \in Nat, NEW n \in Nat PROVE <<m, n>> \in R <=> m < n
  <2>1. <<m, n>>[1] < <<m, n>>[2] <=> m < n
    OBVIOUS
  <2>2. QED
    BY <2>1, Zenon DEF OpToRel
<1> HIDE DEF R
<1>3. PICK n \in S : \A m \in S : <<m, n>> \notin R
  BY <1>1, WFMin
<1>4. ASSUME NEW m \in S PROVE n <= m
  <2>1. ~(m < n)
    BY <1>2, <1>3
  <2>2. QED
    BY <2>1
<1>5. QED
  BY <1>4

LEMMA MinIs ==
  ASSUME NEW S, S \subseteq Nat, S # {}
  PROVE  Min(S) \in S /\ \A n \in S : Min(S) <= n
BY Least DEF Min

(* Concatenation, subsequences, and the elements of what InsertAt and      *)
(* RemoveAt return.                                                        *)
LEMMA Joined ==
  ASSUME NEW S, NEW s \in Seq(S), NEW t \in Seq(S)
  PROVE  /\ s \o t \in Seq(S)
         /\ Len(s) \in Nat /\ Len(t) \in Nat /\ Len(s \o t) = Len(s) + Len(t)
         /\ \A j \in 1..Len(s) : (s \o t)[j] = s[j]
         /\ \A j \in 1..Len(t) : (s \o t)[Len(s) + j] = t[j]
<1>1. Len(s) \in Nat /\ Len(t) \in Nat
  BY LenProperties
<1>2. /\ s \o t \in Seq(S) /\ Len(s \o t) = Len(s) + Len(t)
      /\ \A i \in 1..(Len(s) + Len(t)) : (s \o t)[i] = IF i <= Len(s) THEN s[i] ELSE t[i - Len(s)]
  BY ConcatProperties
<1>3. ASSUME NEW j \in 1..Len(s) PROVE (s \o t)[j] = s[j]
  BY <1>1, <1>2
<1>4. ASSUME NEW j \in 1..Len(t) PROVE (s \o t)[Len(s) + j] = t[j]
  <2>1. Len(s) + j \in 1..(Len(s) + Len(t)) /\ ~(Len(s) + j <= Len(s)) /\ (Len(s) + j) - Len(s) = j
    BY <1>1
  <2>2. QED
    BY <1>2, <2>1
<1>5. QED
  BY <1>1, <1>2, <1>3, <1>4

LEMMA JoinedAt ==
  ASSUME NEW S, NEW s \in Seq(S), NEW t \in Seq(S), NEW m, NEW n, m = Len(s), n = Len(t)
  PROVE  /\ s \o t \in Seq(S) /\ Len(s \o t) = m + n
         /\ \A j \in 1..m : (s \o t)[j] = s[j]
         /\ \A j \in 1..n : (s \o t)[m + j] = t[j]
BY Joined

LEMMA Piece ==
  ASSUME NEW S, NEW s \in Seq(S), NEW m \in 1..(Len(s) + 1), NEW n \in (m - 1)..Len(s)
  PROVE  /\ SubSeq(s, m, n) \in Seq(S)
         /\ Len(SubSeq(s, m, n)) = n - m + 1
         /\ \A j \in 1..(n - m + 1) : SubSeq(s, m, n)[j] = s[m + j - 1]
<1>1. Len(s) \in Nat /\ m \in Int /\ n \in Int
  BY LenProperties
<1>2. \A i \in m..n : s[i] \in S
  BY <1>1, ElementOfSeq
<1>3. /\ SubSeq(s, m, n) \in Seq(S)
      /\ Len(SubSeq(s, m, n)) = IF m <= n THEN n - m + 1 ELSE 0
      /\ \A i \in 1..(n - m + 1) : SubSeq(s, m, n)[i] = s[m + i - 1]
  BY <1>1, <1>2, SubSeqProperties
<1>4. (IF m <= n THEN n - m + 1 ELSE 0) = n - m + 1
  BY <1>1
<1>5. QED
  BY <1>3, <1>4

(* A sequence whose elements all lie in T is a sequence over T. *)
LEMMA SeqOver ==
  ASSUME NEW S, NEW T, NEW s \in Seq(S), \A i \in 1..Len(s) : s[i] \in T
  PROVE  s \in Seq(T)
<1>1. Len(s) \in Nat /\ s \in [1..Len(s) -> S]
  BY LenProperties
<1>2. s \in [1..Len(s) -> T]
  BY <1>1
<1>3. QED
  BY <1>1, <1>2

LEMMA Inserted ==
  ASSUME NEW S, NEW s \in Seq(S), NEW i \in 1..(Len(s) + 1), NEW e \in S
  PROVE  /\ InsertAt(s, i, e) \in Seq(S)
         /\ Len(InsertAt(s, i, e)) = Len(s) + 1
         /\ \A j \in 1..(i - 1) : InsertAt(s, i, e)[j] = s[j]
         /\ InsertAt(s, i, e)[i] = e
         /\ \A j \in i..Len(s) : InsertAt(s, i, e)[j + 1] = s[j]
<1> DEFINE front == SubSeq(s, 1, i - 1)
           most  == front \o <<e>>
           back  == SubSeq(s, i, Len(s))
<1>1. Len(s) \in Nat /\ i \in Nat /\ i >= 1
  BY LenProperties
<1>2. front \in Seq(S) /\ Len(front) = i - 1 /\ \A j \in 1..(i - 1) : front[j] = s[1 + j - 1]
  BY <1>1, Piece, 1 \in 1..(Len(s) + 1), i - 1 \in (1 - 1)..Len(s)
<1>3. /\ back \in Seq(S) /\ Len(back) = Len(s) - i + 1
      /\ \A j \in 1..(Len(s) - i + 1) : back[j] = s[i + j - 1]
  BY <1>1, Piece
<1>4. InsertAt(s, i, e) = most \o back
  BY DEF InsertAt
<1> HIDE DEF front, most, back
<1>5. /\ most \in Seq(S) /\ Len(most) = i /\ most[i] = e
      /\ \A j \in 1..(i - 1) : most[j] = s[j]
  <2> DEFINE one == <<e>>
             m == i - 1
  <2>1. one \in Seq(S) /\ 1 = Len(one) /\ one[1] = e /\ m + 1 = i
    BY <1>1
  <2>2. front \in Seq(S) /\ m = Len(front) /\ \A j \in 1..m : front[j] = s[1 + j - 1]
    BY <1>2
  <2>3. most = front \o one
    BY DEF most
  <2> HIDE DEF one, m
  <2>4. /\ front \o one \in Seq(S) /\ Len(front \o one) = Len(front) + Len(one)
        /\ \A j \in 1..Len(front) : (front \o one)[j] = front[j]
        /\ \A j \in 1..Len(one) : (front \o one)[Len(front) + j] = one[j]
    <3>1. front \in Seq(S) /\ one \in Seq(S)
      BY <2>1, <2>2
    <3>2. QED
      BY <3>1, Joined
  <2>5. ASSUME NEW j \in 1..m PROVE front[j] = s[j]
    BY <2>2, 1 + j - 1 = j
  <2>6. /\ most \in Seq(S) /\ Len(most) = i /\ most[i] = e
        /\ \A j \in 1..m : most[j] = s[j]
    BY <2>1, <2>2, <2>3, <2>4, <2>5, 1 \in 1..1
  <2>7. QED
    BY <2>6 DEF m
<1>6. /\ most \o back \in Seq(S) /\ Len(most \o back) = i + (Len(s) - i + 1)
      /\ \A j \in 1..i : (most \o back)[j] = most[j]
      /\ \A j \in 1..(Len(s) - i + 1) : (most \o back)[i + j] = back[j]
  BY <1>1, <1>3, <1>5, JoinedAt
<1>7. ASSUME NEW j \in i..Len(s) PROVE (most \o back)[j + 1] = s[j]
  <2>1. PICK k \in 1..(Len(s) - i + 1) : i + k = j + 1 /\ i + k - 1 = j
    BY <1>1, j - i + 1 \in 1..(Len(s) - i + 1)
  <2>2. (most \o back)[i + k] = back[k] /\ back[k] = s[i + k - 1]
    BY <1>3, <1>6, Zenon
  <2>3. QED
    BY <2>1, <2>2
<1>8. ASSUME NEW j \in 1..(i - 1) PROVE (most \o back)[j] = s[j]
  BY <1>1, <1>5, <1>6, j \in 1..i
<1>9. (most \o back)[i] = e
  BY <1>1, <1>5, <1>6, i \in 1..i
<1>10. i + (Len(s) - i + 1) = Len(s) + 1
  BY <1>1
<1>11. QED
  BY <1>4, <1>6, <1>7, <1>8, <1>9, <1>10

LEMMA Removed ==
  ASSUME NEW S, NEW s \in Seq(S), NEW i \in 1..Len(s)
  PROVE  /\ RemoveAt(s, i) \in Seq(S)
         /\ Len(RemoveAt(s, i)) = Len(s) - 1
         /\ \A j \in 1..(i - 1) : RemoveAt(s, i)[j] = s[j]
         /\ \A j \in i..(Len(s) - 1) : RemoveAt(s, i)[j] = s[j + 1]
<1> DEFINE front == SubSeq(s, 1, i - 1)
           back  == SubSeq(s, i + 1, Len(s))
<1>1. Len(s) \in Nat /\ i \in Nat /\ i >= 1
  BY LenProperties
<1>2. front \in Seq(S) /\ Len(front) = i - 1 /\ \A j \in 1..(i - 1) : front[j] = s[1 + j - 1]
  BY <1>1, Piece, 1 \in 1..(Len(s) + 1), i - 1 \in (1 - 1)..Len(s)
<1>3. /\ back \in Seq(S) /\ Len(back) = Len(s) - i
      /\ \A j \in 1..(Len(s) - i) : back[j] = s[i + j]
  <2>1. /\ back \in Seq(S) /\ Len(back) = Len(s) - (i + 1) + 1
        /\ \A j \in 1..(Len(s) - (i + 1) + 1) : back[j] = s[(i + 1) + j - 1]
    BY <1>1, Piece, i + 1 \in 1..(Len(s) + 1), Len(s) \in ((i + 1) - 1)..Len(s)
  <2>2. Len(s) - (i + 1) + 1 = Len(s) - i /\ \A j \in 1..(Len(s) - i) : (i + 1) + j - 1 = i + j
    BY <1>1
  <2>3. QED
    BY <2>1, <2>2
<1>4. RemoveAt(s, i) = front \o back
  BY DEF RemoveAt
<1> HIDE DEF front, back
<1> DEFINE m == i - 1
           n == Len(s) - i
<1>m. m \in Nat /\ n \in Nat /\ m = Len(front) /\ n = Len(back) /\ front \in Seq(S) /\ back \in Seq(S)
  BY <1>1, <1>2, <1>3
<1> HIDE DEF m, n
<1>n. /\ front \o back \in Seq(S) /\ Len(front \o back) = m + n
      /\ \A j \in 1..m : (front \o back)[j] = front[j]
      /\ \A j \in 1..n : (front \o back)[m + j] = back[j]
  BY <1>m, JoinedAt
<1>5. /\ front \o back \in Seq(S) /\ Len(front \o back) = (i - 1) + (Len(s) - i)
      /\ \A j \in 1..(i - 1) : (front \o back)[j] = front[j]
      /\ \A j \in 1..(Len(s) - i) : (front \o back)[(i - 1) + j] = back[j]
  BY <1>n DEF m, n
<1>6. ASSUME NEW j \in i..(Len(s) - 1) PROVE (front \o back)[j] = s[j + 1]
  <2>1. PICK k \in 1..(Len(s) - i) : (i - 1) + k = j /\ i + k = j + 1
    BY <1>1, j - i + 1 \in 1..(Len(s) - i)
  <2>2. (front \o back)[(i - 1) + k] = back[k] /\ back[k] = s[i + k]
    BY <1>3, <1>5, Zenon
  <2>3. QED
    BY <2>1, <2>2
<1>7. ASSUME NEW j \in 1..(i - 1) PROVE (front \o back)[j] = s[j]
  BY <1>1, <1>2, <1>5, 1 + j - 1 = j
<1>8. (i - 1) + (Len(s) - i) = Len(s) - 1
  BY <1>1
<1>9. QED
  BY <1>4, <1>5, <1>6, <1>7, <1>8

(* Putting back at i what was taken out at i. *)
LEMMA Restored ==
  ASSUME NEW S, NEW s \in Seq(S), NEW i \in 1..Len(s)
  PROVE  InsertAt(RemoveAt(s, i), i, s[i]) = s
<1> DEFINE r == RemoveAt(s, i)
           t == InsertAt(r, i, s[i])
<1>1. Len(s) \in Nat /\ i \in Nat /\ i >= 1 /\ i <= Len(s)
  BY LenProperties
<1>2. /\ r \in Seq(S) /\ Len(r) = Len(s) - 1
      /\ \A j \in 1..(i - 1) : r[j] = s[j]
      /\ \A j \in i..(Len(s) - 1) : r[j] = s[j + 1]
  BY Removed
<1> HIDE DEF r
<1>3. i \in 1..(Len(r) + 1) /\ s[i] \in S
  BY <1>1, <1>2, ElementOfSeq
<1>4. /\ t \in Seq(S) /\ Len(t) = Len(r) + 1
      /\ \A j \in 1..(i - 1) : t[j] = r[j]
      /\ t[i] = s[i]
      /\ \A j \in i..Len(r) : t[j + 1] = r[j]
  <2>1. r \in Seq(S)
    BY <1>2
  <2>2. QED
    BY <1>3, <2>1, Inserted
<1> HIDE DEF t
<1>5. ASSUME NEW j \in 1..Len(t) PROVE t[j] = s[j]
  <2>1. CASE j < i
    <3>1. j \in 1..(i - 1)
      BY <1>1, <2>1
    <3>2. QED
      BY <1>2, <1>4, <3>1
  <2>2. CASE j = i
    BY <1>4, <2>2
  <2>3. CASE j > i
    <3>1. PICK k \in i..Len(r) : k + 1 = j
      BY <1>1, <1>2, <1>4, <2>3, j - 1 \in i..Len(r), (j - 1) + 1 = j
    <3>2. k \in i..(Len(s) - 1)
      BY <1>2
    <3>3. t[k + 1] = r[k] /\ r[k] = s[k + 1]
      BY <1>2, <1>4, <3>2, Zenon
    <3>4. QED
      BY <3>1, <3>3
  <2>4. QED
    BY <1>1, <1>2, <1>4, <2>1, <2>2, <2>3
<1>6. Len(t) = Len(s)
  BY <1>1, <1>2, <1>4
<1>7. t = s
  BY <1>4, <1>5, <1>6, SeqEqual
<1>8. QED
  BY <1>7 DEF t, r

(* A sequence put into another, and a non-empty part of one. *)
LEMMA Spliced ==
  ASSUME NEW S, NEW s \in Seq(S), NEW t \in Seq(S), NEW i \in 1..(Len(s) + 1)
  PROVE  /\ SubSeq(s, 1, i - 1) \o t \o SubSeq(s, i, Len(s)) \in Seq(S)
         /\ Len(SubSeq(s, 1, i - 1) \o t \o SubSeq(s, i, Len(s))) = Len(s) + Len(t)
<1> DEFINE front == SubSeq(s, 1, i - 1)
           most  == front \o t
           back  == SubSeq(s, i, Len(s))
<1>1. Len(s) \in Nat /\ Len(t) \in Nat /\ i \in Nat /\ i >= 1
  BY LenProperties
<1>2. front \in Seq(S) /\ Len(front) = i - 1
  BY <1>1, Piece, 1 \in 1..(Len(s) + 1), i - 1 \in (1 - 1)..Len(s)
<1>3. back \in Seq(S) /\ Len(back) = Len(s) - i + 1
  BY <1>1, Piece
<1> HIDE DEF front, back
<1>4. most \in Seq(S) /\ Len(most) = Len(front) + Len(t)
  BY <1>2, Joined
<1> HIDE DEF most
<1>5. most \o back \in Seq(S) /\ Len(most \o back) = Len(most) + Len(back)
  BY <1>3, <1>4, Joined
<1>6. Len(most) + Len(back) = Len(s) + Len(t)
  BY <1>1, <1>2, <1>3, <1>4
<1>7. QED
  BY <1>5, <1>6 DEF most, front, back

LEMMA Cropped ==
  ASSUME NEW S, NEW s \in Seq(S), NEW m \in 1..Len(s), NEW n \in m..Len(s)
  PROVE  SubSeq(s, m, n) \in Seq(S) /\ SubSeq(s, m, n) # <<>>
<1>1. Len(s) \in Nat
  BY LenProperties
<1>2. SubSeq(s, m, n) \in Seq(S) /\ Len(SubSeq(s, m, n)) = n - m + 1
  BY <1>1, Piece, m \in 1..(Len(s) + 1), n \in (m - 1)..Len(s)
<1>3. n - m + 1 # 0
  BY <1>1
<1>4. QED
  BY <1>2, <1>3

-----------------------------------------------------------------------------
(* FlattenSeq is the last of the partial concatenations f[1], f[2], ...    *)
Partials(s, f, n) == f = [i \in 1..n |-> IF i = 1 THEN s[i] ELSE f[i - 1] \o s[i]]

(* The recursion FlattenSeq chooses a function by does define one. *)
LEMMA PartialsExist ==
  ASSUME NEW s, NEW n \in Nat
  PROVE  \E f : Partials(s, f, n)
<1> DEFINE T == {m \in Nat : ~\E f : Partials(s, f, m)}
<1> SUFFICES ASSUME T # {} PROVE FALSE
  OBVIOUS
<1>1. PICK k \in T : \A m \in T : k <= m
  <2> HIDE DEF T
  <2>1. T \subseteq Nat
    BY DEF T
  <2>2. QED
    BY <2>1, Least
<1>2. CASE k = 0
  <2> DEFINE f == [i \in 1..0 |-> s[i]]
  <2>1. Partials(s, f, 0)
    BY DEF Partials
  <2>2. QED
    BY <1>1, <1>2, <2>1
<1>3. CASE k > 0
  <2>1. PICK f : Partials(s, f, k - 1)
    BY <1>1, <1>3
  <2> DEFINE step == IF k = 1 THEN s[k] ELSE f[k - 1] \o s[k]
             g == [i \in 1..k |-> IF i = k THEN step ELSE f[i]]
  <2>2. Partials(s, g, k)
    <3>1. \A i \in 1..k - 1 : f[i] = IF i = 1 THEN s[i] ELSE f[i - 1] \o s[i]
      BY <2>1 DEF Partials
    <3> HIDE DEF step
    <3>2. ASSUME NEW i \in 1..k
          PROVE  (IF i = k THEN step ELSE f[i]) = IF i = 1 THEN s[i] ELSE g[i - 1] \o s[i]
      <4>1. CASE i = k
        BY <1>1, <4>1 DEF step
      <4>2. CASE i # k
        BY <1>1, <3>1, <4>2
      <4>3. QED
        BY <4>1, <4>2
    <3>3. QED
      BY <3>2 DEF Partials
  <2>3. QED
    BY <1>1, <2>2
<1>4. QED
  BY <1>1, <1>2, <1>3

LEMMA FlattenIs ==
  ASSUME NEW S, NEW s \in Seq(S), Len(s) # 0
  PROVE  \E f : Partials(s, f, Len(s)) /\ FlattenSeq(s) = f[Len(s)]
<1>1. Len(s) \in Nat
  BY LenProperties
<1> DEFINE f == CHOOSE g : Partials(s, g, Len(s))
<1>2. Partials(s, f, Len(s))
  BY <1>1, PartialsExist
<1>3. FlattenSeq(s) = f[Len(s)]
  BY DEF FlattenSeq, Partials
<1>4. QED
  BY <1>2, <1>3

(* Flattening sequences over A gives a sequence over A. *)
LEMMA FlattenType ==
  ASSUME NEW A, NEW s \in Seq(Seq(A))
  PROVE  FlattenSeq(s) \in Seq(A)
<1>1. CASE Len(s) = 0
  BY <1>1 DEF FlattenSeq
<1>2. CASE Len(s) # 0
  <2>1. PICK f : Partials(s, f, Len(s)) /\ FlattenSeq(s) = f[Len(s)]
    BY <1>2, FlattenIs
  <2> DEFINE T == {m \in Nat : m \in 1..Len(s) /\ f[m] \notin Seq(A)}
  <2>2. ASSUME T # {} PROVE FALSE
    <3>1. PICK k \in T : \A m \in T : k <= m
      <4> HIDE DEF T
      <4>1. T \subseteq Nat
        BY DEF T
      <4>2. QED
        BY <2>2, <4>1, Least
    <3>2. f[k] = IF k = 1 THEN s[k] ELSE f[k - 1] \o s[k]
      BY <2>1, <3>1 DEF Partials
    <3>3. s[k] \in Seq(A)
      BY <3>1, ElementOfSeq
    <3>4. k # 1 => f[k - 1] \in Seq(A)
      BY <3>1
    <3>5. f[k] \in Seq(A)
      <4>1. k # 1 => f[k - 1] \o s[k] \in Seq(A)
        BY <3>3, <3>4, Joined
      <4>2. QED
        BY <3>2, <3>3, <4>1
    <3>6. QED
      BY <3>1, <3>5
  <2>3. QED
    BY <1>2, <2>1, <2>2, LenProperties
<1>3. QED
  BY <1>1, <1>2

(* Its first element is that of the first part, or of the second when the  *)
(* first is empty.                                                         *)
LEMMA FlattenHead ==
  ASSUME NEW A, NEW s \in Seq(Seq(A)), NEW k \in 1..Len(s), k <= 2,
         s[k] # <<>>, k = 2 => s[1] = <<>>
  PROVE  FlattenSeq(s) # <<>> /\ FlattenSeq(s)[1] = s[k][1]
<1>1. Len(s) \in Nat /\ Len(s) # 0 /\ k \in Nat /\ k \in {1, 2}
  BY LenProperties
<1>2. PICK f : Partials(s, f, Len(s)) /\ FlattenSeq(s) = f[Len(s)]
  BY <1>1, FlattenIs
<1>3. \A i \in 1..Len(s) : f[i] = IF i = 1 THEN s[i] ELSE f[i - 1] \o s[i]
  BY <1>2 DEF Partials
<1>4. \A i \in 1..Len(s) : s[i] \in Seq(A)
  BY ElementOfSeq
<1>5. f[k] = s[k]
  <2>1. CASE k = 1
    BY <1>3, <2>1
  <2>2. CASE k = 2
    <3> 1 \in 1..Len(s) /\ 2 \in 1..Len(s) /\ 2 # 1 /\ 2 - 1 = 1
      BY <1>1, <2>2
    <3>1. f[1] = s[1] /\ f[2] = f[1] \o s[2] /\ s[1] = <<>>
      BY <1>3, <2>2
    <3>2. <<>> \o s[2] = s[2]
      BY <1>4, <2>2, ConcatEmptySeq
    <3>3. QED
      BY <2>2, <3>1, <3>2
  <2>3. QED
    BY <1>1, <2>1, <2>2
<1> DEFINE Headed(m) == f[m] \in Seq(A) /\ f[m] # <<>> /\ f[m][1] = s[k][1]
           T == {m \in Nat : m \in k..Len(s) /\ ~Headed(m)}
<1>6. ASSUME T # {} PROVE FALSE
  <2>1. PICK m \in T : \A j \in T : m <= j
    <3> HIDE DEF T
    <3>1. T \subseteq Nat
      BY DEF T
    <3>2. QED
      BY <1>6, <3>1, Least
  <2>2. m # k
    BY <1>4, <1>5, <2>1
  <2>3. m - 1 \in k..Len(s) /\ m - 1 \in Nat /\ m \in 1..Len(s) /\ m # 1
    BY <1>1, <2>1, <2>2
  <2>4. Headed(m - 1)
    BY <2>1, <2>3
  <2>5. f[m] = f[m - 1] \o s[m] /\ s[m] \in Seq(A)
    BY <1>3, <1>4, <2>3
  <2> DEFINE g == f[m - 1]
  <2>6. g \in Seq(A) /\ g # <<>> /\ g[1] = s[k][1] /\ f[m] = g \o s[m]
    BY <2>4, <2>5
  <2> HIDE DEF g
  <2>7. 1 \in 1..Len(g)
    BY <2>6, EmptySeq, LenProperties
  <2>8. /\ g \o s[m] \in Seq(A) /\ (g \o s[m])[1] = g[1]
        /\ Len(g) \in Nat /\ Len(s[m]) \in Nat /\ Len(g \o s[m]) = Len(g) + Len(s[m])
    BY <2>5, <2>6, <2>7, Joined
  <2>9. g \o s[m] # <<>>
    BY <2>7, <2>8, EmptySeq
  <2>10. Headed(m)
    BY <2>6, <2>8, <2>9
  <2>11. QED
    BY <2>1, <2>10
<1>7. Headed(Len(s))
  <2>1. Len(s) \in k..Len(s)
    BY <1>1
  <2> HIDE DEF Headed
  <2>2. QED
    BY <1>1, <1>6, <2>1
<1>8. QED
  BY <1>2, <1>7

-----------------------------------------------------------------------------
LEMMA PartialsStep ==
  ASSUME NEW s, NEW n, NEW f, Partials(s, f, n), NEW k \in 1..n
  PROVE  f[k] = IF k = 1 THEN s[k] ELSE f[k - 1] \o s[k]
BY DEF Partials

(* Two lists that begin alike have the same partial concatenations.        *)
SameUpTo(s, t, n) == \A i \in 1..n : s[i] = t[i]

LEMMA PartialsAgree ==
  ASSUME NEW s, NEW t, NEW m \in Nat, NEW n \in Nat, m <= n, SameUpTo(s, t, m),
         NEW f, NEW g, Partials(s, f, m), Partials(t, g, n), NEW k \in 1..m
  PROVE  f[k] = g[k]
<1> DEFINE T == {i \in Nat : i \in 1..m /\ f[i] # g[i]}
<1>1. ASSUME T # {} PROVE FALSE
  <2>1. PICK j \in T : \A i \in T : j <= i
    <3> HIDE DEF T
    <3>1. T \subseteq Nat
      BY DEF T
    <3>2. QED
      BY <1>1, <3>1, Least
  <2>2. /\ j \in 1..m /\ f[j] # g[j] /\ s[j] = t[j]
        /\ j # 1 => f[j - 1] = g[j - 1]
    BY <2>1 DEF SameUpTo
  <2>3. f[j] = IF j = 1 THEN s[j] ELSE f[j - 1] \o s[j]
    BY <2>2, PartialsStep
  <2>4. g[j] = IF j = 1 THEN t[j] ELSE g[j - 1] \o t[j]
    BY <2>2, PartialsStep, j \in 1..n
  <2>5. QED
    BY <2>2, <2>3, <2>4
<1>2. QED
  BY <1>1

LEMMA FlattenPrefix ==
  ASSUME NEW S, NEW s \in Seq(S), NEW t \in Seq(S), Len(s) # 0, Len(s) <= Len(t), SameUpTo(s, t, Len(s)),
         NEW g, Partials(t, g, Len(t))
  PROVE  g[Len(s)] = FlattenSeq(s)
<1>1. Len(s) \in Nat /\ Len(t) \in Nat /\ Len(s) \in 1..Len(s)
  BY LenProperties
<1>2. PICK f : Partials(s, f, Len(s)) /\ FlattenSeq(s) = f[Len(s)]
  BY FlattenIs
<1>3. f[Len(s)] = g[Len(s)]
  BY <1>1, <1>2, PartialsAgree
<1>4. QED
  BY <1>2, <1>3

LEMMA Regrouped ==
  ASSUME NEW S, NEW s, NEW t, NEW u, s \in Seq(S), t \in Seq(S), u \in Seq(S)
  PROVE  (s \o t) \o u = s \o (t \o u)
BY ConcatAssociative

LEMMA FlattenNone == FlattenSeq(<<>>) = <<>>
BY DEF FlattenSeq

LEMMA FlattenSnoc ==
  ASSUME NEW A, NEW s \in Seq(Seq(A)), NEW x \in Seq(A)
  PROVE  FlattenSeq(Append(s, x)) = FlattenSeq(s) \o x
<1> DEFINE t == Append(s, x)
<1> SUFFICES FlattenSeq(t) = FlattenSeq(s) \o x
  OBVIOUS
<1>1. /\ t \in Seq(Seq(A)) /\ Len(t) = Len(s) + 1 /\ t[Len(s) + 1] = x /\ Len(s) \in Nat
      /\ \A i \in 1..Len(s) : t[i] = s[i]
  BY AppendProperties, LenProperties
<1> HIDE DEF t
<1>2. PICK g : Partials(t, g, Len(t)) /\ FlattenSeq(t) = g[Len(t)]
  <2>1. Len(t) # 0
    BY <1>1
  <2>2. QED
    BY <1>1, <2>1, FlattenIs
<1>3. g[Len(s) + 1] = IF Len(s) + 1 = 1 THEN t[Len(s) + 1] ELSE g[Len(s) + 1 - 1] \o t[Len(s) + 1]
  BY <1>1, <1>2, PartialsStep, Len(s) + 1 \in 1..Len(t)
<1>4. CASE Len(s) = 0
  <2>1. s = <<>> /\ FlattenSeq(s) = <<>> /\ <<>> \o x = x
    BY <1>4, EmptySeq, FlattenNone, ConcatEmptySeq
  <2>2. FlattenSeq(t) = x
    BY <1>1, <1>2, <1>3, <1>4
  <2>3. FlattenSeq(s) \o x = x
    BY <2>1
  <2>4. QED
    BY <2>2, <2>3
<1>5. CASE Len(s) # 0
  <2>1. g[Len(s)] = FlattenSeq(s)
    <3>1. Len(s) <= Len(t) /\ SameUpTo(s, t, Len(s))
      BY <1>1 DEF SameUpTo
    <3>2. QED
      BY <1>1, <1>2, <1>5, <3>1, FlattenPrefix
  <2>2. g[Len(s) + 1] = g[Len(s)] \o x
    BY <1>1, <1>3, <1>5
  <2>3. QED
    BY <1>1, <1>2, <2>1, <2>2
<1>6. QED
  BY <1>4, <1>5

LEMMA FlattenOne ==
  ASSUME NEW A, NEW x \in Seq(A)
  PROVE  FlattenSeq(<<x>>) = x
<1>1. <<>> \in Seq(Seq(A)) /\ Append(<<>>, x) = <<x>> /\ <<>> \o x = x
  BY ConcatEmptySeq
<1>2. QED
  BY <1>1, FlattenSnoc, FlattenNone

(* Flattening goes through concatenation. *)
LEMMA FlattenConcat ==
  ASSUME NEW A, NEW s \in Seq(Seq(A)), NEW t \in Seq(Seq(A))
  PROVE  FlattenSeq(s \o t) = FlattenSeq(s) \o FlattenSeq(t)
<1> DEFINE part(n) == SubSeq(t, 1, n)
           T == {n \in Nat : n <= Len(t) /\ FlattenSeq(s \o part(n)) # FlattenSeq(s) \o FlattenSeq(part(n))}
<1>1. Len(t) \in Nat /\ part(Len(t)) = t
  BY LenProperties, SubSeqFull
<1>2. FlattenSeq(s) \in Seq(A)
  BY FlattenType
<1>3. ASSUME T # {} PROVE FALSE
  <2>1. PICK n \in T : \A m \in T : n <= m
    <3> HIDE DEF T
    <3>1. T \subseteq Nat
      BY DEF T
    <3>2. QED
      BY <1>3, <3>1, Least
  <2>2. CASE n = 0
    <3>1. part(n) = <<>>
      BY <2>2, SubSeqEmpty
    <3>2. s \o part(n) = s /\ FlattenSeq(part(n)) = <<>> /\ FlattenSeq(s) \o <<>> = FlattenSeq(s)
      BY <1>2, <3>1, FlattenNone, ConcatEmptySeq
    <3>3. QED
      BY <2>1, <3>2
  <2>3. CASE n # 0
    <3> DEFINE p == part(n - 1)
               x == t[n]
    <3>1. n \in 1..Len(t) /\ n - 1 \in Nat /\ n - 1 <= Len(t)
      BY <1>1, <2>1, <2>3
    <3>2. x \in Seq(A)
      BY <3>1, ElementOfSeq
    <3>3. p \in Seq(Seq(A))
      BY <1>1, <3>1, Piece, 1 \in 1..(Len(t) + 1), n - 1 \in (1 - 1)..Len(t)
    <3>4. part(n) = p \o <<x>>
      BY <1>1, <3>1, SubSeqRecursiveSecond, 1 \in 1..Len(t), n \in 1..Len(t)
    <3>5. FlattenSeq(s \o p) = FlattenSeq(s) \o FlattenSeq(p)
      BY <2>1, <3>1
    <3> HIDE DEF p, x
    <3>6. part(n) = Append(p, x)
      BY <3>2, <3>3, <3>4, AppendIsConcat
    <3>7. s \o p \in Seq(Seq(A)) /\ s \o part(n) = Append(s \o p, x)
      <4>1. s \o p \in Seq(Seq(A)) /\ <<x>> \in Seq(Seq(A))
        BY <3>2, <3>3, Joined
      <4>2. s \o (p \o <<x>>) = (s \o p) \o <<x>>
        BY <3>3, <4>1, Regrouped
      <4>3. QED
        BY <3>2, <3>4, <4>1, <4>2, AppendIsConcat
    <3>8. FlattenSeq(s \o part(n)) = FlattenSeq(s \o p) \o x
      BY <3>2, <3>7, FlattenSnoc
    <3>9. FlattenSeq(part(n)) = FlattenSeq(p) \o x
      BY <3>2, <3>3, <3>6, FlattenSnoc
    <3>10. (FlattenSeq(s) \o FlattenSeq(p)) \o x = FlattenSeq(s) \o (FlattenSeq(p) \o x)
      <4>1. FlattenSeq(p) \in Seq(A)
        BY <3>3, FlattenType
      <4>2. QED
        BY <1>2, <3>2, <4>1, Regrouped
    <3>11. QED
      BY <2>1, <3>5, <3>8, <3>9, <3>10
  <2>4. QED
    BY <2>2, <2>3
<1>4. QED
  <2>1. Len(t) \notin T
    BY <1>3
  <2>2. FlattenSeq(s \o part(Len(t))) = FlattenSeq(s) \o FlattenSeq(part(Len(t)))
    BY <1>1, <2>1
  <2> HIDE DEF part
  <2>3. QED
    BY <1>1, <2>2

(* Every place of the flattened list is a place of one of its parts.       *)
LEMMA FlattenPlace ==
  ASSUME NEW A, NEW s \in Seq(Seq(A)), NEW r \in 1..Len(FlattenSeq(s))
  PROVE  \E i \in 1..Len(s) : \E k \in 1..Len(s[i]) :
           /\ r = Len(FlattenSeq(SubSeq(s, 1, i - 1))) + k
           /\ FlattenSeq(s)[r] = s[i][k]
<1> DEFINE f(n) == FlattenSeq(SubSeq(s, 1, n))
           T == {n \in Nat : n <= Len(s) /\ r <= Len(f(n))}
<1>1. Len(s) \in Nat /\ f(Len(s)) = FlattenSeq(s)
  BY LenProperties, SubSeqFull
<1>2. FlattenSeq(s) \in Seq(A) /\ Len(FlattenSeq(s)) \in Nat
  BY FlattenType, LenProperties
<1>3. PICK i \in T : \A n \in T : i <= n
  <2>1. Len(s) \in T
    BY <1>1, <1>2
  <2>2. T \subseteq Nat
    OBVIOUS
  <2> HIDE DEF T
  <2>3. QED
    BY <2>1, <2>2, Least
<1>4. i \in Nat /\ i <= Len(s) /\ r <= Len(f(i))
  BY <1>3
<1>5. i # 0
  <2>1. SubSeq(s, 1, 0) = <<>>
    BY SubSeqEmpty
  <2>2. f(0) = <<>> /\ Len(<<>>) = 0
    BY <2>1, FlattenNone
  <2>3. QED
    BY <1>2, <1>4, <2>2
<1>6. i \in 1..Len(s) /\ i - 1 \in Nat /\ i - 1 <= Len(s) /\ s[i] \in Seq(A)
  BY <1>1, <1>4, <1>5, ElementOfSeq
<1> DEFINE p == SubSeq(s, 1, i - 1)
           q == SubSeq(s, i + 1, Len(s))
<1>7. p \in Seq(Seq(A)) /\ q \in Seq(Seq(A))
  BY <1>1, <1>6, Piece, 1 \in 1..(Len(s) + 1), i - 1 \in (1 - 1)..Len(s), i + 1 \in 1..(Len(s) + 1),
     Len(s) \in (i + 1 - 1)..Len(s)
<1>8. SubSeq(s, 1, i) = Append(p, s[i])
  BY <1>1, <1>6, <1>7, SubSeqRecursiveSecond, AppendIsConcat, 1 \in 1..Len(s), i \in 1..Len(s)
<1>9. SubSeq(s, 1, i) \o q = s
  BY <1>1, <1>6, ConcatAdjacentSubSeq, SubSeqFull, 1 \in 1..(Len(s) + 1), i \in (1 - 1)..Len(s), Len(s) \in i..Len(s)
<1> HIDE DEF p, q
<1>10. Append(p, s[i]) \in Seq(Seq(A))
  BY <1>6, <1>7, AppendProperties
<1>11. f(i) = FlattenSeq(p) \o s[i] /\ FlattenSeq(s) = f(i) \o FlattenSeq(q)
  <2>1. f(i) = FlattenSeq(p) \o s[i]
    BY <1>6, <1>7, <1>8, FlattenSnoc
  <2>2. FlattenSeq(SubSeq(s, 1, i) \o q) = f(i) \o FlattenSeq(q)
    BY <1>7, <1>8, <1>10, FlattenConcat
  <2>3. QED
    BY <1>9, <2>1, <2>2
<1> DEFINE a == FlattenSeq(p)
<1>12. a \in Seq(A) /\ FlattenSeq(q) \in Seq(A)
  BY <1>7, FlattenType
<1>13. i - 1 \notin T
  BY <1>3, <1>6
<1>14. a = f(i - 1)
  BY DEF p
<1> HIDE DEF a, f
<1>15. Len(a) \in Nat /\ Len(s[i]) \in Nat /\ Len(a) < r /\ r <= Len(a) + Len(s[i])
  <2>1. Len(a) \in Nat /\ Len(s[i]) \in Nat /\ Len(f(i)) = Len(a) + Len(s[i])
    BY <1>6, <1>11, <1>12, Joined DEF a
  <2>2. ~(r <= Len(a))
    BY <1>6, <1>13, <1>14
  <2>3. QED
    BY <1>2, <1>4, <2>1, <2>2
<1> DEFINE k == r - Len(a)
<1>16. k \in 1..Len(s[i]) /\ r = Len(a) + k
  BY <1>2, <1>15
<1> HIDE DEF k
<1>17. FlattenSeq(s)[r] = s[i][k]
  <2>1. f(i) \in Seq(A) /\ Len(f(i)) = Len(a) + Len(s[i]) /\ f(i)[Len(a) + k] = s[i][k]
    BY <1>6, <1>11, <1>12, <1>16, Joined DEF a
  <2>2. (f(i) \o FlattenSeq(q))[r] = f(i)[r]
    BY <1>12, <1>15, <1>16, <2>1, Joined
  <2>3. QED
    BY <1>11, <1>16, <2>1, <2>2
<1>18. QED
  BY <1>6, <1>16, <1>17 DEF a, p

(* Two lists whose parts correspond flatten to lists that correspond.      *)
LEMMA FlattenRelated ==
  ASSUME NEW A, NEW B, NEW s \in Seq(Seq(A)), NEW t \in Seq(Seq(B)), NEW R, Len(s) = Len(t),
         \A i \in 1..Len(s) : Len(s[i]) = Len(t[i]) /\ \A k \in 1..Len(s[i]) : <<s[i][k], t[i][k]>> \in R
  PROVE  /\ Len(FlattenSeq(s)) = Len(FlattenSeq(t))
         /\ \A r \in 1..Len(FlattenSeq(s)) : <<FlattenSeq(s)[r], FlattenSeq(t)[r]>> \in R
<1> DEFINE Alike(f, g) == /\ f \in Seq(A) /\ g \in Seq(B) /\ Len(f) = Len(g)
                          /\ \A r \in 1..Len(f) : <<f[r], g[r]>> \in R
<1>1. Len(s) \in Nat
  BY LenProperties
<1>2. \A i \in 1..Len(s) : Alike(s[i], t[i])
  BY ElementOfSeq
<1>3. ASSUME NEW f, NEW g, NEW x, NEW y, Alike(f, g), Alike(x, y) PROVE Alike(f \o x, g \o y)
  <2>1. /\ f \o x \in Seq(A) /\ Len(f) \in Nat /\ Len(x) \in Nat /\ Len(f \o x) = Len(f) + Len(x)
        /\ \A j \in 1..Len(f) : (f \o x)[j] = f[j]
        /\ \A j \in 1..Len(x) : (f \o x)[Len(f) + j] = x[j]
    <3>1. f \in Seq(A) /\ x \in Seq(A)
      BY <1>3
    <3> HIDE DEF Alike
    <3>2. QED
      BY <3>1, Joined
  <2>2. /\ g \o y \in Seq(B) /\ Len(g \o y) = Len(f) + Len(x)
        /\ \A j \in 1..Len(f) : (g \o y)[j] = g[j]
        /\ \A j \in 1..Len(x) : (g \o y)[Len(f) + j] = y[j]
    BY <1>3, JoinedAt
  <2>3. ASSUME NEW r \in 1..(Len(f) + Len(x)) PROVE <<(f \o x)[r], (g \o y)[r]>> \in R
    <3>1. CASE r <= Len(f)
      <4>1. r \in 1..Len(f)
        BY <2>1, <3>1
      <4>2. QED
        BY <1>3, <2>1, <2>2, <4>1
    <3>2. CASE ~(r <= Len(f))
      <4>1. PICK j \in 1..Len(x) : r = Len(f) + j
        BY <2>1, <3>2, r - Len(f) \in 1..Len(x), r = Len(f) + (r - Len(f))
      <4>2. QED
        BY <1>3, <2>1, <2>2, <4>1
    <3>3. QED
      BY <2>1, <3>1, <3>2
  <2>4. QED
    BY <2>1, <2>2, <2>3
<1> HIDE DEF Alike
<1>4. CASE Len(s) = 0
  <2>1. s = <<>> /\ t = <<>>
    BY <1>4, EmptySeq
  <2>2. Len(FlattenSeq(s)) = 0 /\ Len(FlattenSeq(t)) = 0
    BY <2>1, FlattenNone
  <2>3. QED
    BY <2>2
<1>5. CASE Len(s) # 0
  <2>1. PICK f : Partials(s, f, Len(s)) /\ FlattenSeq(s) = f[Len(s)]
    BY <1>5, FlattenIs
  <2>2. PICK g : Partials(t, g, Len(t)) /\ FlattenSeq(t) = g[Len(t)]
    BY <1>5, FlattenIs
  <2> DEFINE T == {n \in Nat : n \in 1..Len(s) /\ ~Alike(f[n], g[n])}
  <2>3. ASSUME T # {} PROVE FALSE
    <3>1. PICK n \in T : \A m \in T : n <= m
      <4> HIDE DEF T
      <4>1. T \subseteq Nat
        BY DEF T
      <4>2. QED
        BY <2>3, <4>1, Least
    <3>2. n \in 1..Len(s) /\ ~Alike(f[n], g[n]) /\ (n # 1 => Alike(f[n - 1], g[n - 1]))
      BY <1>1, <3>1
    <3> DEFINE l == Len(s)
    <3>8. n \in 1..l /\ Partials(s, f, l) /\ Partials(t, g, l)
      BY <2>1, <2>2, <3>2
    <3> HIDE DEF l, T
    <3>3. f[n] = (IF n = 1 THEN s[n] ELSE f[n - 1] \o s[n])
      BY <3>8, PartialsStep
    <3>4. g[n] = (IF n = 1 THEN t[n] ELSE g[n - 1] \o t[n])
      BY <3>8, PartialsStep
    <3>5. CASE n = 1
      BY <1>2, <3>2, <3>3, <3>4, <3>5
    <3>6. CASE n # 1
      <4>1. Alike(f[n - 1] \o s[n], g[n - 1] \o t[n])
        BY <1>2, <1>3, <3>2, <3>6
      <4>2. QED
        BY <3>2, <3>3, <3>4, <3>6, <4>1
    <3>7. QED
      BY <3>5, <3>6
  <2>4. Alike(f[Len(s)], g[Len(s)])
    <3>1. Len(s) \in 1..Len(s) /\ Len(s) \notin T
      BY <1>1, <1>5, <2>3
    <3>2. QED
      BY <1>1, <3>1
  <2>5. QED
    BY <2>1, <2>2, <2>4 DEF Alike
<1>6. QED
  BY <1>4, <1>5

-----------------------------------------------------------------------------
(* Edits inside the flattened list, and of the lists it is made of.        *)

(* An element taken out of, or put into, one of two parts. *)

LEMMA LaterRemoved ==
  ASSUME NEW S, NEW s \in Seq(S), NEW t \in Seq(S), NEW k \in 1..Len(t)
  PROVE  RemoveAt(s \o t, Len(s) + k) = s \o RemoveAt(t, k)
<1> DEFINE both == s \o t
           r == RemoveAt(t, k)
           m == Len(s)
           n == Len(t)
           p == m + k
           left == RemoveAt(both, p)
           right == s \o r
<1>1. /\ both \in Seq(S) /\ m \in Nat /\ n \in Nat /\ Len(both) = m + n
      /\ \A j \in 1..m : both[j] = s[j]
      /\ \A j \in 1..n : both[m + j] = t[j]
  BY Joined
<1>2. /\ r \in Seq(S) /\ Len(r) = n - 1
      /\ \A j \in 1..(k - 1) : r[j] = t[j]
      /\ \A j \in k..(n - 1) : r[j] = t[j + 1]
  BY Removed
<1>3. k \in Nat /\ k >= 1 /\ k <= n
  BY <1>1
<1> HIDE DEF both, r
<1>4. /\ left \in Seq(S) /\ Len(left) = m + n - 1
      /\ \A j \in 1..(m + k - 1) : left[j] = both[j]
      /\ \A j \in (m + k)..(m + n - 1) : left[j] = both[j + 1]
  <2>1. p \in 1..Len(both)
    BY <1>1, <1>3
  <2> HIDE DEF m, n, p
  <2>2. /\ left \in Seq(S) /\ Len(left) = Len(both) - 1
        /\ \A j \in 1..(p - 1) : left[j] = both[j]
        /\ \A j \in p..(Len(both) - 1) : left[j] = both[j + 1]
    <3>1. both \in Seq(S)
      BY <1>1
    <3>2. QED
      BY <2>1, <3>1, Removed
  <2> HIDE DEF left
  <2>3. QED
    BY <1>1, <2>2 DEF p
<1>5. /\ right \in Seq(S) /\ Len(right) = m + (n - 1)
      /\ \A j \in 1..m : right[j] = s[j]
      /\ \A j \in 1..(n - 1) : right[m + j] = r[j]
  <2>1. /\ right \in Seq(S) /\ Len(right) = Len(s) + Len(r)
        /\ \A j \in 1..Len(s) : right[j] = s[j]
        /\ \A j \in 1..Len(r) : right[Len(s) + j] = r[j]
    <3>1. r \in Seq(S)
      BY <1>2
    <3>2. QED
      BY <3>1, Joined
  <2> HIDE DEF right
  <2>2. QED
    BY <1>2, <2>1
<1> HIDE DEF left, right, m, n, p
<1>6. ASSUME NEW j \in 1..(m + n - 1) PROVE left[j] = right[j]
  <2>1. CASE j <= m
    <3>1. j \in 1..m /\ j \in 1..(m + k - 1)
      BY <1>1, <1>3, <2>1
    <3>2. QED
      BY <1>1, <1>4, <1>5, <3>1
  <2>2. CASE j > m /\ j < m + k
    <3>1. PICK i \in 1..(k - 1) : j = m + i
      BY <1>1, <1>3, <2>2, j - m \in 1..(k - 1), j = m + (j - m)
    <3>2. i \in 1..n /\ i \in 1..(n - 1) /\ j \in 1..(m + k - 1)
      BY <1>1, <1>3, <2>2
    <3>3. QED
      BY <1>1, <1>2, <1>4, <1>5, <3>1, <3>2
  <2>3. CASE j >= m + k
    <3>1. PICK i \in k..(n - 1) : j = m + i
      BY <1>1, <1>3, <2>3, j - m \in k..(n - 1), j = m + (j - m)
    <3>2. i + 1 \in 1..n /\ i \in 1..(n - 1) /\ j \in (m + k)..(m + n - 1) /\ j + 1 = m + (i + 1)
      BY <1>1, <1>3, <2>3, <3>1
    <3>3. left[j] = both[m + (i + 1)] /\ both[m + (i + 1)] = t[i + 1]
      BY <1>1, <1>4, <3>2
    <3>4. right[m + i] = r[i] /\ r[i] = t[i + 1]
      BY <1>2, <1>5, <3>1, <3>2
    <3>5. QED
      BY <3>1, <3>3, <3>4
  <2>4. QED
    BY <1>1, <1>3, <2>1, <2>2, <2>3
<1>7. left = right
  BY <1>1, <1>4, <1>5, <1>6, SeqEqual
<1>8. QED
  BY <1>7 DEF left, right, both, r, m, p

LEMMA EarlierRemoved ==
  ASSUME NEW S, NEW s \in Seq(S), NEW t \in Seq(S), NEW k \in 1..Len(s)
  PROVE  RemoveAt(s \o t, k) = RemoveAt(s, k) \o t
<1> DEFINE both == s \o t
           r == RemoveAt(s, k)
           m == Len(s)
           n == Len(t)
           left == RemoveAt(both, k)
           right == r \o t
<1>1. /\ both \in Seq(S) /\ m \in Nat /\ n \in Nat /\ Len(both) = m + n
      /\ \A j \in 1..m : both[j] = s[j]
      /\ \A j \in 1..n : both[m + j] = t[j]
  BY Joined
<1>2. /\ r \in Seq(S) /\ Len(r) = m - 1
      /\ \A j \in 1..(k - 1) : r[j] = s[j]
      /\ \A j \in k..(m - 1) : r[j] = s[j + 1]
  BY Removed
<1>3. k \in Nat /\ k >= 1 /\ k <= m
  BY <1>1
<1> HIDE DEF both, r
<1>4. /\ left \in Seq(S) /\ Len(left) = m + n - 1
      /\ \A j \in 1..(k - 1) : left[j] = both[j]
      /\ \A j \in k..(m + n - 1) : left[j] = both[j + 1]
  <2>1. k \in 1..Len(both)
    BY <1>1, <1>3
  <2> HIDE DEF m, n
  <2>2. /\ left \in Seq(S) /\ Len(left) = Len(both) - 1
        /\ \A j \in 1..(k - 1) : left[j] = both[j]
        /\ \A j \in k..(Len(both) - 1) : left[j] = both[j + 1]
    <3>1. both \in Seq(S)
      BY <1>1
    <3>2. QED
      BY <2>1, <3>1, Removed
  <2> HIDE DEF left
  <2>3. QED
    BY <1>1, <2>2
<1>5. /\ right \in Seq(S) /\ Len(right) = (m - 1) + n
      /\ \A j \in 1..(m - 1) : right[j] = r[j]
      /\ \A j \in 1..n : right[(m - 1) + j] = t[j]
  <2>1. /\ right \in Seq(S) /\ Len(right) = Len(r) + Len(t)
        /\ \A j \in 1..Len(r) : right[j] = r[j]
        /\ \A j \in 1..Len(t) : right[Len(r) + j] = t[j]
    <3>1. r \in Seq(S)
      BY <1>2
    <3>2. QED
      BY <3>1, Joined
  <2> HIDE DEF right
  <2>2. QED
    BY <1>2, <2>1
<1> HIDE DEF left, right, m, n
<1>6. ASSUME NEW j \in 1..(m + n - 1) PROVE left[j] = right[j]
  <2>1. CASE j < k
    <3>1. j \in 1..(k - 1) /\ j \in 1..m /\ j \in 1..(m - 1)
      BY <1>1, <1>3, <2>1
    <3>2. QED
      BY <1>1, <1>2, <1>4, <1>5, <3>1
  <2>2. CASE j >= k /\ j < m
    <3>1. j \in k..(m - 1) /\ j \in 1..(m - 1) /\ j + 1 \in 1..m /\ j \in k..(m + n - 1)
      BY <1>1, <1>3, <2>2
    <3>2. left[j] = both[j + 1] /\ both[j + 1] = s[j + 1]
      BY <1>1, <1>4, <3>1
    <3>3. QED
      BY <1>2, <1>5, <3>1, <3>2
  <2>3. CASE j >= m
    <3>1. PICK i \in 1..n : j = (m - 1) + i
      BY <1>1, <1>3, <2>3, j - (m - 1) \in 1..n, j = (m - 1) + (j - (m - 1))
    <3>2. j \in k..(m + n - 1) /\ j + 1 = m + i
      BY <1>1, <1>3, <2>3, <3>1
    <3>3. left[j] = both[m + i] /\ both[m + i] = t[i]
      BY <1>1, <1>4, <3>2
    <3>4. QED
      BY <1>5, <3>1, <3>3
  <2>4. QED
    BY <1>1, <1>3, <2>1, <2>2, <2>3
<1>7. left = right
  BY <1>1, <1>4, <1>5, <1>6, SeqEqual
<1>8. QED
  BY <1>7 DEF left, right, both, r

LEMMA LaterInserted ==
  ASSUME NEW S, NEW s \in Seq(S), NEW t \in Seq(S), NEW k \in 1..(Len(t) + 1), NEW e \in S
  PROVE  InsertAt(s \o t, Len(s) + k, e) = s \o InsertAt(t, k, e)
<1> DEFINE both == s \o t
           r == InsertAt(t, k, e)
           m == Len(s)
           n == Len(t)
           p == m + k
           left == InsertAt(both, p, e)
           right == s \o r
<1>1. /\ both \in Seq(S) /\ m \in Nat /\ n \in Nat /\ Len(both) = m + n
      /\ \A j \in 1..m : both[j] = s[j]
      /\ \A j \in 1..n : both[m + j] = t[j]
  BY Joined
<1>2. /\ r \in Seq(S) /\ Len(r) = n + 1
      /\ \A j \in 1..(k - 1) : r[j] = t[j]
      /\ r[k] = e
      /\ \A j \in k..n : r[j + 1] = t[j]
  BY Inserted
<1>3. k \in Nat /\ k >= 1 /\ k <= n + 1
  BY <1>1
<1> HIDE DEF both, r
<1>4. /\ left \in Seq(S) /\ Len(left) = m + n + 1
      /\ \A j \in 1..(m + k - 1) : left[j] = both[j]
      /\ left[m + k] = e
      /\ \A j \in (m + k)..(m + n) : left[j + 1] = both[j]
  <2>1. p \in 1..(Len(both) + 1)
    BY <1>1, <1>3
  <2> HIDE DEF m, n, p
  <2>2. /\ left \in Seq(S) /\ Len(left) = Len(both) + 1
        /\ \A j \in 1..(p - 1) : left[j] = both[j]
        /\ left[p] = e
        /\ \A j \in p..Len(both) : left[j + 1] = both[j]
    <3>1. both \in Seq(S)
      BY <1>1
    <3>2. QED
      BY <2>1, <3>1, Inserted
  <2> HIDE DEF left
  <2>3. QED
    BY <1>1, <2>2 DEF p
<1>5. /\ right \in Seq(S) /\ Len(right) = m + (n + 1)
      /\ \A j \in 1..m : right[j] = s[j]
      /\ \A j \in 1..(n + 1) : right[m + j] = r[j]
  <2>1. /\ right \in Seq(S) /\ Len(right) = Len(s) + Len(r)
        /\ \A j \in 1..Len(s) : right[j] = s[j]
        /\ \A j \in 1..Len(r) : right[Len(s) + j] = r[j]
    <3>1. r \in Seq(S)
      BY <1>2
    <3>2. QED
      BY <3>1, Joined
  <2> HIDE DEF right
  <2>2. QED
    BY <1>2, <2>1
<1> HIDE DEF left, right, m, n, p
<1>6. ASSUME NEW j \in 1..(m + n + 1) PROVE left[j] = right[j]
  <2>1. CASE j <= m
    <3>1. j \in 1..m /\ j \in 1..(m + k - 1)
      BY <1>1, <1>3, <2>1
    <3>2. QED
      BY <1>1, <1>4, <1>5, <3>1
  <2>2. CASE j > m /\ j < m + k
    <3>1. PICK i \in 1..(k - 1) : j = m + i
      BY <1>1, <1>3, <2>2, j - m \in 1..(k - 1), j = m + (j - m)
    <3>2. i \in 1..n /\ i \in 1..(n + 1) /\ j \in 1..(m + k - 1)
      BY <1>1, <1>3, <2>2
    <3>3. QED
      BY <1>1, <1>2, <1>4, <1>5, <3>1, <3>2
  <2>3. CASE j = m + k
    <3>1. k \in 1..(n + 1)
      BY <1>1, <1>3
    <3>2. QED
      BY <1>2, <1>4, <1>5, <2>3, <3>1
  <2>4. CASE j > m + k
    <3>1. PICK i \in k..n : j = m + i + 1
      BY <1>1, <1>3, <2>4, j - m - 1 \in k..n, j = m + (j - m - 1) + 1
    <3>2. i \in 1..n /\ i + 1 \in 1..(n + 1) /\ m + i \in (m + k)..(m + n) /\ j = (m + i) + 1 /\ j = m + (i + 1)
      BY <1>1, <1>3, <2>4, <3>1
    <3>3. left[(m + i) + 1] = both[m + i] /\ both[m + i] = t[i]
      BY <1>1, <1>4, <3>2
    <3>4. right[m + (i + 1)] = r[i + 1] /\ r[i + 1] = t[i]
      BY <1>2, <1>5, <3>1, <3>2
    <3>5. QED
      BY <3>2, <3>3, <3>4
  <2>5. QED
    BY <1>1, <1>3, <2>1, <2>2, <2>3, <2>4
<1>7. left = right
  BY <1>1, <1>4, <1>5, <1>6, SeqEqual
<1>8. QED
  BY <1>7 DEF left, right, both, r, m, p

LEMMA EarlierInserted ==
  ASSUME NEW S, NEW s \in Seq(S), NEW t \in Seq(S), NEW k \in 1..(Len(s) + 1), NEW e \in S
  PROVE  InsertAt(s \o t, k, e) = InsertAt(s, k, e) \o t
<1> DEFINE both == s \o t
           r == InsertAt(s, k, e)
           m == Len(s)
           n == Len(t)
           left == InsertAt(both, k, e)
           right == r \o t
<1>1. /\ both \in Seq(S) /\ m \in Nat /\ n \in Nat /\ Len(both) = m + n
      /\ \A j \in 1..m : both[j] = s[j]
      /\ \A j \in 1..n : both[m + j] = t[j]
  BY Joined
<1>2. /\ r \in Seq(S) /\ Len(r) = m + 1
      /\ \A j \in 1..(k - 1) : r[j] = s[j]
      /\ r[k] = e
      /\ \A j \in k..m : r[j + 1] = s[j]
  BY Inserted
<1>3. k \in Nat /\ k >= 1 /\ k <= m + 1
  BY <1>1
<1> HIDE DEF both, r
<1>4. /\ left \in Seq(S) /\ Len(left) = m + n + 1
      /\ \A j \in 1..(k - 1) : left[j] = both[j]
      /\ left[k] = e
      /\ \A j \in k..(m + n) : left[j + 1] = both[j]
  <2>1. k \in 1..(Len(both) + 1)
    BY <1>1, <1>3
  <2> HIDE DEF m, n
  <2>2. /\ left \in Seq(S) /\ Len(left) = Len(both) + 1
        /\ \A j \in 1..(k - 1) : left[j] = both[j]
        /\ left[k] = e
        /\ \A j \in k..Len(both) : left[j + 1] = both[j]
    <3>1. both \in Seq(S)
      BY <1>1
    <3>2. QED
      BY <2>1, <3>1, Inserted
  <2> HIDE DEF left
  <2>3. QED
    BY <1>1, <2>2
<1>5. /\ right \in Seq(S) /\ Len(right) = (m + 1) + n
      /\ \A j \in 1..(m + 1) : right[j] = r[j]
      /\ \A j \in 1..n : right[(m + 1) + j] = t[j]
  <2>1. /\ right \in Seq(S) /\ Len(right) = Len(r) + Len(t)
        /\ \A j \in 1..Len(r) : right[j] = r[j]
        /\ \A j \in 1..Len(t) : right[Len(r) + j] = t[j]
    <3>1. r \in Seq(S)
      BY <1>2
    <3>2. QED
      BY <3>1, Joined
  <2> HIDE DEF right
  <2>2. QED
    BY <1>2, <2>1
<1> HIDE DEF left, right, m, n
<1>6. ASSUME NEW j \in 1..(m + n + 1) PROVE left[j] = right[j]
  <2>1. CASE j < k
    <3>1. j \in 1..(k - 1) /\ j \in 1..m /\ j \in 1..(m + 1)
      BY <1>1, <1>3, <2>1
    <3>2. QED
      BY <1>1, <1>2, <1>4, <1>5, <3>1
  <2>2. CASE j = k
    <3>1. k \in 1..(m + 1)
      BY <1>1, <1>3
    <3>2. QED
      BY <1>2, <1>4, <1>5, <2>2, <3>1
  <2>3. CASE j > k /\ j <= m + 1
    <3>1. PICK i \in k..m : j = i + 1
      BY <1>1, <1>3, <2>3, j - 1 \in k..m, j = (j - 1) + 1
    <3>2. i \in 1..m /\ j \in 1..(m + 1) /\ i \in k..(m + n)
      BY <1>1, <1>3, <3>1
    <3>3. QED
      BY <1>1, <1>2, <1>4, <1>5, <3>1, <3>2
  <2>4. CASE j > m + 1
    <3>1. PICK i \in 1..n : j = (m + 1) + i
      BY <1>1, <1>3, <2>4, j - (m + 1) \in 1..n, j = (m + 1) + (j - (m + 1))
    <3>2. m + i \in k..(m + n) /\ j = (m + i) + 1
      BY <1>1, <1>3, <2>4, <3>1
    <3>3. left[(m + i) + 1] = both[m + i] /\ both[m + i] = t[i]
      BY <1>1, <1>4, <3>2
    <3>4. QED
      BY <1>5, <3>1, <3>2, <3>3
  <2>5. QED
    BY <1>1, <1>3, <2>1, <2>2, <2>3, <2>4
<1>7. left = right
  BY <1>1, <1>4, <1>5, <1>6, SeqEqual
<1>8. QED
  BY <1>7 DEF left, right, both, r

(* The parts before and behind a place. *)
LEMMA Halves ==
  ASSUME NEW S, NEW s \in Seq(S), NEW n \in Nat, n <= Len(s)
  PROVE  /\ SubSeq(s, 1, n) \in Seq(S) /\ SubSeq(s, n + 1, Len(s)) \in Seq(S)
         /\ Len(SubSeq(s, 1, n)) = n /\ Len(SubSeq(s, n + 1, Len(s))) = Len(s) - n
         /\ SubSeq(s, 1, n) \o SubSeq(s, n + 1, Len(s)) = s
<1> DEFINE m == Len(s)
           p == SubSeq(s, 1, n)
           q == SubSeq(s, n + 1, m)
<1>1. m \in Nat
  BY LenProperties
<1>2. p \in Seq(S) /\ Len(p) = n
  <2>1. 1 \in 1..(Len(s) + 1) /\ n \in (1 - 1)..Len(s)
    BY <1>1
  <2>2. p \in Seq(S) /\ Len(p) = n - 1 + 1
    BY <2>1, Piece
  <2> HIDE DEF p
  <2>3. QED
    BY <2>2
<1>3. q \in Seq(S) /\ Len(q) = m - n
  <2> DEFINE k == n + 1
  <2>1. k \in 1..(Len(s) + 1) /\ m \in (k - 1)..Len(s)
    BY <1>1
  <2>2. q \in Seq(S) /\ Len(q) = m - k + 1
    <3> HIDE DEF k, m
    <3>1. SubSeq(s, k, m) \in Seq(S) /\ Len(SubSeq(s, k, m)) = m - k + 1
      BY <2>1, Piece
    <3>2. QED
      BY <3>1 DEF k
  <2> HIDE DEF q, m
  <2>3. QED
    BY <1>1, <2>2
<1>4. p \o q = SubSeq(s, 1, m)
  <2>1. 1 \in 1..(Len(s) + 1) /\ n \in (1 - 1)..Len(s) /\ m \in n..Len(s)
    BY <1>1
  <2>2. QED
    BY <2>1, ConcatAdjacentSubSeq
<1>5. SubSeq(s, 1, m) = s
  BY SubSeqFull
<1>6. QED
  BY <1>2, <1>3, <1>4, <1>5

LEMMA PartsAround ==
  ASSUME NEW S, NEW s \in Seq(S), NEW i \in 1..Len(s)
  PROVE  /\ SubSeq(s, 1, i - 1) \in Seq(S) /\ SubSeq(s, i + 1, Len(s)) \in Seq(S) /\ SubSeq(s, i, Len(s)) \in Seq(S)
         /\ SubSeq(s, i, Len(s)) = <<s[i]>> \o SubSeq(s, i + 1, Len(s))
         /\ SubSeq(s, 1, i) = Append(SubSeq(s, 1, i - 1), s[i])
<1>1. Len(s) \in Nat /\ i \in Nat /\ i <= Len(s) /\ i - 1 \in Nat /\ i - 1 <= Len(s) /\ (i - 1) + 1 = i
  BY LenProperties
<1>2. SubSeq(s, 1, i - 1) \in Seq(S) /\ SubSeq(s, i + 1, Len(s)) \in Seq(S)
  BY <1>1, Halves
<1>3. SubSeq(s, i, Len(s)) \in Seq(S)
  <2>1. SubSeq(s, (i - 1) + 1, Len(s)) \in Seq(S)
    BY <1>1, Halves
  <2>2. QED
    BY <1>1, <2>1
<1>4. SubSeq(s, i, Len(s)) = <<s[i]>> \o SubSeq(s, i + 1, Len(s))
  <2>1. Len(s) \in i..Len(s)
    BY <1>1
  <2>2. QED
    BY <2>1, SubSeqRecursiveFirst
<1>5. SubSeq(s, 1, i) = Append(SubSeq(s, 1, i - 1), s[i])
  <2>1. 1 \in 1..Len(s) /\ i \in 1..Len(s)
    BY <1>1
  <2>2. SubSeq(s, 1, i) = SubSeq(s, 1, i - 1) \o <<s[i]>>
    BY <2>1, SubSeqRecursiveSecond
  <2>3. s[i] \in S
    BY ElementOfSeq
  <2>4. Append(SubSeq(s, 1, i - 1), s[i]) = SubSeq(s, 1, i - 1) \o <<s[i]>>
    BY <1>2, <2>3, AppendIsConcat
  <2>5. QED
    BY <2>2, <2>4, Zenon
<1>6. QED
  BY <1>2, <1>3, <1>4, <1>5

LEMMA FlattenHalves ==
  ASSUME NEW A, NEW s \in Seq(Seq(A)), NEW n \in Nat, n <= Len(s)
  PROVE  /\ FlattenSeq(SubSeq(s, 1, n)) \in Seq(A) /\ FlattenSeq(SubSeq(s, n + 1, Len(s))) \in Seq(A)
         /\ FlattenSeq(s) = FlattenSeq(SubSeq(s, 1, n)) \o FlattenSeq(SubSeq(s, n + 1, Len(s)))
<1> DEFINE p == SubSeq(s, 1, n)
           q == SubSeq(s, n + 1, Len(s))
<1>1. p \in Seq(Seq(A)) /\ q \in Seq(Seq(A)) /\ p \o q = s
  BY Halves
<1> HIDE DEF p, q
<1>2. FlattenSeq(p \o q) = FlattenSeq(p) \o FlattenSeq(q)
  BY <1>1, FlattenConcat
<1>3. FlattenSeq(p) \in Seq(A) /\ FlattenSeq(q) \in Seq(A)
  BY <1>1, FlattenType
<1>4. FlattenSeq(s) = FlattenSeq(p) \o FlattenSeq(q)
  BY <1>1, <1>2, Zenon
<1>5. QED
  BY <1>3, <1>4 DEF p, q

(* Part i in the flattened list. *)
LEMMA FlattenAround ==
  ASSUME NEW A, NEW s \in Seq(Seq(A)), NEW i \in 1..Len(s)
  PROVE  /\ FlattenSeq(SubSeq(s, 1, i - 1)) \in Seq(A) /\ FlattenSeq(SubSeq(s, i + 1, Len(s))) \in Seq(A)
         /\ s[i] \in Seq(A)
         /\ FlattenSeq(s) = FlattenSeq(SubSeq(s, 1, i - 1)) \o (s[i] \o FlattenSeq(SubSeq(s, i + 1, Len(s))))
         /\ FlattenSeq(SubSeq(s, 1, i)) = FlattenSeq(SubSeq(s, 1, i - 1)) \o s[i]
<1> DEFINE p == SubSeq(s, 1, i - 1)
           q == SubSeq(s, i + 1, Len(s))
           r == SubSeq(s, i, Len(s))
           x == s[i]
<1>1. Len(s) \in Nat /\ i - 1 \in Nat /\ i - 1 <= Len(s) /\ (i - 1) + 1 = i
  BY LenProperties
<1>2. p \in Seq(Seq(A)) /\ q \in Seq(Seq(A)) /\ x \in Seq(A)
  BY PartsAround, ElementOfSeq
<1>3. r = <<x>> \o q /\ SubSeq(s, 1, i) = Append(p, x)
  BY PartsAround
<1>4. FlattenSeq(s) = FlattenSeq(p) \o FlattenSeq(r)
  <2>1. FlattenSeq(s) = FlattenSeq(p) \o FlattenSeq(SubSeq(s, (i - 1) + 1, Len(s)))
    BY <1>1, FlattenHalves
  <2>2. QED
    BY <1>1, <2>1
<1> HIDE DEF p, q, r, x
<1>5. FlattenSeq(r) = x \o FlattenSeq(q)
  <2>1. <<x>> \in Seq(Seq(A))
    BY <1>2
  <2>2. FlattenSeq(<<x>> \o q) = FlattenSeq(<<x>>) \o FlattenSeq(q)
    BY <1>2, <2>1, FlattenConcat
  <2>3. FlattenSeq(<<x>>) = x
    BY <1>2, FlattenOne
  <2>4. QED
    BY <1>3, <2>2, <2>3, Zenon
<1>6. FlattenSeq(Append(p, x)) = FlattenSeq(p) \o x
  BY <1>2, FlattenSnoc
<1>7. FlattenSeq(p) \in Seq(A) /\ FlattenSeq(q) \in Seq(A)
  BY <1>2, FlattenType
<1>8. FlattenSeq(s) = FlattenSeq(p) \o (x \o FlattenSeq(q)) /\ FlattenSeq(SubSeq(s, 1, i)) = FlattenSeq(p) \o x
  BY <1>3, <1>4, <1>5, <1>6, Zenon
<1>9. QED
  BY <1>2, <1>7, <1>8 DEF p, q, x

(* A part is inserted, taken out, or replaced. *)
LEMMA FlattenInserted ==
  ASSUME NEW A, NEW s \in Seq(Seq(A)), NEW n \in Nat, n <= Len(s), NEW x \in Seq(A)
  PROVE  FlattenSeq(InsertAt(s, n + 1, x))
           = FlattenSeq(SubSeq(s, 1, n)) \o (x \o FlattenSeq(SubSeq(s, n + 1, Len(s))))
<1> DEFINE p == SubSeq(s, 1, n)
           q == SubSeq(s, n + 1, Len(s))
           k == n + 1
<1>1. p \in Seq(Seq(A)) /\ q \in Seq(Seq(A))
  BY Halves
<1>2. InsertAt(s, k, x) = SubSeq(s, 1, k - 1) \o <<x>> \o SubSeq(s, k, Len(s))
  BY Zenon DEF InsertAt
<1>3. k - 1 = n
  OBVIOUS
<1>4. InsertAt(s, k, x) = (p \o <<x>>) \o q
  BY <1>2, <1>3, Zenon
<1> HIDE DEF p, q, k
<1>5. Append(p, x) = p \o <<x>> /\ Append(p, x) \in Seq(Seq(A))
  BY <1>1, AppendIsConcat, AppendProperties
<1>6. FlattenSeq(Append(p, x) \o q) = FlattenSeq(Append(p, x)) \o FlattenSeq(q)
  BY <1>1, <1>5, FlattenConcat
<1>7. FlattenSeq(Append(p, x)) = FlattenSeq(p) \o x
  BY <1>1, FlattenSnoc
<1>8. FlattenSeq(p) \in Seq(A) /\ FlattenSeq(q) \in Seq(A)
  BY <1>1, FlattenType
<1>9. (FlattenSeq(p) \o x) \o FlattenSeq(q) = FlattenSeq(p) \o (x \o FlattenSeq(q))
  BY <1>8, ConcatAssociative
<1>10. FlattenSeq(InsertAt(s, k, x)) = FlattenSeq(p) \o (x \o FlattenSeq(q))
  BY <1>4, <1>5, <1>6, <1>7, <1>9, Zenon
<1>11. QED
  BY <1>10, Zenon DEF p, q, k

LEMMA FlattenRemoved ==
  ASSUME NEW A, NEW s \in Seq(Seq(A)), NEW i \in 1..Len(s)
  PROVE  FlattenSeq(RemoveAt(s, i)) = FlattenSeq(SubSeq(s, 1, i - 1)) \o FlattenSeq(SubSeq(s, i + 1, Len(s)))
<1> DEFINE p == SubSeq(s, 1, i - 1)
           q == SubSeq(s, i + 1, Len(s))
<1>1. p \in Seq(Seq(A)) /\ q \in Seq(Seq(A))
  BY PartsAround
<1>2. RemoveAt(s, i) = p \o q
  BY Zenon DEF RemoveAt
<1> HIDE DEF p, q
<1>3. FlattenSeq(p \o q) = FlattenSeq(p) \o FlattenSeq(q)
  BY <1>1, FlattenConcat
<1>4. QED
  BY <1>2, <1>3, Zenon DEF p, q

LEMMA SubSeqAlike ==
  ASSUME NEW S, NEW s \in Seq(S), NEW t \in Seq(S), NEW m \in Nat, NEW n \in Nat, m >= 1,
         n <= Len(s), n <= Len(t), \A i \in m..n : s[i] = t[i]
  PROVE  SubSeq(s, m, n) = SubSeq(t, m, n)
<1>1. CASE m > n
  BY <1>1, SubSeqEmpty
<1>2. CASE m <= n
  <2>1. Len(s) \in Nat /\ Len(t) \in Nat
    BY LenProperties
  <2>2. m \in 1..(Len(s) + 1) /\ m \in 1..(Len(t) + 1) /\ n \in (m - 1)..Len(s) /\ n \in (m - 1)..Len(t)
    BY <1>2, <2>1
  <2> DEFINE a == SubSeq(s, m, n)
             b == SubSeq(t, m, n)
  <2>3. a \in Seq(S) /\ Len(a) = n - m + 1 /\ \A j \in 1..(n - m + 1) : a[j] = s[m + j - 1]
    BY <2>2, Piece
  <2>4. b \in Seq(S) /\ Len(b) = n - m + 1 /\ \A j \in 1..(n - m + 1) : b[j] = t[m + j - 1]
    BY <2>2, Piece
  <2> HIDE DEF a, b
  <2>5. \A j \in 1..(n - m + 1) : m + j - 1 \in m..n
    OBVIOUS
  <2>6. \A j \in 1..(n - m + 1) : a[j] = b[j]
    BY <2>3, <2>4, <2>5
  <2>7. a = b
    BY <2>3, <2>4, <2>6, SeqEqual
  <2>8. QED
    BY <2>7 DEF a, b
<1>3. QED
  BY <1>1, <1>2

(* The list with part i replaced by x. *)
WithPart(s, i, x) == [s EXCEPT ![i] = x]

LEMMA PartReplaced ==
  ASSUME NEW A, NEW s \in Seq(Seq(A)), NEW i \in 1..Len(s), NEW x \in Seq(A)
  PROVE  /\ WithPart(s, i, x) \in Seq(Seq(A)) /\ Len(WithPart(s, i, x)) = Len(s)
         /\ \A j \in 1..Len(s) : WithPart(s, i, x)[j] = IF j = i THEN x ELSE s[j]
BY ExceptSeq, LenProperties DEF WithPart

LEMMA StartsAlike ==
  ASSUME NEW A, NEW s \in Seq(Seq(A)), NEW i \in 1..Len(s), NEW x \in Seq(A), NEW n \in 0..(i - 1)
  PROVE  SubSeq(WithPart(s, i, x), 1, n) = SubSeq(s, 1, n)
<1> DEFINE t == WithPart(s, i, x)
<1>1. /\ t \in Seq(Seq(A)) /\ Len(t) = Len(s) /\ Len(s) \in Nat
      /\ \A j \in 1..Len(s) : t[j] = IF j = i THEN x ELSE s[j]
  BY PartReplaced, LenProperties
<1> HIDE DEF t
<1>2. n \in Nat /\ 1 \in Nat /\ 1 >= 1 /\ n <= Len(s) /\ n <= Len(t)
  BY <1>1
<1>3. \A j \in 1..n : t[j] = s[j]
  BY <1>1
<1>4. t \in Seq(Seq(A))
  BY <1>1
<1>5. SubSeq(t, 1, n) = SubSeq(s, 1, n)
  BY <1>2, <1>3, <1>4, SubSeqAlike
<1>6. QED
  BY <1>5, Zenon DEF t

LEMMA BothReplaced ==
  ASSUME NEW A, NEW s \in Seq(Seq(A)), NEW i \in 1..Len(s), NEW x \in Seq(A)
  PROVE  /\ FlattenSeq(WithPart(s, i, x))
              = FlattenSeq(SubSeq(s, 1, i - 1)) \o (x \o FlattenSeq(SubSeq(s, i + 1, Len(s))))
         /\ FlattenSeq(SubSeq(WithPart(s, i, x), 1, i)) = FlattenSeq(SubSeq(s, 1, i - 1)) \o x
<1> DEFINE t == WithPart(s, i, x)
<1>1. /\ t \in Seq(Seq(A)) /\ Len(t) = Len(s) /\ Len(s) \in Nat
      /\ \A j \in 1..Len(s) : t[j] = IF j = i THEN x ELSE s[j]
  BY PartReplaced, LenProperties
<1> HIDE DEF t
<1>2. t[i] = x /\ \A j \in 1..Len(s) : j # i => t[j] = s[j]
  BY <1>1
<1>3. SubSeq(t, i + 1, Len(t)) = SubSeq(s, i + 1, Len(s))
  <2> DEFINE m == i + 1
             n == Len(s)
  <2>1. m \in Nat /\ m >= 1 /\ n \in Nat /\ n <= Len(s) /\ n <= Len(t)
    BY <1>1
  <2>2. \A j \in m..n : t[j] = s[j]
    BY <1>1, <1>2
  <2>3. t \in Seq(Seq(A))
    BY <1>1
  <2> HIDE DEF m, n
  <2>4. SubSeq(t, m, n) = SubSeq(s, m, n)
    BY <2>1, <2>2, <2>3, SubSeqAlike
  <2>5. QED
    BY <1>1, <2>4 DEF m, n
<1>4. /\ FlattenSeq(t) = FlattenSeq(SubSeq(t, 1, i - 1)) \o (t[i] \o FlattenSeq(SubSeq(t, i + 1, Len(t))))
      /\ FlattenSeq(SubSeq(t, 1, i)) = FlattenSeq(SubSeq(t, 1, i - 1)) \o t[i]
  <2>1. t \in Seq(Seq(A)) /\ i \in 1..Len(t)
    BY <1>1
  <2> HIDE DEF t
  <2>2. FlattenSeq(t) = FlattenSeq(SubSeq(t, 1, i - 1)) \o (t[i] \o FlattenSeq(SubSeq(t, i + 1, Len(t))))
    BY <2>1, FlattenAround, Zenon
  <2>3. FlattenSeq(SubSeq(t, 1, i)) = FlattenSeq(SubSeq(t, 1, i - 1)) \o t[i]
    BY <2>1, FlattenAround, Zenon
  <2>4. QED
    BY <2>2, <2>3, Zenon
<1>5. SubSeq(t, 1, i - 1) = SubSeq(s, 1, i - 1)
  <2>1. i - 1 \in 0..(i - 1)
    OBVIOUS
  <2>2. QED
    BY <2>1, StartsAlike DEF t
<1>6. /\ FlattenSeq(t) = FlattenSeq(SubSeq(s, 1, i - 1)) \o (x \o FlattenSeq(SubSeq(s, i + 1, Len(s))))
      /\ FlattenSeq(SubSeq(t, 1, i)) = FlattenSeq(SubSeq(s, 1, i - 1)) \o x
  BY <1>2, <1>3, <1>4, <1>5, Zenon
<1>7. QED
  BY <1>6, Zenon DEF t

LEMMA FlattenReplaced ==
  ASSUME NEW A, NEW s \in Seq(Seq(A)), NEW i \in 1..Len(s), NEW x \in Seq(A)
  PROVE  FlattenSeq(WithPart(s, i, x))
           = FlattenSeq(SubSeq(s, 1, i - 1)) \o (x \o FlattenSeq(SubSeq(s, i + 1, Len(s))))
BY BothReplaced

LEMMA FlattenUpToReplaced ==
  ASSUME NEW A, NEW s \in Seq(Seq(A)), NEW i \in 1..Len(s), NEW x \in Seq(A)
  PROVE  FlattenSeq(SubSeq(WithPart(s, i, x), 1, i)) = FlattenSeq(SubSeq(s, 1, i - 1)) \o x
BY BothReplaced

(* Taking one element out of a part, or putting one in, takes it out of,   *)
(* or puts it in, the flattened list.                                      *)

LEMMA FlattenDropped ==
  ASSUME NEW A, NEW s \in Seq(Seq(A)), NEW i \in 1..Len(s), NEW k \in 1..Len(s[i]),
         NEW p, p = Len(FlattenSeq(SubSeq(s, 1, i - 1))) + k
  PROVE  /\ FlattenSeq(WithPart(s, i, RemoveAt(s[i], k))) = RemoveAt(FlattenSeq(s), p)
         /\ Len(s[i]) = 1 => FlattenSeq(RemoveAt(s, i)) = RemoveAt(FlattenSeq(s), p)
<1> DEFINE h == FlattenSeq(SubSeq(s, 1, i - 1))
           x == s[i]
           g == FlattenSeq(SubSeq(s, i + 1, Len(s)))
<1>1. /\ h \in Seq(A) /\ g \in Seq(A) /\ x \in Seq(A)
      /\ FlattenSeq(s) = h \o (x \o g)
  BY FlattenAround
<1>2. RemoveAt(x, k) \in Seq(A) /\ Len(RemoveAt(x, k)) = Len(x) - 1
  BY <1>1, Removed
<1>3. FlattenSeq(WithPart(s, i, RemoveAt(x, k))) = h \o (RemoveAt(x, k) \o g)
  <2> DEFINE y == RemoveAt(x, k)
  <2>1. y \in Seq(A)
    BY <1>2
  <2> HIDE DEF y
  <2>2. FlattenSeq(WithPart(s, i, y)) = h \o (y \o g)
    BY <2>1, FlattenReplaced
  <2>3. QED
    BY <2>2, Zenon DEF y
<1>4. FlattenSeq(RemoveAt(s, i)) = h \o g
  BY FlattenRemoved
<1>5. p = Len(h) + k /\ k \in 1..Len(x)
  OBVIOUS
<1> HIDE DEF h, x, g
<1>6. RemoveAt(x \o g, k) = RemoveAt(x, k) \o g
  BY <1>1, <1>5, EarlierRemoved
<1>7. x \o g \in Seq(A) /\ k \in 1..Len(x \o g)
  BY <1>1, <1>5
<1>8. RemoveAt(h \o (x \o g), Len(h) + k) = h \o RemoveAt(x \o g, k)
  BY <1>1, <1>7, LaterRemoved
<1>9. h \o (RemoveAt(x, k) \o g) = RemoveAt(FlattenSeq(s), p)
  BY <1>1, <1>5, <1>6, <1>8, Zenon
<1>10. ASSUME Len(x) = 1 PROVE h \o g = RemoveAt(FlattenSeq(s), p)
  <2>1. RemoveAt(x, k) = <<>>
    BY <1>2, <1>10, EmptySeq
  <2>2. RemoveAt(x, k) \o g = g
    BY <2>1, <1>1, ConcatEmptySeq
  <2>3. QED
    BY <2>2, <1>9, Zenon
<1>11. QED
  BY <1>3, <1>4, <1>9, <1>10, Zenon DEF x

LEMMA FlattenOneInserted ==
  ASSUME NEW A, NEW s \in Seq(Seq(A)), NEW n \in Nat, n <= Len(s), NEW e \in A,
         NEW p, p = Len(FlattenSeq(SubSeq(s, 1, n))) + 1
  PROVE  FlattenSeq(InsertAt(s, n + 1, <<e>>)) = InsertAt(FlattenSeq(s), p, e)
<1> DEFINE h == FlattenSeq(SubSeq(s, 1, n))
           g == FlattenSeq(SubSeq(s, n + 1, Len(s)))
<1>1. /\ h \in Seq(A) /\ g \in Seq(A) /\ FlattenSeq(s) = h \o g
  BY FlattenHalves
<1>2. <<e>> \in Seq(A)
  OBVIOUS
<1>3. FlattenSeq(InsertAt(s, n + 1, <<e>>)) = h \o (<<e>> \o g)
  BY <1>2, FlattenInserted
<1>4. p = Len(h) + 1
  OBVIOUS
<1> HIDE DEF h, g
<1>5. InsertAt(g, 1, e) = <<e>> \o g
  BY <1>1 DEF InsertAt
<1>6. 1 \in 1..(Len(g) + 1)
  BY <1>1
<1>7. InsertAt(h \o g, Len(h) + 1, e) = h \o InsertAt(g, 1, e)
  BY <1>1, <1>6, LaterInserted
<1>8. QED
  BY <1>1, <1>3, <1>4, <1>5, <1>7, Zenon

(* x is a followed by b. *)
Joins(x, a, b) == x = a \o b

LEMMA FourJoined ==
  ASSUME NEW S, NEW h, NEW a, NEW b, NEW g, h \in Seq(S), a \in Seq(S), b \in Seq(S), g \in Seq(S)
  PROVE  Joins((h \o a) \o (b \o g), h, (a \o b) \o g)
<1>1. (h \o a) \o (b \o g) = h \o (a \o (b \o g))
  <2> DEFINE y == b \o g
  <2>1. y \in Seq(S)
    OBVIOUS
  <2> HIDE DEF y
  <2>2. (h \o a) \o y = h \o (a \o y)
    BY <2>1, Regrouped
  <2>3. QED
    BY <2>2, Zenon DEF y
<1>2. (a \o b) \o g = a \o (b \o g)
  BY Regrouped
<1>3. QED
  BY <1>1, <1>2, Zenon DEF Joins

(* A part split in two, and something put between the halves. *)
SplitIn(s, i, a, b) == InsertAt(WithPart(s, i, a), i + 1, b)

LEMMA FlattenSplit ==
  ASSUME NEW A, NEW s \in Seq(Seq(A)), NEW i \in 1..Len(s), NEW a \in Seq(A), NEW b \in Seq(A),
         Joins(s[i], a, b)
  PROVE  /\ SplitIn(s, i, a, b) \in Seq(Seq(A)) /\ Len(SplitIn(s, i, a, b)) = Len(s) + 1
         /\ FlattenSeq(SplitIn(s, i, a, b)) = FlattenSeq(s)
         /\ Joins(FlattenSeq(SubSeq(SplitIn(s, i, a, b), 1, i)), FlattenSeq(SubSeq(s, 1, i - 1)), a)
<1> DEFINE t == WithPart(s, i, a)
           u == InsertAt(t, i + 1, b)
           h == FlattenSeq(SubSeq(s, 1, i - 1))
           g == FlattenSeq(SubSeq(s, i + 1, Len(s)))
<1>1. h \in Seq(A) /\ g \in Seq(A)
  BY FlattenAround
<1>2. FlattenSeq(s) = h \o (s[i] \o g)
  BY FlattenAround
<1>3. t \in Seq(Seq(A)) /\ Len(t) = Len(s) /\ i \in Nat /\ i <= Len(t)
  BY DEF WithPart
<1> HIDE DEF t
<1>4. u \in Seq(Seq(A)) /\ Len(u) = Len(t) + 1 /\ \A j \in 1..i : u[j] = t[j]
  <2> DEFINE m == i + 1
             S == Seq(A)
  <2>1. b \in S /\ t \in Seq(S)
    BY <1>3
  <2>2. m \in 1..(Len(t) + 1)
    BY <1>3
  <2>3. i = m - 1
    OBVIOUS
  <2> HIDE DEF m, S, u, h, g
  <2>4. /\ InsertAt(t, m, b) \in Seq(S) /\ Len(InsertAt(t, m, b)) = Len(t) + 1
        /\ \A j \in 1..(m - 1) : InsertAt(t, m, b)[j] = t[j]
    BY <2>1, <2>2, Inserted
  <2>5. InsertAt(t, m, b) = u /\ S = Seq(A)
    BY DEF m, S, u
  <2>6. QED
    BY <2>3, <2>4, <2>5, Zenon
<1>5. FlattenSeq(SubSeq(t, 1, i)) = h \o a
  <2>1. FlattenSeq(SubSeq(WithPart(s, i, a), 1, i)) = FlattenSeq(SubSeq(s, 1, i - 1)) \o a
    BY FlattenUpToReplaced
  <2>2. QED
    BY <2>1, Zenon DEF t
<1>6. SubSeq(u, 1, i) = SubSeq(t, 1, i)
  <2>1. 1 \in Nat /\ i \in Nat /\ 1 >= 1 /\ i <= Len(u) /\ i <= Len(t)
    BY <1>3, <1>4
  <2> HIDE DEF u
  <2>2. QED
    BY <2>1, <1>3, <1>4, SubSeqAlike
<1>7. FlattenSeq(SubSeq(t, i + 1, Len(t))) = g
  <2>1. i + 1 \in Nat /\ Len(s) \in Nat /\ i + 1 >= 1 /\ Len(s) <= Len(t)
    BY <1>3
  <2>2. \A j \in (i + 1)..Len(s) : t[j] = s[j]
    BY DEF t, WithPart
  <2>3. SubSeq(t, i + 1, Len(s)) = SubSeq(s, i + 1, Len(s))
    BY <2>1, <2>2, <1>3, SubSeqAlike
  <2>4. QED
    BY <2>3, <1>3, Zenon
<1>8. FlattenSeq(u) = (h \o a) \o (b \o g)
  <2>1. FlattenSeq(u) = FlattenSeq(SubSeq(t, 1, i)) \o (b \o FlattenSeq(SubSeq(t, i + 1, Len(t))))
    BY <1>3, FlattenInserted
  <2>2. QED
    BY <2>1, <1>5, <1>7, Zenon
<1> HIDE DEF h, g, u
<1>9. Joins((h \o a) \o (b \o g), h, (a \o b) \o g)
  BY <1>1, FourJoined
<1>10. u = SplitIn(s, i, a, b) /\ h = FlattenSeq(SubSeq(s, 1, i - 1))
  BY Zenon DEF u, t, h, SplitIn
<1>11. Len(u) = Len(s) + 1
  BY <1>3, <1>4, Zenon
<1>12. FlattenSeq(u) = FlattenSeq(s)
  BY <1>2, <1>8, <1>9, Zenon DEF Joins
<1>13. QED
  BY <1>4, <1>5, <1>6, <1>10, <1>11, <1>12, Zenon DEF Joins

LEMMA FlattenSplitInserted ==
  ASSUME NEW A, NEW s \in Seq(Seq(A)), NEW i \in 1..Len(s), NEW a \in Seq(A), NEW b \in Seq(A),
         Joins(s[i], a, b), NEW e \in A,
         NEW p, p = Len(FlattenSeq(SubSeq(s, 1, i - 1)) \o a) + 1
  PROVE  FlattenSeq(InsertAt(SplitIn(s, i, a, b), i + 1, <<e>>)) = InsertAt(FlattenSeq(s), p, e)
<1> DEFINE u == SplitIn(s, i, a, b)
<1>1. u \in Seq(Seq(A)) /\ Len(u) = Len(s) + 1
  BY FlattenSplit
<1>2. FlattenSeq(u) = FlattenSeq(s)
  BY FlattenSplit
<1>3. Joins(FlattenSeq(SubSeq(u, 1, i)), FlattenSeq(SubSeq(s, 1, i - 1)), a)
  BY FlattenSplit
<1> HIDE DEF u
<1>4. p = Len(FlattenSeq(SubSeq(u, 1, i))) + 1
  BY <1>3, Zenon DEF Joins
<1>5. i \in Nat /\ i <= Len(u)
  BY <1>1
<1>6. u \in Seq(Seq(A))
  BY <1>1
<1>7. FlattenSeq(InsertAt(u, i + 1, <<e>>)) = InsertAt(FlattenSeq(u), p, e)
  BY <1>4, <1>5, <1>6, FlattenOneInserted
<1>8. QED
  BY <1>2, <1>7, Zenon DEF u

LEMMA JoinsIs ==
  ASSUME NEW S, NEW f, NEW h, NEW u, h \in Seq(S), u \in Seq(S), Joins(f, h, u)
  PROVE  /\ f \in Seq(S) /\ Len(f) = Len(h) + Len(u)
         /\ \A j \in 1..Len(h) : f[j] = h[j]
         /\ \A j \in 1..Len(u) : f[Len(h) + j] = u[j]
<1>1. f = h \o u
  BY Zenon DEF Joins
<1>2. /\ h \o u \in Seq(S) /\ Len(h \o u) = Len(h) + Len(u)
      /\ \A j \in 1..Len(h) : (h \o u)[j] = h[j]
      /\ \A j \in 1..Len(u) : (h \o u)[Len(h) + j] = u[j]
  BY Joined
<1>3. QED
  BY <1>1, <1>2, Zenon

(* Two ways to cut one list at the same place give the same end. *)
LEMMA SameEnd ==
  ASSUME NEW S, NEW f, NEW h, NEW g, NEW u, NEW v, h \in Seq(S), g \in Seq(S), u \in Seq(S), v \in Seq(S),
         Len(h) = Len(g), Joins(f, h, u), Joins(f, g, v)
  PROVE  u = v /\ h = g
<1>1. /\ Len(f) = Len(h) + Len(u)
      /\ \A j \in 1..Len(h) : f[j] = h[j]
      /\ \A j \in 1..Len(u) : f[Len(h) + j] = u[j]
  BY JoinsIs
<1>2. /\ Len(f) = Len(g) + Len(v)
      /\ \A j \in 1..Len(g) : f[j] = g[j]
      /\ \A j \in 1..Len(v) : f[Len(g) + j] = v[j]
  BY JoinsIs
<1>3. Len(h) \in Nat /\ Len(u) \in Nat /\ Len(v) \in Nat
  BY LenProperties
<1>4. Len(u) = Len(v)
  BY <1>1, <1>2, <1>3
<1>5. \A j \in 1..Len(u) : u[j] = v[j]
  BY <1>1, <1>2, <1>4, Zenon
<1>6. \A j \in 1..Len(h) : h[j] = g[j]
  BY <1>1, <1>2, Zenon
<1>7. u = v
  BY <1>4, <1>5, SeqEqual
<1>8. h = g
  BY <1>6, SeqEqual
<1>9. QED
  BY <1>7, <1>8

LEMMA PairJoined ==
  ASSUME NEW x, NEW y
  PROVE  Joins(<<x, y>>, <<x>>, <<y>>)
<1> DEFINE p == <<x>>
           q == <<y>>
           r == <<x, y>>
           S == {x, y}
<1>1. /\ p \in Seq(S) /\ Len(p) = 1 /\ p[1] = x
      /\ q \in Seq(S) /\ Len(q) = 1 /\ q[1] = y
      /\ r \in Seq(S) /\ Len(r) = 2 /\ r[1] = x /\ r[2] = y
  OBVIOUS
<1> HIDE DEF p, q, r, S
<1>2. /\ p \o q \in Seq(S) /\ Len(p \o q) = 2
      /\ (p \o q)[1] = x /\ (p \o q)[2] = y
  <2>1. /\ p \o q \in Seq(S) /\ Len(p \o q) = Len(p) + Len(q)
        /\ \A j \in 1..Len(p) : (p \o q)[j] = p[j]
        /\ \A j \in 1..Len(q) : (p \o q)[Len(p) + j] = q[j]
    BY <1>1, Joined
  <2> DEFINE f == p \o q
  <2> HIDE DEF f
  <2>2. QED
    BY <1>1, <2>1
<1>3. r = p \o q
  <2> DEFINE f == p \o q
  <2>1. f \in Seq(S) /\ Len(f) = 2 /\ f[1] = x /\ f[2] = y
    BY <1>2
  <2> HIDE DEF f
  <2>2. Len(r) = Len(f) /\ \A j \in 1..Len(r) : r[j] = f[j]
    BY <1>1, <2>1
  <2>3. r = f
    BY <1>1, <2>1, <2>2, SeqEqual
  <2>4. QED
    BY <2>3 DEF f
<1>4. QED
  BY <1>3, Zenon DEF Joins, p, q, r

LEMMA ThreeJoined ==
  ASSUME NEW S, NEW h, NEW a, NEW b, h \in Seq(S), a \in Seq(S), b \in Seq(S)
  PROVE  Joins((h \o a) \o b, h, a \o b)
<1>1. (h \o a) \o b = h \o (a \o b)
  BY ConcatAssociative
<1>2. QED
  BY <1>1, Zenon DEF Joins

LEMMA TwoInserted ==
  ASSUME NEW S, NEW s \in Seq(S), NEW i \in 1..(Len(s) + 1), NEW x \in S, NEW y \in S
  PROVE  SubSeq(s, 1, i - 1) \o <<x, y>> \o SubSeq(s, i, Len(s)) = InsertAt(InsertAt(s, i, y), i, x)
<1> DEFINE a == SubSeq(s, 1, i - 1)
           b == SubSeq(s, i, Len(s))
           m == InsertAt(s, i, y)
           n == i - 1
<1>1. n \in Nat /\ n <= Len(s) /\ n + 1 = i
  BY LenProperties
<1>2. a \in Seq(S) /\ b \in Seq(S) /\ Len(a) = n
  <2> DEFINE p == SubSeq(s, 1, n)
             q == SubSeq(s, n + 1, Len(s))
  <2>1. p \in Seq(S) /\ q \in Seq(S) /\ Len(p) = n
    <3> HIDE DEF n
    <3>1. QED
      BY <1>1, Halves
  <2>2. a = p /\ b = q
    BY <1>1, Zenon
  <2>3. QED
    BY <2>1, <2>2, Zenon
<1>3. <<x>> \in Seq(S) /\ <<y>> \in Seq(S) /\ <<x, y>> \in Seq(S) /\ <<x>> \o <<y>> = <<x, y>>
  <2>1. <<x>> \in Seq(S)
    OBVIOUS
  <2>2. <<y>> \in Seq(S)
    OBVIOUS
  <2>3. <<x, y>> \in Seq(S)
    OBVIOUS
  <2>4. <<x>> \o <<y>> = <<x, y>>
    BY PairJoined, Zenon DEF Joins
  <2>5. QED
    BY <2>1, <2>2, <2>3, <2>4, Zenon
<1>4. m = (a \o <<y>>) \o b
  BY DEF InsertAt
<1>5. m \in Seq(S) /\ Len(m) = Len(s) + 1
  BY Inserted
<1>6. InsertAt(m, i, x) = (SubSeq(m, 1, i - 1) \o <<x>>) \o SubSeq(m, i, Len(m))
  BY DEF InsertAt
<1> HIDE DEF a, b, m, n
<1> DEFINE px == <<x>>
           py == <<y>>
           pxy == <<x, y>>
           yb == py \o b
<1>7. px \in Seq(S) /\ py \in Seq(S) /\ pxy \in Seq(S) /\ px \o py = pxy
  BY <1>3
<1> HIDE DEF px, py, pxy
<1>8. a \in Seq(S) /\ b \in Seq(S) /\ px \in Seq(S) /\ py \in Seq(S) /\ pxy \in Seq(S)
  BY <1>2, <1>7
<1>9. yb \in Seq(S)
  BY <1>8
<1>10. Joins(m, a, yb)
  <2>1. Joins((a \o py) \o b, a, py \o b)
    BY <1>8, ThreeJoined
  <2>2. QED
    BY <1>4, <2>1, Zenon DEF Joins, py
<1>11. /\ SubSeq(m, 1, n) \in Seq(S) /\ SubSeq(m, n + 1, Len(m)) \in Seq(S) /\ Len(SubSeq(m, 1, n)) = n
       /\ Joins(m, SubSeq(m, 1, n), SubSeq(m, n + 1, Len(m)))
  <2>1. m \in Seq(S) /\ n \in Nat /\ n <= Len(m)
    BY <1>1, <1>5
  <2>2. /\ SubSeq(m, 1, n) \in Seq(S) /\ SubSeq(m, n + 1, Len(m)) \in Seq(S) /\ Len(SubSeq(m, 1, n)) = n
        /\ SubSeq(m, 1, n) \o SubSeq(m, n + 1, Len(m)) = m
    BY <2>1, Halves
  <2>3. QED
    BY <2>2, Zenon DEF Joins
<1> HIDE DEF yb
<1>12. SubSeq(m, 1, n) = a /\ SubSeq(m, n + 1, Len(m)) = yb
  <2> DEFINE p == SubSeq(m, 1, n)
             q == SubSeq(m, n + 1, Len(m))
  <2>1. p \in Seq(S) /\ q \in Seq(S) /\ Len(p) = Len(a) /\ Joins(m, p, q)
    BY <1>2, <1>11
  <2>2. a \in Seq(S)
    BY <1>2
  <2> HIDE DEF p, q
  <2>3. p = a /\ q = yb
    BY <1>9, <1>10, <2>1, <2>2, SameEnd
  <2>4. QED
    BY <2>3 DEF p, q
<1>13. InsertAt(m, i, x) = (a \o px) \o yb
  BY <1>1, <1>6, <1>12, Zenon DEF px, n
<1>14. Joins((a \o px) \o (py \o b), a, (px \o py) \o b)
  BY <1>8, FourJoined
<1>15. Joins((a \o pxy) \o b, a, pxy \o b)
  BY <1>8, ThreeJoined
<1>16. (a \o pxy) \o b = InsertAt(m, i, x)
  BY <1>7, <1>13, <1>14, <1>15, Zenon DEF Joins, yb
<1>17. QED
  BY <1>16, Zenon DEF a, b, m, pxy

-----------------------------------------------------------------------------

(* Albums with at least one track. *)
Stocked == [tracks : Seq(Tracks) \ {<<>>}, at : Nat \ {0}]

(* A queue holds Stocked albums, except where a track list is emptied in   *)
(* place before its album is removed.                                      *)
Kinds == {Item, Stocked}

FitsIn(S, items, current, selected) ==
  /\ items \in Seq(S)
  /\ current \in 0..Len(items)
  /\ selected \in Nat \ {0}
  /\ selected <= IF Len(items) = 0 THEN 1 ELSE Len(items)

Made(items, current, selected) == [items |-> items, current |-> current, selected |-> selected]

(* A controller whose items are of kind S, with a cursor and a selection   *)
(* that fit.  Every operation is shown to return a Made(...) whose parts   *)
(* fit.                                                                    *)
Formed(S, c) ==
  /\ c = Made(c.items, c.current, c.selected)
  /\ FitsIn(S, c.items, c.current, c.selected)
Shaped(c) == Formed(Item, c)

LEMMA StockIs ==
  ASSUME NEW S \in Kinds, NEW x \in S
  PROVE  /\ x.tracks \in Seq(Tracks) /\ Len(x.tracks) \in Nat /\ DOMAIN x.tracks = 1..Len(x.tracks)
         /\ x.at \in Nat /\ x.at >= 1
         /\ x = [tracks |-> x.tracks, at |-> x.at]
         /\ S = Stocked => x.tracks # <<>>
<1>1. CASE S = Item
  <2>1. Stocked # Item
    <3>1. [tracks |-> <<>>, at |-> 1] \in Item
      BY DEF Item
    <3>2. [tracks |-> <<>>, at |-> 1] \notin Stocked
      BY DEF Stocked
    <3>3. QED
      BY <3>1, <3>2
  <2>2. x.tracks \in Seq(Tracks) /\ x.at \in Nat /\ x.at >= 1 /\ x = [tracks |-> x.tracks, at |-> x.at]
    BY <1>1 DEF Item
  <2>3. QED
    BY <1>1, <2>1, <2>2, LenProperties
<1>2. CASE S = Stocked
  <2>1. /\ x.tracks \in Seq(Tracks) /\ x.tracks # <<>> /\ x.at \in Nat /\ x.at >= 1
        /\ x = [tracks |-> x.tracks, at |-> x.at]
    BY <1>2 DEF Stocked
  <2>2. QED
    BY <2>1, LenProperties
<1>3. QED
  BY <1>1, <1>2 DEF Kinds

LEMMA StockMade ==
  ASSUME NEW S \in Kinds, NEW t \in Seq(Tracks), S = Stocked => t # <<>>, NEW k \in Nat, k >= 1
  PROVE  [tracks |-> t, at |-> k] \in S
<1>1. CASE S = Item
  BY <1>1 DEF Item
<1>2. CASE S = Stocked
  BY <1>2 DEF Stocked
<1>3. QED
  BY <1>1, <1>2 DEF Kinds

LEMMA StockWith ==
  ASSUME NEW S \in Kinds, NEW x \in S
  PROVE  /\ \A t \in Seq(Tracks) : (S = Stocked => t # <<>>) => [x EXCEPT !.tracks = t] \in S
         /\ \A k \in Nat : k >= 1 => /\ [x EXCEPT !.at = k] \in S
                                     /\ [x EXCEPT !.at = k].tracks = x.tracks
<1>1. /\ x = [tracks |-> x.tracks, at |-> x.at] /\ x.tracks \in Seq(Tracks) /\ x.at \in Nat /\ x.at >= 1
      /\ S = Stocked => x.tracks # <<>>
  BY StockIs
<1>2. ASSUME NEW t \in Seq(Tracks), S = Stocked => t # <<>> PROVE [x EXCEPT !.tracks = t] \in S
  <2>1. [x EXCEPT !.tracks = t] = [tracks |-> t, at |-> x.at]
    BY <1>1
  <2>2. [tracks |-> t, at |-> x.at] \in S
    BY <1>1, <1>2, StockMade
  <2>3. QED
    BY <2>1, <2>2
<1>3. ASSUME NEW k \in Nat, k >= 1
      PROVE  [x EXCEPT !.at = k] \in S /\ [x EXCEPT !.at = k].tracks = x.tracks
  <2>1. [x EXCEPT !.at = k] = [tracks |-> x.tracks, at |-> k]
    BY <1>1
  <2>2. [tracks |-> x.tracks, at |-> k] \in S
    BY <1>1, <1>3, StockMade
  <2>3. QED
    BY <2>1, <2>2
<1>4. QED
  BY <1>2, <1>3

LEMMA NewItemIn ==
  ASSUME NEW S \in Kinds, NEW a \in Seq(Tracks), S = Stocked => a # <<>>
  PROVE  NewItem(a) \in S
BY StockMade DEF NewItem

LEMMA MadeFormed ==
  ASSUME NEW S \in Kinds, NEW items, NEW current, NEW selected, FitsIn(S, items, current, selected)
  PROVE  Formed(S, Made(items, current, selected))
BY DEF Formed, Made

LEMMA FormedFits ==
  ASSUME NEW S \in Kinds, NEW c, Formed(S, c)
  PROVE  c = Made(c.items, c.current, c.selected) /\ FitsIn(S, c.items, c.current, c.selected)
BY DEF Formed

LEMMA FormedFacts ==
  ASSUME NEW S \in Kinds, NEW c, Formed(S, c)
  PROVE  /\ c.items \in Seq(S) /\ Len(c.items) \in Nat /\ DOMAIN c.items = 1..Len(c.items)
         /\ c.current \in Nat /\ c.current <= Len(c.items)
         /\ c.selected \in Nat /\ c.selected >= 1
         /\ c.selected <= IF Len(c.items) = 0 THEN 1 ELSE Len(c.items)
<1>1. FitsIn(S, c.items, c.current, c.selected)
  BY FormedFits
<1>2. c.items \in Seq(S) /\ Len(c.items) \in Nat /\ DOMAIN c.items = 1..Len(c.items)
  BY <1>1, LenProperties DEF FitsIn
<1>3. QED
  BY <1>1, <1>2 DEF FitsIn

LEMMA FormedItem ==
  ASSUME NEW S \in Kinds, NEW c, Formed(S, c), NEW i \in DOMAIN c.items
  PROVE  /\ c.items[i] \in S
         /\ c.items[i].tracks \in Seq(Tracks)
         /\ Len(c.items[i].tracks) \in Nat
         /\ DOMAIN c.items[i].tracks = 1..Len(c.items[i].tracks)
         /\ c.items[i].at \in Nat /\ c.items[i].at >= 1
<1>1. c.items[i] \in S
  BY FormedFacts, ElementOfSeq
<1>2. QED
  BY <1>1, StockIs

(* The albums as lists of tracks.  Navigation leaves them alone. *)
Lists(c) == [i \in DOMAIN c.items |-> c.items[i].tracks]
KeepsIn(S, c, d) == Formed(S, d) /\ Lists(d) = Lists(c)

LEMMA FormedLists ==
  ASSUME NEW S \in Kinds, NEW c, Formed(S, c)
  PROVE  /\ Lists(c) \in Seq(Seq(Tracks)) /\ Len(Lists(c)) = Len(c.items)
         /\ \A i \in DOMAIN c.items : Lists(c)[i] = c.items[i].tracks
<1>1. \A i \in DOMAIN c.items : c.items[i].tracks \in Seq(Tracks)
  BY FormedItem
<1>2. QED
  BY <1>1, FormedFacts DEF Lists

(* The cursor's index in album i becomes k; album j becomes the current one. *)
Placed(c, i, k) == [c EXCEPT !.items[i].at = k]
CursorAt(c, i, k, j) == [c EXCEPT !.items[i].at = k, !.current = j]

LEMMA PlacedKeepsIn ==
  ASSUME NEW S \in Kinds, NEW c, Formed(S, c), NEW i \in DOMAIN c.items, NEW k \in Nat, k >= 1
  PROVE  /\ KeepsIn(S, c, Placed(c, i, k))
         /\ \A j \in 0..Len(c.items) : KeepsIn(S, c, CursorAt(c, i, k, j))
<1> DEFINE x == [c.items[i] EXCEPT !.at = k]
           items == [c.items EXCEPT ![i] = x]
<1>1. x \in S /\ x.tracks = c.items[i].tracks
  BY FormedItem, StockWith
<1> HIDE DEF x
<1>2. items \in Seq(S) /\ Len(items) = Len(c.items)
  BY <1>1, FormedFacts, ExceptSeq
<1>3. /\ DOMAIN items = DOMAIN c.items
      /\ \A j \in DOMAIN c.items : items[j].tracks = c.items[j].tracks
  BY <1>1, FormedFacts
<1> HIDE DEF items
<1>4. ASSUME NEW j \in 0..Len(c.items) PROVE KeepsIn(S, c, Made(items, j, c.selected))
  <2>1. FitsIn(S, items, j, c.selected)
    BY <1>2, FormedFacts DEF FitsIn
  <2>2. Lists(Made(items, j, c.selected)) = Lists(c)
    BY <1>3 DEF Lists, Made
  <2>3. QED
    BY <2>1, <2>2, MadeFormed DEF KeepsIn
<1>5. c = Made(c.items, c.current, c.selected)
  BY FormedFits
<1>6. Placed(c, i, k) = Made(items, c.current, c.selected)
  BY <1>5 DEF Placed, Made, items, x
<1>7. ASSUME NEW j PROVE CursorAt(c, i, k, j) = Made(items, j, c.selected)
  <2>1. CursorAt(c, i, k, j) = [Placed(c, i, k) EXCEPT !.current = j]
    BY DEF CursorAt, Placed
  <2>2. QED
    BY <1>6, <2>1 DEF Made
<1>8. c.current \in 0..Len(c.items)
  BY FormedFacts
<1>9. QED
  BY <1>4, <1>6, <1>7, <1>8

-----------------------------------------------------------------------------
(* The operations, one by one. *)

LEMMA JumpToKeepsIn ==
  ASSUME NEW S \in Kinds, NEW c, Formed(S, c), NEW i \in DOMAIN c.items
  PROVE  KeepsIn(S, c, JumpTo(c, i))
<1>1. JumpTo(c, i) = CursorAt(c, i, 1, i)
  BY DEF JumpTo, CursorAt
<1>2. i \in 0..Len(c.items)
  BY FormedFacts
<1>3. QED
  BY <1>1, <1>2, PlacedKeepsIn

LEMMA NextTrackKeepsIn ==
  ASSUME NEW S \in Kinds, NEW c, Formed(S, c)
  PROVE  KeepsIn(S, c, NextTrack(c))
<1>1. CASE c.current \notin DOMAIN c.items
  BY <1>1 DEF NextTrack, KeepsIn
<1>2. CASE c.current \in DOMAIN c.items /\ HasNextInItem(c)
  <2> DEFINE k == c.items[c.current].at + 1
  <2>1. k \in Nat /\ k >= 1
    BY <1>2, FormedItem
  <2>2. NextTrack(c) = Placed(c, c.current, k)
    BY <1>2 DEF NextTrack, Placed
  <2> HIDE DEF k
  <2>3. QED
    BY <1>2, <2>1, <2>2, PlacedKeepsIn
<1>3. CASE c.current \in DOMAIN c.items /\ ~HasNextInItem(c)
  <2>1. CASE c.current < Len(c.items)
    <3>1. c.current + 1 \in DOMAIN c.items
      BY <2>1, FormedFacts
    <3>2. NextTrack(c) = JumpTo(c, c.current + 1)
      BY <1>3, <2>1 DEF NextTrack
    <3>3. QED
      BY <3>1, <3>2, JumpToKeepsIn
  <2>2. CASE ~(c.current < Len(c.items))
    BY <1>3, <2>2 DEF NextTrack, KeepsIn
  <2>3. QED
    BY <2>1, <2>2
<1>4. QED
  BY <1>1, <1>2, <1>3

(* Queue::previous_track steps back within the current album ... *)
LEMMA StepBackIs ==
  ASSUME NEW S \in Kinds, NEW c, Formed(S, c), c.current \in DOMAIN c.items
  PROVE  LET at == c.items[c.current].at
             k == IF at > 1 THEN at - 1 ELSE 1
         IN /\ StepBack(c) = Placed(c, c.current, k) /\ k \in Nat /\ k >= 1 /\ k <= at
            /\ at = 1 => StepBack(c) = c
            /\ HasPreviousInItem(c) <=> at > 1 /\ at - 1 <= Len(c.items[c.current].tracks)
<1> DEFINE i == c.current
           at == c.items[i].at
           k == IF at > 1 THEN at - 1 ELSE 1
<1>1. at \in Nat /\ at >= 1 /\ DOMAIN c.items[i].tracks = 1..Len(c.items[i].tracks)
      /\ Len(c.items[i].tracks) \in Nat
  BY FormedItem
<1>2. k \in Nat /\ k >= 1 /\ k <= at
  BY <1>1
<1>3. StepBack(c) = Placed(c, i, k)
  BY DEF StepBack, Placed
<1>4. HasPreviousInItem(c) <=> at > 1 /\ at - 1 <= Len(c.items[i].tracks)
  BY <1>1 DEF HasPreviousInItem
<1>5. ASSUME at = 1 PROVE StepBack(c) = c
  <2>1. k = at
    BY <1>5
  <2>2. c.items[i] = [tracks |-> c.items[i].tracks, at |-> at]
    BY FormedItem, StockIs
  <2>3. [c.items[i] EXCEPT !.at = at] = c.items[i]
    BY <2>2, Zenon
  <2>4. [c.items EXCEPT ![i] = c.items[i]] = c.items
    BY FormedFacts
  <2>5. c = Made(c.items, c.current, c.selected)
    BY FormedFits
  <2>6. Placed(c, i, at) = [c EXCEPT !.items = c.items]
    BY <2>3, <2>4 DEF Placed
  <2>7. QED
    BY <1>3, <2>1, <2>5, <2>6 DEF Made
<1>6. QED
  BY <1>2, <1>3, <1>4, <1>5

(* ... or goes to the last track of the album before it. *)
LEMMA PreviousTrackIs ==
  ASSUME NEW S \in Kinds, NEW c, Formed(S, c), c.current \in DOMAIN c.items
  PROVE  LET p == c.current - 1
             k == Max({1, Len(c.items[p].tracks)})
         IN /\ HasPreviousInItem(c) \/ c.current = 1 => PreviousTrack(c) = StepBack(c)
            /\ ~HasPreviousInItem(c) /\ c.current # 1 =>
                 /\ PreviousTrack(c) = CursorAt(StepBack(c), p, k, p)
                 /\ p \in DOMAIN c.items /\ p \in 0..Len(c.items) /\ p # c.current
                 /\ k \in Nat /\ k >= 1 /\ Len(c.items[p].tracks) \in Nat
                 /\ Len(c.items[p].tracks) >= 1 => k = Len(c.items[p].tracks)
<1> DEFINE p == c.current - 1
           n == Len(c.items[p].tracks)
           k == Max({1, n})
<1>1. ASSUME HasPreviousInItem(c) \/ c.current = 1 PROVE PreviousTrack(c) = StepBack(c)
  BY <1>1 DEF PreviousTrack
<1>2. ASSUME ~HasPreviousInItem(c), c.current # 1
      PROVE  /\ PreviousTrack(c) = CursorAt(StepBack(c), p, k, p)
             /\ p \in DOMAIN c.items /\ p \in 0..Len(c.items) /\ p # c.current
             /\ k \in Nat /\ k >= 1 /\ n \in Nat
             /\ n >= 1 => k = n
  <2>1. PreviousTrack(c) = CursorAt(StepBack(c), p, k, p)
    BY <1>2 DEF PreviousTrack, CursorAt
  <2>2. p \in DOMAIN c.items /\ p \in 0..Len(c.items) /\ p # c.current
    BY <1>2, FormedFacts
  <2>3. n \in Nat
    BY <2>2, FormedItem
  <2> HIDE DEF n
  <2>4. k \in Nat /\ k >= 1 /\ (n >= 1 => k = n)
    <3>1. \E m \in {1, n} : \A x \in {1, n} : m >= x
      BY <2>3
    <3>2. k \in {1, n} /\ \A x \in {1, n} : k >= x
      BY <3>1 DEF Max
    <3> HIDE DEF k
    <3>3. QED
      BY <2>3, <3>2
  <2>5. QED
    BY <2>1, <2>2, <2>3, <2>4 DEF n
<1>3. QED
  BY <1>1, <1>2

LEMMA PreviousTrackKeepsIn ==
  ASSUME NEW S \in Kinds, NEW c, Formed(S, c)
  PROVE  KeepsIn(S, c, PreviousTrack(c))
<1>1. CASE c.current \notin DOMAIN c.items
  BY <1>1 DEF PreviousTrack, KeepsIn
<1>2. CASE c.current \in DOMAIN c.items
  <2> DEFINE d == StepBack(c)
             at == c.items[c.current].at
             k == IF at > 1 THEN at - 1 ELSE 1
  <2>1. d = Placed(c, c.current, k) /\ k \in Nat /\ k >= 1
    BY <1>2, StepBackIs
  <2> HIDE DEF k, d
  <2>2. KeepsIn(S, c, d)
    BY <1>2, <2>1, PlacedKeepsIn
  <2>3. CASE HasPreviousInItem(c) \/ c.current = 1
    <3>1. PreviousTrack(c) = d
      BY <1>2, <2>3, PreviousTrackIs DEF d
    <3>2. QED
      BY <2>2, <3>1
  <2>4. CASE ~HasPreviousInItem(c) /\ c.current # 1
    <3> DEFINE p == c.current - 1
               m == Max({1, Len(c.items[p].tracks)})
    <3>1. /\ PreviousTrack(c) = CursorAt(d, p, m, p) /\ p \in DOMAIN c.items /\ p \in 0..Len(c.items)
          /\ m \in Nat /\ m >= 1
      BY <1>2, <2>4, PreviousTrackIs DEF d
    <3> HIDE DEF p, m
    <3>2. Formed(S, d) /\ Lists(d) = Lists(c)
      BY <2>2 DEF KeepsIn
    <3>3. Len(d.items) = Len(c.items)
      BY <3>2, FormedLists
    <3>4. DOMAIN d.items = DOMAIN c.items
      BY <3>2, <3>3, FormedFacts
    <3>5. KeepsIn(S, d, CursorAt(d, p, m, p))
      BY <3>1, <3>2, <3>3, <3>4, PlacedKeepsIn
    <3>6. QED
      BY <3>1, <3>2, <3>5 DEF KeepsIn
  <2>5. QED
    BY <2>3, <2>4
<1>3. QED
  BY <1>1, <1>2

LEMMA AddAlbumMade ==
  ASSUME NEW S \in Kinds, NEW c, Formed(S, c), NEW a \in Seq(Tracks), S = Stocked => a # <<>>
  PROVE  /\ Formed(S, AddAlbum(c, a)) /\ Formed(S, PlayAlbumNow(c, a))
         /\ AddAlbum(c, a).current = c.current
         /\ Len(AddAlbum(c, a).items) = Len(c.items) + 1 /\ Len(PlayAlbumNow(c, a).items) = Len(c.items) + 1
<1> DEFINE items == Append(c.items, NewItem(a))
<1>1. items \in Seq(S) /\ Len(items) = Len(c.items) + 1
  BY FormedFacts, NewItemIn
<1>2. AddAlbum(c, a) = [c EXCEPT !.items = items]
  BY DEF AddAlbum
<1> HIDE DEF items
<1>3. AddAlbum(c, a) = Made(items, c.current, c.selected)
  BY <1>2, FormedFits DEF Made
<1>4. PlayAlbumNow(c, a) = Made(items, Len(c.items) + 1, c.selected)
  BY <1>3 DEF PlayAlbumNow, Made
<1>5. FitsIn(S, items, c.current, c.selected) /\ FitsIn(S, items, Len(c.items) + 1, c.selected)
  BY <1>1, FormedFacts DEF FitsIn
<1>6. Formed(S, AddAlbum(c, a)) /\ Formed(S, PlayAlbumNow(c, a))
  BY <1>3, <1>4, <1>5, MadeFormed
<1>7. QED
  BY <1>1, <1>3, <1>4, <1>6 DEF Made

LEMMA AddAlbumFormed ==
  ASSUME NEW S \in Kinds, NEW c, Formed(S, c), NEW a \in Seq(Tracks), S = Stocked => a # <<>>
  PROVE  Formed(S, AddAlbum(c, a)) /\ Formed(S, PlayAlbumNow(c, a))
BY AddAlbumMade

LEMMA EnqueuePlaylistMade ==
  ASSUME NEW S \in Kinds, NEW c, Formed(S, c), NEW paths \in Seq(Tracks)
  PROVE  /\ Formed(S, EnqueuePlaylist(c, paths))
         /\ EnqueuePlaylist(c, paths).current = c.current
         /\ Len(EnqueuePlaylist(c, paths).items) >= Len(c.items)
<1> DEFINE fresh(k) == ~InQueue(c, paths[k]) /\ \A j \in 1..(k - 1) : paths[j] # paths[k]
           new == [k \in DOMAIN paths |-> IF fresh(k) THEN <<NewItem(<<paths[k]>>)>> ELSE <<>>]
           items == c.items \o FlattenSeq(new)
<1>1. new \in Seq(Seq(S))
  <2>1. Len(paths) \in Nat /\ DOMAIN paths = 1..Len(paths)
    BY LenProperties
  <2>2. ASSUME NEW k \in 1..Len(paths) PROVE <<NewItem(<<paths[k]>>)>> \in Seq(S)
    <3>1. <<paths[k]>> \in Seq(Tracks) /\ <<paths[k]>> # <<>>
      BY ElementOfSeq
    <3>2. NewItem(<<paths[k]>>) \in S
      BY <3>1, NewItemIn
    <3>3. QED
      BY <3>2
  <2>3. <<>> \in Seq(S)
    OBVIOUS
  <2> HIDE DEF fresh
  <2>4. QED
    BY <2>1, <2>2, <2>3
<1>2. EnqueuePlaylist(c, paths) = [c EXCEPT !.items = items]
  BY DEF EnqueuePlaylist
<1> HIDE DEF new
<1>3. FlattenSeq(new) \in Seq(S)
  BY <1>1, FlattenType
<1>4. items \in Seq(S) /\ Len(items) \in Nat /\ Len(items) >= Len(c.items)
  <2>1. c.items \in Seq(S)
    BY FormedFacts
  <2>2. QED
    BY <1>3, <2>1, Joined
<1> HIDE DEF items
<1>5. FitsIn(S, items, c.current, c.selected)
  BY <1>4, FormedFacts DEF FitsIn
<1>6. [c EXCEPT !.items = items] = Made(items, c.current, c.selected)
  BY FormedFits DEF Made
<1>7. Formed(S, EnqueuePlaylist(c, paths))
  BY <1>2, <1>5, <1>6, MadeFormed
<1>8. QED
  BY <1>2, <1>4, <1>6, <1>7 DEF Made

LEMMA EnqueuePlaylistFormed ==
  ASSUME NEW S \in Kinds, NEW c, Formed(S, c), NEW paths \in Seq(Tracks)
  PROVE  Formed(S, EnqueuePlaylist(c, paths))
BY EnqueuePlaylistMade

LEMMA PlaySingleFileNowKeepsIn ==
  ASSUME NEW S \in Kinds, NEW c, Formed(S, c), NEW t \in Tracks
  PROVE  /\ Formed(S, PlaySingleFileNow(c, t))
         /\ InQueue(c, t) => KeepsIn(S, c, PlaySingleFileNow(c, t))
<1>1. CASE InQueue(c, t)
  <2> DEFINE I == {j \in DOMAIN c.items : t \in Range(c.items[j].tracks)}
             i == Min(I)
             K == {j \in DOMAIN c.items[i].tracks : c.items[i].tracks[j] = t}
             k == Min(K)
  <2>1. PlaySingleFileNow(c, t) = CursorAt(c, i, k, i)
    BY <1>1 DEF PlaySingleFileNow, CursorAt
  <2>2. i \in I
    <3>1. I \subseteq Nat /\ I # {}
      BY <1>1, FormedFacts DEF InQueue
    <3> HIDE DEF I
    <3>2. QED
      BY <3>1, MinIs
  <2>3. i \in DOMAIN c.items /\ t \in Range(c.items[i].tracks) /\ i \in 0..Len(c.items)
    BY <2>2, FormedFacts
  <2> HIDE DEF i
  <2>4. k \in K
    <3>1. K \subseteq Nat /\ K # {}
      BY <2>3, FormedItem DEF Range
    <3> HIDE DEF K
    <3>2. QED
      BY <3>1, MinIs
  <2>5. k \in Nat /\ k >= 1
    BY <2>3, <2>4, FormedItem
  <2> HIDE DEF k
  <2>6. QED
    BY <2>1, <2>3, <2>5, PlacedKeepsIn DEF KeepsIn
<1>2. CASE ~InQueue(c, t)
  <2>1. <<t>> \in Seq(Tracks) /\ <<t>> # <<>>
    OBVIOUS
  <2>2. PlaySingleFileNow(c, t) = PlayAlbumNow(c, <<t>>)
    BY <1>2 DEF PlaySingleFileNow
  <2>3. QED
    BY <1>2, <2>1, <2>2, AddAlbumFormed
<1>3. QED
  BY <1>1, <1>2

LEMMA ClampedFormed ==
  ASSUME NEW S \in Kinds, NEW items \in Seq(S), NEW current \in 0..Len(items), NEW selected \in Nat, selected >= 1
  PROVE  Formed(S, ClampSelected(Made(items, current, selected)))
<1> DEFINE s == IF selected > Len(items) THEN IF Len(items) = 0 THEN 1 ELSE Len(items) ELSE selected
<1>1. ClampSelected(Made(items, current, selected)) = Made(items, current, s)
  BY DEF ClampSelected, Made
<1>2. FitsIn(S, items, current, s)
  BY LenProperties DEF FitsIn
<1>3. QED
  BY <1>1, <1>2, MadeFormed

(* A changed field and the rest as it was. *)
LEMMA MadeUpdated ==
  ASSUME NEW c, c = Made(c.items, c.current, c.selected), NEW items
  PROVE  /\ [c EXCEPT !.items = items] = Made(items, c.current, c.selected)
         /\ \A current : [c EXCEPT !.items = items, !.current = current] = Made(items, current, c.selected)
         /\ \A selected : [c EXCEPT !.items = items, !.selected = selected]
                          = Made(items, c.current, selected)
<1>1. c = Made(c.items, c.current, c.selected)
  OBVIOUS
<1> DEFINE r == [c EXCEPT !.items = items]
<1>2. r = Made(items, c.current, c.selected)
  BY <1>1 DEF Made
<1>3. /\ \A current : [c EXCEPT !.items = items, !.current = current] = [r EXCEPT !.current = current]
      /\ \A selected : [c EXCEPT !.items = items, !.selected = selected] = [r EXCEPT !.selected = selected]
  OBVIOUS
<1>4. [c EXCEPT !.items = items] = r
  OBVIOUS
<1> HIDE DEF r
<1>5. \A current : [r EXCEPT !.current = current] = Made(items, current, c.selected)
  BY <1>2 DEF Made
<1>6. \A selected : [r EXCEPT !.selected = selected] = Made(items, c.current, selected)
  BY <1>2 DEF Made
<1>7. QED
  BY <1>2, <1>3, <1>4, <1>5, <1>6, Zenon

LEMMA UpdatedIn ==
  ASSUME NEW S \in Kinds, NEW c, Formed(S, c), NEW items
  PROVE  /\ [c EXCEPT !.items = items] = Made(items, c.current, c.selected)
         /\ \A current : [c EXCEPT !.items = items, !.current = current] = Made(items, current, c.selected)
         /\ \A selected : [c EXCEPT !.items = items, !.selected = selected]
                          = Made(items, c.current, selected)
<1>1. c = Made(c.items, c.current, c.selected)
  BY FormedFits
<1>2. QED
  BY <1>1, MadeUpdated, Zenon

LEMMA PlacedIn ==
  ASSUME NEW S \in Kinds, NEW c, Formed(S, c), NEW items, NEW selected
  PROVE  [c EXCEPT !.items = items, !.selected = selected] = Made(items, c.current, selected)
<1>1. \A y : [c EXCEPT !.items = items, !.selected = y] = Made(items, c.current, y)
  BY UpdatedIn, Zenon
<1>2. QED
  BY <1>1

LEMMA ClampedItems ==
  ASSUME NEW items, NEW current, NEW selected
  PROVE  ClampSelected(Made(items, current, selected)).items = items
BY DEF ClampSelected, Made

LEMMA RemoveAlbumMade ==
  ASSUME NEW S \in Kinds, NEW c, Formed(S, c), NEW i \in DOMAIN c.items
  PROVE  Formed(S, RemoveAlbum(c, i)) /\ Len(RemoveAlbum(c, i).items) = Len(c.items) - 1
<1> DEFINE items == RemoveAt(c.items, i)
           first == [items EXCEPT ![i].at = 1]
<1>1. i \in Nat /\ i >= 1 /\ i <= Len(c.items) /\ Len(c.items) \in Nat
  BY FormedFacts
<1>2. items \in Seq(S) /\ Len(items) = Len(c.items) - 1
  <2>1. c.items \in Seq(S) /\ i \in 1..Len(c.items)
    BY FormedFacts
  <2>2. QED
    BY <2>1, Removed
<1>3. i <= Len(items) => first \in Seq(S) /\ Len(first) = Len(items)
  <2> HIDE DEF items
  <2>1. SUFFICES ASSUME i <= Len(items) PROVE first \in Seq(S) /\ Len(first) = Len(items)
    OBVIOUS
  <2>2. i \in 1..Len(items)
    BY <1>1, <1>2, <2>1
  <2> DEFINE x == [items[i] EXCEPT !.at = 1]
  <2>3. x \in S
    <3>1. items[i] \in S
      BY <1>2, <2>2, ElementOfSeq
    <3>2. 1 \in Nat /\ 1 >= 1
      OBVIOUS
    <3>3. QED
      BY <3>1, <3>2, StockWith
  <2>4. first = [items EXCEPT ![i] = x]
    OBVIOUS
  <2> HIDE DEF x, first
  <2>5. QED
    BY <1>2, <2>2, <2>3, <2>4, ExceptSeq
<1>4. RemoveAlbum(c, i) =
        ClampSelected(CASE c.current # i /\ c.current <= i -> [c EXCEPT !.items = items]
                        [] c.current > i -> [c EXCEPT !.items = items, !.current = c.current - 1]
                        [] c.current = i /\ i <= Len(items) -> [c EXCEPT !.items = first]
                        [] OTHER -> [c EXCEPT !.items = items, !.current = i - 1])
  BY DEF RemoveAlbum
<1> HIDE DEF items, first
<1>5. c.current \in Nat /\ c.current <= Len(c.items) /\ c.selected \in Nat /\ c.selected >= 1
  BY FormedFacts
<1>6. CASE c.current < i
  <2>1. RemoveAlbum(c, i) = ClampSelected(Made(items, c.current, c.selected))
    <3>1. RemoveAlbum(c, i) = ClampSelected([c EXCEPT !.items = items])
      BY <1>1, <1>4, <1>5, <1>6
    <3>2. [c EXCEPT !.items = items] = Made(items, c.current, c.selected)
      BY UpdatedIn, Zenon
    <3>3. QED
      BY <3>1, <3>2
  <2>2. c.current \in 0..Len(items)
    BY <1>1, <1>2, <1>5, <1>6
  <2>3. QED
    BY <1>2, <1>5, <2>1, <2>2, ClampedFormed, ClampedItems
<1>7. CASE c.current > i
  <2>1. RemoveAlbum(c, i) = ClampSelected(Made(items, c.current - 1, c.selected))
    <3>1. RemoveAlbum(c, i) = ClampSelected([c EXCEPT !.items = items, !.current = c.current - 1])
      BY <1>1, <1>4, <1>5, <1>7
    <3>2. [c EXCEPT !.items = items, !.current = c.current - 1] = Made(items, c.current - 1, c.selected)
      BY UpdatedIn, Zenon
    <3>3. QED
      BY <3>1, <3>2
  <2>2. c.current - 1 \in 0..Len(items)
    BY <1>1, <1>2, <1>5, <1>7
  <2>3. QED
    BY <1>2, <1>5, <2>1, <2>2, ClampedFormed, ClampedItems
<1>8. CASE c.current = i /\ i <= Len(items)
  <2>1. RemoveAlbum(c, i) = ClampSelected(Made(first, c.current, c.selected))
    <3>1. RemoveAlbum(c, i) = ClampSelected([c EXCEPT !.items = first])
      BY <1>1, <1>4, <1>5, <1>8
    <3>2. [c EXCEPT !.items = first] = Made(first, c.current, c.selected)
      BY UpdatedIn, Zenon
    <3>3. QED
      BY <3>1, <3>2
  <2>2. c.current \in 0..Len(first)
    BY <1>1, <1>2, <1>3, <1>8
  <2>3. Formed(S, RemoveAlbum(c, i))
    BY <1>3, <1>5, <1>8, <2>1, <2>2, ClampedFormed
  <2>4. RemoveAlbum(c, i).items = first
    BY <2>1, ClampedItems
  <2>5. QED
    BY <1>2, <1>3, <1>8, <2>3, <2>4
<1>9. CASE c.current = i /\ ~(i <= Len(items))
  <2>1. RemoveAlbum(c, i) = ClampSelected(Made(items, i - 1, c.selected))
    <3>1. RemoveAlbum(c, i) = ClampSelected([c EXCEPT !.items = items, !.current = i - 1])
      BY <1>1, <1>4, <1>5, <1>9
    <3>2. [c EXCEPT !.items = items, !.current = i - 1] = Made(items, i - 1, c.selected)
      BY UpdatedIn, Zenon
    <3>3. QED
      BY <3>1, <3>2
  <2>2. i - 1 \in 0..Len(items)
    BY <1>1, <1>2
  <2>3. QED
    BY <1>2, <1>5, <2>1, <2>2, ClampedFormed, ClampedItems
<1>10. QED
  BY <1>1, <1>5, <1>6, <1>7, <1>8, <1>9

LEMMA RemoveAlbumFormed ==
  ASSUME NEW S \in Kinds, NEW c, Formed(S, c), NEW i \in DOMAIN c.items
  PROVE  Formed(S, RemoveAlbum(c, i))
BY RemoveAlbumMade

LEMMA MoveItemMade ==
  ASSUME NEW S \in Kinds, NEW c, Formed(S, c), NEW from \in DOMAIN c.items, NEW to \in DOMAIN c.items
  PROVE  Formed(S, MoveItem(c, from, to)) /\ Len(MoveItem(c, from, to).items) = Len(c.items)
<1> DEFINE left == RemoveAt(c.items, from)
           items == InsertAt(left, to, c.items[from])
           current == IF c.current = 0 THEN 0 ELSE MovedTo(c.current, from, to)
           selected == MovedTo(c.selected, from, to)
<1>1. /\ from \in Nat /\ from >= 1 /\ from <= Len(c.items)
      /\ to \in Nat /\ to >= 1 /\ to <= Len(c.items) /\ Len(c.items) \in Nat
  BY FormedFacts
<1>2. left \in Seq(S) /\ Len(left) = Len(c.items) - 1
  <2>1. c.items \in Seq(S) /\ from \in 1..Len(c.items)
    BY FormedFacts
  <2>2. QED
    BY <2>1, Removed
<1> HIDE DEF left
<1>3. items \in Seq(S) /\ Len(items) = Len(c.items)
  <2>1. to \in 1..(Len(left) + 1) /\ (Len(c.items) - 1) + 1 = Len(c.items)
    BY <1>1, <1>2
  <2>2. c.items[from] \in S
    BY FormedItem
  <2>3. QED
    BY <1>2, <2>1, <2>2, Inserted
<1>4. MoveItem(c, from, to) = Made(items, current, selected)
  BY DEF MoveItem, Made, left
<1> HIDE DEF items
<1>5. ASSUME NEW k \in 1..Len(c.items) PROVE MovedTo(k, from, to) \in 1..Len(c.items)
  BY <1>1 DEF MovedTo
<1>6. current \in 0..Len(c.items)
  <2>1. c.current \in 0..Len(c.items)
    BY FormedFacts
  <2>2. c.current # 0 => c.current \in 1..Len(c.items)
    BY <1>1, <2>1
  <2>3. QED
    BY <1>1, <1>5, <2>2
<1>7. selected \in 1..Len(c.items)
  <2>1. c.selected \in 1..Len(c.items)
    BY <1>1, FormedFacts
  <2>2. QED
    BY <1>5, <2>1
<1> HIDE DEF current, selected
<1>8. FitsIn(S, items, current, selected)
  BY <1>1, <1>3, <1>6, <1>7 DEF FitsIn
<1>9. Formed(S, MoveItem(c, from, to))
  BY <1>4, <1>8, MadeFormed
<1>10. QED
  BY <1>3, <1>4, <1>9 DEF Made

LEMMA MoveItemFormed ==
  ASSUME NEW S \in Kinds, NEW c, Formed(S, c), NEW from \in DOMAIN c.items, NEW to \in DOMAIN c.items
  PROVE  Formed(S, MoveItem(c, from, to))
BY MoveItemMade

(* Album i with other tracks. *)
Retracked(c, i, tracks) == [c.items EXCEPT ![i].tracks = tracks]

LEMMA RetrackedIn ==
  ASSUME NEW S \in Kinds, NEW c, Formed(S, c), NEW i \in DOMAIN c.items, NEW tracks \in Seq(Tracks), S = Stocked => tracks # <<>>
  PROVE  Retracked(c, i, tracks) \in Seq(S) /\ Len(Retracked(c, i, tracks)) = Len(c.items)
<1> DEFINE x == [c.items[i] EXCEPT !.tracks = tracks]
<1>1. x \in S
  BY FormedItem, StockWith
<1>2. Retracked(c, i, tracks) = [c.items EXCEPT ![i] = x]
  BY DEF Retracked
<1> HIDE DEF x
<1>3. QED
  BY <1>1, <1>2, FormedFacts, ExceptSeq

LEMMA EnqueueNextMade ==
  ASSUME NEW S \in Kinds, NEW c, Formed(S, c), NEW album \in Seq(Tracks), S = Stocked => album # <<>>
  PROVE  /\ Formed(S, EnqueueNext(c, album))
         /\ EnqueueNext(c, album).current = c.current
         /\ Len(EnqueueNext(c, album).items) \in Nat /\ Len(EnqueueNext(c, album).items) >= Len(c.items) + 1
<1> DEFINE cur   == c.items[c.current]
           split == c.current \in DOMAIN c.items /\ cur.at < Len(cur.tracks)
           place == IF c.current \in DOMAIN c.items THEN c.current + 1 ELSE 1
           head  == SubSeq(cur.tracks, 1, cur.at)
           tail  == SubSeq(cur.tracks, cur.at + 1, Len(cur.tracks))
           kept  == IF split THEN Retracked(c, c.current, head) ELSE c.items
           extra == IF split THEN <<NewItem(album), NewItem(tail)>> ELSE <<NewItem(album)>>
           items == SubSeq(kept, 1, place - 1) \o extra \o SubSeq(kept, place, Len(kept))
           selected == IF c.selected >= place /\ Len(c.items) > 0
                       THEN c.selected + Len(extra) ELSE c.selected
<1>1. EnqueueNext(c, album) = [c EXCEPT !.items = items, !.selected = selected]
  BY DEF EnqueueNext, Retracked
<1>2. kept \in Seq(S) /\ Len(kept) = Len(c.items)
  <2>1. CASE split
    <3>1. /\ cur.tracks \in Seq(Tracks) /\ Len(cur.tracks) \in Nat
          /\ 1 \in 1..Len(cur.tracks) /\ cur.at \in 1..Len(cur.tracks)
      BY <2>1, FormedItem
    <3>2. head \in Seq(Tracks) /\ head # <<>>
      BY <3>1, Cropped
    <3> HIDE DEF head
    <3>3. QED
      BY <2>1, <3>2, RetrackedIn
  <2>2. CASE ~split
    BY <2>2, FormedFacts
  <2>3. QED
    BY <2>1, <2>2
<1>3. extra \in Seq(S) /\ Len(extra) \in Nat /\ Len(extra) >= 1
  <2>1. CASE split
    <3>1. /\ cur.tracks \in Seq(Tracks) /\ Len(cur.tracks) \in Nat
          /\ cur.at + 1 \in 1..Len(cur.tracks) /\ Len(cur.tracks) \in (cur.at + 1)..Len(cur.tracks)
      BY <2>1, FormedItem
    <3>2. tail \in Seq(Tracks) /\ tail # <<>>
      BY <3>1, Cropped
    <3> HIDE DEF tail
    <3>3. NewItem(album) \in S /\ NewItem(tail) \in S
      BY <3>2, NewItemIn
    <3>4. extra = <<NewItem(album), NewItem(tail)>>
      BY <2>1
    <3>5. QED
      BY <3>3, <3>4
  <2>2. CASE ~split
    <3>1. NewItem(album) \in S
      BY NewItemIn
    <3>2. extra = <<NewItem(album)>>
      BY <2>2
    <3>3. QED
      BY <3>1, <3>2
  <2>3. QED
    BY <2>1, <2>2
<1>4. place \in 1..(Len(c.items) + 1) /\ Len(c.items) \in Nat
  BY FormedFacts
<1> HIDE DEF kept, extra, place, split
<1>5. items \in Seq(S) /\ Len(items) = Len(c.items) + Len(extra)
  <2>1. kept \in Seq(S) /\ extra \in Seq(S) /\ place \in 1..(Len(kept) + 1)
    BY <1>2, <1>3, <1>4
  <2>2. items \in Seq(S) /\ Len(items) = Len(kept) + Len(extra)
    BY <2>1, Spliced
  <2>3. QED
    BY <1>2, <2>2
<1> HIDE DEF items
<1>6. FitsIn(S, items, c.current, selected)
  <2>1. c.current \in 0..Len(items) /\ Len(items) # 0
    BY <1>3, <1>4, <1>5, FormedFacts
  <2>2. /\ c.selected \in Nat /\ c.selected >= 1
        /\ c.selected <= IF Len(c.items) = 0 THEN 1 ELSE Len(c.items)
    BY FormedFacts
  <2>3. selected \in Nat /\ selected >= 1 /\ selected <= Len(items)
    BY <1>3, <1>4, <1>5, <2>2
  <2> HIDE DEF selected
  <2>4. QED
    BY <1>5, <2>1, <2>3 DEF FitsIn
<1> HIDE DEF selected
<1>7. \A x, y : [c EXCEPT !.items = x, !.selected = y] = Made(x, c.current, y)
  <2>1. SUFFICES ASSUME NEW x, NEW y PROVE [c EXCEPT !.items = x, !.selected = y] = Made(x, c.current, y)
    OBVIOUS
  <2>2. QED
    BY PlacedIn, Zenon
<1>8. EnqueueNext(c, album) = Made(items, c.current, selected)
  BY <1>1, <1>7
<1>9. Formed(S, EnqueueNext(c, album))
  BY <1>6, <1>8, MadeFormed
<1>10. Len(items) \in Nat /\ Len(items) >= Len(c.items) + 1
  BY <1>3, <1>4, <1>5
<1>11. QED
  BY <1>8, <1>9, <1>10 DEF Made

LEMMA EnqueueNextFormed ==
  ASSUME NEW S \in Kinds, NEW c, Formed(S, c), NEW album \in Seq(Tracks), S = Stocked => album # <<>>
  PROVE  Formed(S, EnqueueNext(c, album))
BY EnqueueNextMade

(* The rows an upcoming position can name: those behind the cursor. *)
RowAt(c, i, k) == [item |-> i, track |-> k]
Skipped(c, i) == IF i = c.current THEN c.items[i].at ELSE 0
AllRows(c) == {p \in [item : DOMAIN c.items, track : Nat] :
                 /\ p.item >= c.current
                 /\ p.track > Skipped(c, p.item)
                 /\ p.track <= Len(c.items[p.item].tracks)}

RowsOf(c, i) == [k \in 1..(Len(c.items[i].tracks) - Skipped(c, i)) |->
                   RowAt(c, i, Skipped(c, i) + k)]
FirstShown(c) == IF c.current = 0 THEN 1 ELSE c.current
RowLists(c) == [k \in 1..(Len(c.items) - FirstShown(c) + 1) |-> RowsOf(c, FirstShown(c) + k - 1)]
Showing(c) == c.current = 0 \/ CurrentTrack(c) # NoTrack

LEMMA UpcomingIs ==
  ASSUME NEW c
  PROVE  /\ Showing(c) => Upcoming(c) = FlattenSeq(RowLists(c))
         /\ ~Showing(c) => Upcoming(c) = <<>>
BY DEF Upcoming, Showing, RowLists, RowsOf, FirstShown, Skipped, RowAt

LEMMA SkippedFitsIn ==
  ASSUME NEW S \in Kinds, NEW c, Formed(S, c), Showing(c), NEW i \in DOMAIN c.items
  PROVE  Skipped(c, i) \in Nat /\ Skipped(c, i) <= Len(c.items[i].tracks)
<1>1. CASE i = c.current
  <2>1. c.current # 0
    BY <1>1, FormedFacts
  <2>2. c.items[i].at \in DOMAIN c.items[i].tracks
    BY <1>1, <2>1 DEF Showing, CurrentTrack
  <2>3. QED
    BY <1>1, <2>2, FormedItem DEF Skipped
<1>2. CASE i # c.current
  BY <1>2, FormedItem DEF Skipped
<1>3. QED
  BY <1>1, <1>2

LEMMA RowListsTypeIn ==
  ASSUME NEW S \in Kinds, NEW c, Formed(S, c), Showing(c)
  PROVE  RowLists(c) \in Seq(Seq(AllRows(c))) /\ Len(RowLists(c)) = Len(c.items) - FirstShown(c) + 1
<1>1. ASSUME NEW i \in DOMAIN c.items, i >= c.current PROVE RowsOf(c, i) \in Seq(AllRows(c))
  <2> DEFINE n == Len(c.items[i].tracks) - Skipped(c, i)
  <2>1. n \in Nat
    BY FormedItem, SkippedFitsIn
  <2>2. ASSUME NEW k \in 1..n PROVE RowAt(c, i, Skipped(c, i) + k) \in AllRows(c)
    <3>1. /\ Skipped(c, i) + k \in Nat /\ Skipped(c, i) + k > Skipped(c, i)
          /\ Skipped(c, i) + k <= Len(c.items[i].tracks)
      BY FormedItem, SkippedFitsIn
    <3>2. QED
      BY <1>1, <3>1 DEF RowAt, AllRows
  <2>3. RowsOf(c, i) = [k \in 1..n |-> RowAt(c, i, Skipped(c, i) + k)]
    BY DEF RowsOf
  <2> HIDE DEF n
  <2>4. QED
    BY <2>1, <2>2, <2>3
<1> DEFINE m == Len(c.items) - FirstShown(c) + 1
<1>2. m \in Nat /\ FirstShown(c) \in Nat
  BY FormedFacts DEF FirstShown
<1>3. ASSUME NEW k \in 1..m
      PROVE  FirstShown(c) + k - 1 \in DOMAIN c.items /\ FirstShown(c) + k - 1 >= c.current
  BY FormedFacts DEF FirstShown
<1>4. ASSUME NEW k \in 1..m PROVE RowsOf(c, FirstShown(c) + k - 1) \in Seq(AllRows(c))
  BY <1>1, <1>3
<1>5. RowLists(c) = [k \in 1..m |-> RowsOf(c, FirstShown(c) + k - 1)]
  BY DEF RowLists
<1>6. m = Len(c.items) - FirstShown(c) + 1
  OBVIOUS
<1> HIDE DEF m
<1>7. RowLists(c) \in Seq(Seq(AllRows(c))) /\ Len(RowLists(c)) = m
  BY <1>2, <1>4, <1>5
<1>8. QED
  BY <1>6, <1>7

LEMMA UpcomingTypeIn ==
  ASSUME NEW S \in Kinds, NEW c, Formed(S, c)
  PROVE  Upcoming(c) \in Seq(AllRows(c))
<1>1. CASE Showing(c)
  BY <1>1, UpcomingIs, RowListsTypeIn, FlattenType
<1>2. CASE ~Showing(c)
  <2>1. <<>> \in Seq(AllRows(c))
    OBVIOUS
  <2>2. QED
    BY <1>2, <2>1, UpcomingIs
<1>3. QED
  BY <1>1, <1>2

LEMMA RowFactsIn ==
  ASSUME NEW S \in Kinds, NEW c, Formed(S, c), NEW p \in AllRows(c)
  PROVE  /\ p.item \in DOMAIN c.items /\ p.item \in Nat /\ p.item >= 1 /\ p.item <= Len(c.items)
         /\ p.item >= c.current
         /\ p.track \in Nat /\ p.track >= 1 /\ p.track <= Len(c.items[p.item].tracks)
         /\ p.item = c.current => p.track > c.items[p.item].at
<1>1. /\ p.item \in DOMAIN c.items /\ p.item >= c.current /\ p.track \in Nat
      /\ p.track > Skipped(c, p.item) /\ p.track <= Len(c.items[p.item].tracks)
  BY DEF AllRows
<1>2. p.item \in Nat /\ p.item >= 1 /\ p.item <= Len(c.items)
  BY <1>1, FormedFacts
<1>3. c.items[p.item].at \in Nat
  BY <1>1, FormedItem
<1>4. Skipped(c, p.item) = IF p.item = c.current THEN c.items[p.item].at ELSE 0
  BY DEF Skipped
<1>5. QED
  BY <1>1, <1>2, <1>3, <1>4

LEMMA UpcomingRowIn ==
  ASSUME NEW S \in Kinds, NEW c, Formed(S, c), NEW r \in DOMAIN Upcoming(c)
  PROVE  Upcoming(c)[r] \in AllRows(c)
BY UpcomingTypeIn, LenProperties, ElementOfSeq

LEMMA PlayUpcomingKeepsIn ==
  ASSUME NEW S \in Kinds, NEW c, Formed(S, c), NEW r \in DOMAIN Upcoming(c)
  PROVE  KeepsIn(S, c, PlayUpcoming(c, r))
<1> DEFINE pos == Upcoming(c)[r]
           d == CursorAt(c, pos.item, pos.track, pos.item)
<1>1. /\ pos.item \in DOMAIN c.items /\ pos.item \in Nat /\ pos.item >= 1 /\ pos.item <= Len(c.items)
      /\ pos.track \in Nat /\ pos.track >= 1
  <2>1. pos \in AllRows(c)
    BY UpcomingRowIn
  <2> HIDE DEF pos
  <2>2. QED
    BY <2>1, RowFactsIn
<1>2. PlayUpcoming(c, r) = [d EXCEPT !.selected = pos.item]
  BY DEF PlayUpcoming, CursorAt
<1>3. KeepsIn(S, c, d) /\ Formed(S, d) /\ Len(d.items) = Len(c.items)
  <2>1. KeepsIn(S, c, d) /\ Formed(S, d)
    BY <1>1, PlacedKeepsIn, pos.item \in 0..Len(c.items) DEF KeepsIn
  <2>2. DOMAIN d.items = DOMAIN c.items
    BY FormedFits DEF CursorAt, Made
  <2>3. QED
    BY <2>1, <2>2, FormedFacts
<1> HIDE DEF d, pos
<1>4. FitsIn(S, d.items, d.current, pos.item)
  BY <1>1, <1>3, FormedFits, LenProperties DEF FitsIn
<1>5. [d EXCEPT !.selected = pos.item] = Made(d.items, d.current, pos.item)
  <2>1. \A x : [d EXCEPT !.selected = x] = Made(d.items, d.current, x)
    BY <1>3, FormedFits DEF Made
  <2>2. QED
    BY <2>1
<1>6. Lists(Made(d.items, d.current, pos.item)) = Lists(d)
  BY DEF Lists, Made
<1>7. QED
  BY <1>2, <1>3, <1>4, <1>5, <1>6, MadeFormed DEF KeepsIn

LEMMA TakeUpcomingFormed ==
  ASSUME NEW S \in Kinds, NEW c, Formed(S, c), NEW pos \in AllRows(c)
  PROVE  Formed(S, TakeUpcoming(c, pos))
<1> DEFINE i == pos.item
           tracks == c.items[i].tracks
           rest == RemoveAt(tracks, pos.track)
           items == IF rest = <<>> THEN RemoveAt(c.items, i) ELSE Retracked(c, i, rest)
<1>1. i \in DOMAIN c.items /\ tracks \in Seq(Tracks) /\ Len(tracks) \in Nat /\ pos.track \in 1..Len(tracks)
  <2>1. i \in DOMAIN c.items
    BY RowFactsIn
  <2>2. tracks \in Seq(Tracks) /\ Len(tracks) \in Nat
    BY <2>1, FormedItem
  <2>3. QED
    BY <2>1, <2>2, RowFactsIn
<1>2. rest \in Seq(Tracks) /\ Len(rest) = Len(tracks) - 1
  BY <1>1, Removed
<1>3. TakeUpcoming(c, pos) = ClampSelected([c EXCEPT !.items = items])
  BY DEF TakeUpcoming, Retracked
<1>4. CASE rest = <<>>
  <2>1. Len(tracks) = 1
    BY <1>1, <1>2, <1>4
  <2>2. c.current < i
    <3>1. pos.track = 1
      BY <1>1, <2>1
    <3>2. c.items[i].at \in Nat /\ c.items[i].at >= 1
      BY <1>1, FormedItem
    <3>3. i # c.current
      BY <3>1, <3>2, RowFactsIn
    <3>4. QED
      BY <3>3, RowFactsIn, FormedFacts
  <2>3. /\ RemoveAt(c.items, i) \in Seq(S) /\ Len(RemoveAt(c.items, i)) = Len(c.items) - 1
    <3>1. c.items \in Seq(S) /\ i \in 1..Len(c.items)
      BY <1>1, FormedFacts
    <3>2. QED
      BY <3>1, Removed
  <2>4. c.current \in 0..Len(RemoveAt(c.items, i))
    BY <1>1, <2>2, <2>3, FormedFacts
  <2>5. TakeUpcoming(c, pos) = ClampSelected(Made(RemoveAt(c.items, i), c.current, c.selected))
    BY <1>3, <1>4, UpdatedIn
  <2>6. QED
    BY <2>3, <2>4, <2>5, FormedFacts, ClampedFormed
<1>5. CASE rest # <<>>
  <2>1. Retracked(c, i, rest) \in Seq(S) /\ Len(Retracked(c, i, rest)) = Len(c.items)
    <3> HIDE DEF rest
    <3>1. QED
      BY <1>1, <1>2, <1>5, RetrackedIn
  <2>2. TakeUpcoming(c, pos) = ClampSelected(Made(Retracked(c, i, rest), c.current, c.selected))
    BY <1>3, <1>5, UpdatedIn
  <2> HIDE DEF rest
  <2>3. QED
    BY <2>1, <2>2, FormedFacts, ClampedFormed
<1>6. QED
  BY <1>4, <1>5

LEMMA SelectedKeepsIn ==
  ASSUME NEW S \in Kinds, NEW c, Formed(S, c), NEW i \in DOMAIN c.items
  PROVE  KeepsIn(S, c, [c EXCEPT !.selected = i])
<1>1. FitsIn(S, c.items, c.current, i)
  BY FormedFacts, FormedFits DEF FitsIn
<1>2. [c EXCEPT !.selected = i] = Made(c.items, c.current, i)
  BY FormedFits DEF Made
<1>3. Lists(Made(c.items, c.current, i)) = Lists(c)
  BY DEF Lists, Made
<1>4. QED
  BY <1>1, <1>2, <1>3, MadeFormed DEF KeepsIn

LEMMA RemovalTypeIn ==
  ASSUME NEW S \in Kinds, NEW c, Formed(S, c), NEW pos \in AllRows(c)
  PROVE  Removal(c, pos) \in RemovalRecord
<1>1. /\ pos.item \in DOMAIN c.items /\ pos.item \in Nat \ {0} /\ pos.track \in Nat \ {0}
      /\ pos.track >= 1 /\ pos.track <= Len(c.items[pos.item].tracks)
  BY RowFactsIn
<1>2. pos = [item |-> pos.item, track |-> pos.track]
  BY DEF AllRows
<1>3. c.items[pos.item].tracks[pos.track] \in Tracks
  <2>1. /\ c.items[pos.item].tracks \in Seq(Tracks)
        /\ pos.track \in 1..Len(c.items[pos.item].tracks)
    BY <1>1, FormedItem
  <2>2. QED
    BY <2>1, ElementOfSeq
<1>4. pos \in [item : Nat \ {0}, track : Nat \ {0}]
  BY <1>1, <1>2
<1>5. QED
  BY <1>3, <1>4 DEF Removal, RemovalRecord

LEMMA UndoRemovalFormed ==
  ASSUME NEW S \in Kinds, NEW c, Formed(S, c), NEW r \in RemovalRecord, CanUndoRemoval(c, r)
  PROVE  Formed(S, UndoRemoval(c, r))
<1> DEFINE i == r.position.item
           k == r.position.track
<1>1. i \in Nat /\ i >= 1 /\ k \in Nat /\ k >= 1 /\ r.track \in Tracks
  BY DEF RemovalRecord
<1>2. CASE r.itemRemoved
  <2> DEFINE items == InsertAt(c.items, i, NewItem(<<r.track>>))
             current == IF c.current >= i THEN c.current + 1 ELSE c.current
             selected == IF c.selected >= i THEN c.selected + 1 ELSE c.selected
  <2>1. UndoRemoval(c, r) = ClampSelected(Made(items, current, selected))
    BY <1>2 DEF UndoRemoval, Made
  <2>2. i \in 1..(Len(c.items) + 1)
    BY <1>1, <1>2, FormedFacts DEF CanUndoRemoval
  <2>3. NewItem(<<r.track>>) \in S
    <3>1. <<r.track>> \in Seq(Tracks) /\ <<r.track>> # <<>>
      BY <1>1
    <3>2. QED
      BY <3>1, NewItemIn
  <2>4. items \in Seq(S) /\ Len(items) = Len(c.items) + 1
    <3>1. c.items \in Seq(S)
      BY FormedFacts
    <3>2. QED
      BY <2>2, <2>3, <3>1, Inserted
  <2> HIDE DEF items
  <2>5. current \in 0..Len(items) /\ selected \in Nat /\ selected >= 1
    BY <2>4, FormedFacts
  <2> HIDE DEF current, selected
  <2>6. QED
    BY <2>1, <2>4, <2>5, ClampedFormed
<1>3. CASE ~r.itemRemoved
  <2> DEFINE tracks == InsertAt(c.items[i].tracks, k, r.track)
             at == IF c.current = i /\ c.items[i].at >= k THEN c.items[i].at + 1 ELSE c.items[i].at
             x == [[c.items[i] EXCEPT !.tracks = tracks] EXCEPT !.at = at]
             items == [c.items EXCEPT ![i] = x]
  <2>1. i \in DOMAIN c.items /\ k \in 1..(Len(c.items[i].tracks) + 1)
    <3>1. i \in DOMAIN c.items /\ k <= Len(c.items[i].tracks) + 1
      BY <1>3 DEF CanUndoRemoval
    <3>2. QED
      BY <1>1, <3>1, FormedItem
  <2>2. UndoRemoval(c, r) = ClampSelected([c EXCEPT !.items = items])
    <3>1. c.items[i] \in S
      BY <2>1, FormedItem
    <3>2. QED
      BY <1>3, <2>1, <3>1 DEF UndoRemoval
  <2>3. tracks \in Seq(Tracks) /\ Len(tracks) = Len(c.items[i].tracks) + 1
    <3> DEFINE old == c.items[i].tracks
               new == InsertAt(old, k, r.track)
    <3>1. old \in Seq(Tracks)
      BY <2>1, FormedItem
    <3>2. new \in Seq(Tracks) /\ Len(new) = Len(old) + 1
      <4> HIDE DEF old
      <4>1. k \in 1..(Len(old) + 1)
        BY <2>1 DEF old
      <4>2. QED
        BY <1>1, <3>1, <4>1, Inserted
    <3>3. QED
      BY <3>2
  <2>4. at \in Nat /\ at >= 1
    BY <2>1, FormedItem
  <2>5. tracks # <<>>
    BY <2>1, <2>3, FormedItem
  <2> HIDE DEF tracks, at
  <2>6. x \in S
    <3>1. c.items[i] \in S
      BY <2>1, FormedItem
    <3> DEFINE y == [c.items[i] EXCEPT !.tracks = tracks]
    <3>2. y \in S
      BY <2>3, <2>5, <3>1, StockWith
    <3> HIDE DEF y
    <3>3. [y EXCEPT !.at = at] \in S
      BY <2>4, <3>2, StockWith
    <3>4. QED
      BY <3>3 DEF y
  <2> HIDE DEF x
  <2>7. items \in Seq(S) /\ Len(items) = Len(c.items)
    BY <2>1, <2>6, FormedFacts, ExceptSeq
  <2> HIDE DEF items
  <2>8. UndoRemoval(c, r) = ClampSelected(Made(items, c.current, c.selected))
    BY <2>2, UpdatedIn
  <2>9. QED
    BY <2>7, <2>8, FormedFacts, ClampedFormed
<1>4. QED
  BY <1>2, <1>3

LEMMA MoveUpcomingFormed ==
  ASSUME NEW S \in Kinds, NEW c, Formed(S, c), NEW from \in DOMAIN Upcoming(c), NEW to
  PROVE  Formed(S, MoveUpcoming(c, from, to))
<1> DEFINE pos    == Upcoming(c)[from]
           moved  == NewItem(<<c.items[pos.item].tracks[pos.track]>>)
           left   == TakeUpcoming(c, pos)
           rows   == Upcoming(left)
           row    == rows[to]
           splits == to \in DOMAIN rows /\ row.track > 1
           tracks == left.items[row.item].tracks
           head   == SubSeq(tracks, 1, row.track - 1)
           tail   == SubSeq(tracks, row.track, Len(tracks))
           items  == IF splits
                     THEN InsertAt(Retracked(left, row.item, head), row.item + 1, NewItem(tail))
                     ELSE left.items
           place  == CASE to \notin DOMAIN rows -> Len(items) + 1
                       [] splits                -> row.item + 1
                       [] OTHER                 -> row.item
<1>1. MoveUpcoming(c, from, to) =
        [left EXCEPT !.items = InsertAt(items, place, moved), !.selected = place]
  BY DEF MoveUpcoming, Retracked
<1>2. pos \in AllRows(c)
  BY UpcomingRowIn
<1>3. moved \in S
  <2> HIDE DEF pos
  <2>1. /\ c.items[pos.item].tracks \in Seq(Tracks)
        /\ pos.track \in 1..Len(c.items[pos.item].tracks)
    BY <1>2, RowFactsIn, FormedItem
  <2>2. c.items[pos.item].tracks[pos.track] \in Tracks
    BY <2>1, ElementOfSeq
  <2>3. /\ <<c.items[pos.item].tracks[pos.track]>> \in Seq(Tracks)
        /\ <<c.items[pos.item].tracks[pos.track]>> # <<>>
    BY <2>2
  <2>4. QED
    BY <2>3, NewItemIn
<1> HIDE DEF moved
<1>4. Formed(S, left)
  BY <1>2, TakeUpcomingFormed
<1> HIDE DEF pos, left
<1>5. to \in DOMAIN rows =>
        /\ row.item \in DOMAIN left.items /\ row.item \in Nat /\ row.item >= 1
        /\ row.item <= Len(left.items)
        /\ row.track \in Nat /\ row.track >= 1 /\ row.track <= Len(tracks)
        /\ tracks \in Seq(Tracks) /\ Len(tracks) \in Nat
  <2> SUFFICES ASSUME to \in DOMAIN rows
               PROVE  /\ row.item \in DOMAIN left.items /\ row.item \in Nat /\ row.item >= 1
                      /\ row.item <= Len(left.items)
                      /\ row.track \in Nat /\ row.track >= 1 /\ row.track <= Len(tracks)
                      /\ tracks \in Seq(Tracks) /\ Len(tracks) \in Nat
    OBVIOUS
  <2>1. row \in AllRows(left)
    BY <1>4, UpcomingRowIn
  <2> HIDE DEF row
  <2>2. QED
    BY <1>4, <2>1, RowFactsIn, FormedItem
<1> HIDE DEF rows, row
<1>6. /\ items \in Seq(S) /\ Len(items) \in Nat
      /\ Len(items) = IF splits THEN Len(left.items) + 1 ELSE Len(left.items)
  <2>1. CASE splits
    <3>1. head \in Seq(Tracks) /\ head # <<>> /\ tail \in Seq(Tracks) /\ tail # <<>>
      <4>1. /\ 1 \in 1..Len(tracks) /\ row.track - 1 \in 1..Len(tracks)
            /\ row.track \in 1..Len(tracks) /\ Len(tracks) \in row.track..Len(tracks)
        BY <1>5, <2>1
      <4>2. QED
        BY <1>5, <2>1, <4>1, Cropped
    <3> HIDE DEF head, tail
    <3>2. /\ Retracked(left, row.item, head) \in Seq(S)
          /\ Len(Retracked(left, row.item, head)) = Len(left.items)
      BY <1>4, <1>5, <2>1, <3>1, RetrackedIn
    <3>3. NewItem(tail) \in S
      BY <3>1, NewItemIn
    <3>4. row.item + 1 \in 1..(Len(left.items) + 1) /\ Len(left.items) \in Nat
      BY <1>4, <1>5, <2>1, FormedFacts
    <3>5. QED
      BY <2>1, <3>2, <3>3, <3>4, Inserted
  <2>2. CASE ~splits
    BY <1>4, <2>2, FormedFacts
  <2>3. QED
    BY <2>1, <2>2
<1>7. place \in 1..(Len(items) + 1)
  BY <1>4, <1>5, <1>6, FormedFacts
<1>8. left.current \in 0..(Len(items) + 1)
  BY <1>4, <1>6, FormedFacts
<1> HIDE DEF items, place
<1>9. /\ InsertAt(items, place, moved) \in Seq(S)
      /\ Len(InsertAt(items, place, moved)) = Len(items) + 1
  <2>1. items \in Seq(S)
    BY <1>6
  <2>2. QED
    BY <1>3, <1>7, <2>1, Inserted
<1>10. FitsIn(S, InsertAt(items, place, moved), left.current, place)
  BY <1>6, <1>7, <1>8, <1>9 DEF FitsIn
<1>11. \A x, y : [left EXCEPT !.items = x, !.selected = y] = Made(x, left.current, y)
  <2>1. SUFFICES ASSUME NEW x, NEW y PROVE [left EXCEPT !.items = x, !.selected = y] = Made(x, left.current, y)
    OBVIOUS
  <2>2. QED
    BY <1>4, PlacedIn, Zenon
<1>12. MoveUpcoming(c, from, to) = Made(InsertAt(items, place, moved), left.current, place)
  BY <1>1, <1>11
<1>13. QED
  BY <1>10, <1>12, MadeFormed

LEMMA FlatTracksTypeIn ==
  ASSUME NEW S \in Kinds, NEW c, Formed(S, c)
  PROVE  FlatTracks(c) = FlattenSeq(Lists(c)) /\ FlatTracks(c) \in Seq(Tracks)
<1>1. FlatTracks(c) = FlattenSeq(Lists(c))
  BY DEF FlatTracks, Lists
<1>2. QED
  BY <1>1, FormedLists, FlattenType

-----------------------------------------------------------------------------
(* The type invariant. *)
-----------------------------------------------------------------------------
(* The same of a queue without empty albums. *)

LEMMA WellFormedIs ==
  ASSUME NEW c
  PROVE  WellFormed(c) <=> Formed(Stocked, c)
<1>1. \A x \in Stocked : x \in Item /\ x.tracks # <<>>
  BY DEF Stocked, Item
<1>2. \A x \in Item : x.tracks # <<>> => x \in Stocked
  BY DEF Stocked, Item
<1>3. ASSUME WellFormed(c) PROVE Formed(Stocked, c)
  <2>1. c.items \in Seq(Item) /\ Len(c.items) \in Nat /\ DOMAIN c.items = 1..Len(c.items)
    BY <1>3, LenProperties DEF WellFormed, Controller
  <2>2. \A i \in 1..Len(c.items) : c.items[i] \in Item
    BY <2>1, ElementOfSeq
  <2>3. \A i \in 1..Len(c.items) : c.items[i] \in Stocked
    BY <1>2, <1>3, <2>1, <2>2 DEF WellFormed
  <2>4. c.items \in Seq(Stocked)
    BY <2>1, <2>3, SeqOver
  <2>5. c = Made(c.items, c.current, c.selected)
    BY <1>3 DEF WellFormed, Controller, Made
  <2>6. QED
    BY <1>3, <2>1, <2>4, <2>5, EmptySeq DEF WellFormed, Controller, Formed, FitsIn
<1>4. ASSUME Formed(Stocked, c) PROVE WellFormed(c)
  <2>1. FitsIn(Stocked, c.items, c.current, c.selected) /\ c = Made(c.items, c.current, c.selected)
    BY <1>4 DEF Formed
  <2>2. Len(c.items) \in Nat /\ DOMAIN c.items = 1..Len(c.items)
    BY <2>1, LenProperties DEF FitsIn
  <2>3. \A i \in 1..Len(c.items) : c.items[i] \in Stocked
    BY <2>1, ElementOfSeq DEF FitsIn
  <2>4. c.items \in Seq(Item)
    BY <1>1, <2>1, <2>3, SeqOver DEF FitsIn
  <2>5. \A i \in DOMAIN c.items : c.items[i].tracks # <<>>
    BY <1>1, <2>2, <2>3
  <2>6. c \in Controller
    BY <2>1, <2>4 DEF FitsIn, Made, Controller
  <2>7. QED
    BY <2>1, <2>2, <2>5, <2>6, EmptySeq DEF FitsIn, WellFormed
<1>5. QED
  BY <1>3, <1>4

LEMMA StockedKind == Stocked \in Kinds /\ Item \in Kinds
BY DEF Kinds

LEMMA FormedShaped ==
  ASSUME NEW S \in Kinds, NEW c, Formed(S, c)
  PROVE  Shaped(c)
<1>1. CASE S = Item
  BY <1>1 DEF Shaped
<1>2. CASE S = Stocked
  <2>1. \A x \in Stocked : x \in Item
    BY DEF Stocked, Item
  <2>2. c.items \in Seq(Stocked) /\ \A i \in 1..Len(c.items) : c.items[i] \in Stocked
    BY <1>2, FormedFacts, ElementOfSeq
  <2>3. c.items \in Seq(Item)
    BY <2>1, <2>2, SeqOver
  <2>4. QED
    BY <1>2, <2>3 DEF Shaped, Formed, FitsIn
<1>3. QED
  BY <1>1, <1>2 DEF Kinds

LEMMA EmptyWellFormed == WellFormed(EmptyController) /\ Shaped(EmptyController)
<1>1. EmptyController = Made(<<>>, 0, 1)
  BY DEF EmptyController, Made
<1>2. FitsIn(Stocked, <<>>, 0, 1)
  BY DEF FitsIn
<1>3. Formed(Stocked, EmptyController)
  BY <1>1, <1>2, MadeFormed, StockedKind
<1>4. QED
  BY <1>3, WellFormedIs, FormedShaped, StockedKind

Keeps(c, d) == WellFormed(d) /\ Lists(d) = Lists(c)

LEMMA KeepsIs ==
  ASSUME NEW c, NEW d
  PROVE  Keeps(c, d) <=> KeepsIn(Stocked, c, d)
BY WellFormedIs DEF Keeps, KeepsIn

LEMMA WellFormedFits ==
  ASSUME NEW c, WellFormed(c)
  PROVE  c = Made(c.items, c.current, c.selected)
BY WellFormedIs, StockedKind, FormedFits

LEMMA Facts ==
  ASSUME NEW c, WellFormed(c)
  PROVE  /\ c.items \in Seq(Stocked) /\ Len(c.items) \in Nat /\ DOMAIN c.items = 1..Len(c.items)
         /\ c.current \in Nat /\ c.current <= Len(c.items)
         /\ c.selected \in Nat /\ c.selected >= 1
         /\ c.selected <= IF Len(c.items) = 0 THEN 1 ELSE Len(c.items)
<1>1. Formed(Stocked, c)
  BY WellFormedIs
<1>2. QED
  BY <1>1, StockedKind, FormedFacts

LEMMA ItemFacts ==
  ASSUME NEW c, WellFormed(c), NEW i \in DOMAIN c.items
  PROVE  /\ c.items[i] \in Stocked
         /\ c.items[i].tracks \in Seq(Tracks) /\ c.items[i].tracks # <<>>
         /\ Len(c.items[i].tracks) \in Nat /\ Len(c.items[i].tracks) >= 1
         /\ DOMAIN c.items[i].tracks = 1..Len(c.items[i].tracks)
         /\ c.items[i].at \in Nat /\ c.items[i].at >= 1
<1>1. c.items[i] \in Stocked
  BY Facts, ElementOfSeq
<1>2. /\ c.items[i].tracks \in Seq(Tracks) /\ c.items[i].tracks # <<>>
      /\ c.items[i].at \in Nat /\ c.items[i].at >= 1
  BY <1>1 DEF Stocked
<1>3. Len(c.items[i].tracks) \in Nat /\ DOMAIN c.items[i].tracks = 1..Len(c.items[i].tracks)
  BY <1>2, LenProperties
<1>4. Len(c.items[i].tracks) # 0
  BY <1>2, EmptySeq
<1>5. QED
  BY <1>1, <1>2, <1>3, <1>4

LEMMA NewItemStocked ==
  ASSUME NEW a \in Seq(Tracks), a # <<>>
  PROVE  NewItem(a) \in Stocked
BY NewItemIn, StockedKind

LEMMA ListsFacts ==
  ASSUME NEW c, WellFormed(c)
  PROVE  /\ Lists(c) \in Seq(Seq(Tracks)) /\ Len(Lists(c)) = Len(c.items)
         /\ \A i \in DOMAIN c.items : Lists(c)[i] = c.items[i].tracks
BY WellFormedIs, StockedKind, FormedLists

LEMMA PlacedKeeps ==
  ASSUME NEW c, WellFormed(c), NEW i \in DOMAIN c.items, NEW k \in Nat, k >= 1
  PROVE  /\ Keeps(c, Placed(c, i, k))
         /\ \A j \in 0..Len(c.items) : Keeps(c, CursorAt(c, i, k, j))
BY WellFormedIs, KeepsIs, StockedKind, PlacedKeepsIn

LEMMA JumpToKeeps ==
  ASSUME NEW c, WellFormed(c), NEW i \in DOMAIN c.items
  PROVE  Keeps(c, JumpTo(c, i))
BY WellFormedIs, KeepsIs, StockedKind, JumpToKeepsIn

LEMMA NextTrackKeeps ==
  ASSUME NEW c, WellFormed(c)
  PROVE  Keeps(c, NextTrack(c))
BY WellFormedIs, KeepsIs, StockedKind, NextTrackKeepsIn

LEMMA PreviousTrackKeeps ==
  ASSUME NEW c, WellFormed(c)
  PROVE  Keeps(c, PreviousTrack(c))
BY WellFormedIs, KeepsIs, StockedKind, PreviousTrackKeepsIn

LEMMA AddAlbumWellFormed ==
  ASSUME NEW c, WellFormed(c), NEW a \in Seq(Tracks), a # <<>>
  PROVE  WellFormed(AddAlbum(c, a)) /\ WellFormed(PlayAlbumNow(c, a))
BY WellFormedIs, KeepsIs, StockedKind, AddAlbumFormed

LEMMA EnqueuePlaylistWellFormed ==
  ASSUME NEW c, WellFormed(c), NEW paths \in Seq(Tracks)
  PROVE  WellFormed(EnqueuePlaylist(c, paths))
BY WellFormedIs, KeepsIs, StockedKind, EnqueuePlaylistFormed

LEMMA PlaySingleFileNowKeeps ==
  ASSUME NEW c, WellFormed(c), NEW t \in Tracks
  PROVE  /\ WellFormed(PlaySingleFileNow(c, t))
         /\ InQueue(c, t) => Keeps(c, PlaySingleFileNow(c, t))
BY WellFormedIs, KeepsIs, StockedKind, PlaySingleFileNowKeepsIn

LEMMA Updated ==
  ASSUME NEW c, WellFormed(c), NEW items
  PROVE  /\ [c EXCEPT !.items = items] = Made(items, c.current, c.selected)
         /\ \A current : [c EXCEPT !.items = items, !.current = current] = Made(items, current, c.selected)
         /\ \A selected : [c EXCEPT !.items = items, !.selected = selected]
                          = Made(items, c.current, selected)
<1>1. c = Made(c.items, c.current, c.selected)
  BY WellFormedFits
<1>2. QED
  BY <1>1, MadeUpdated, Zenon

LEMMA PlacedAt ==
  ASSUME NEW c, WellFormed(c), NEW items, NEW selected
  PROVE  [c EXCEPT !.items = items, !.selected = selected] = Made(items, c.current, selected)
<1>1. \A y : [c EXCEPT !.items = items, !.selected = y] = Made(items, c.current, y)
  BY Updated, Zenon
<1>2. QED
  BY <1>1

LEMMA RemoveAlbumWellFormed ==
  ASSUME NEW c, WellFormed(c), NEW i \in DOMAIN c.items
  PROVE  WellFormed(RemoveAlbum(c, i))
BY WellFormedIs, KeepsIs, StockedKind, RemoveAlbumFormed

LEMMA MoveItemWellFormed ==
  ASSUME NEW c, WellFormed(c), NEW from \in DOMAIN c.items, NEW to \in DOMAIN c.items
  PROVE  WellFormed(MoveItem(c, from, to))
BY WellFormedIs, KeepsIs, StockedKind, MoveItemFormed

LEMMA RetrackedStocked ==
  ASSUME NEW c, WellFormed(c), NEW i \in DOMAIN c.items, NEW tracks \in Seq(Tracks), tracks # <<>>
  PROVE  Retracked(c, i, tracks) \in Seq(Stocked) /\ Len(Retracked(c, i, tracks)) = Len(c.items)
BY WellFormedIs, KeepsIs, StockedKind, RetrackedIn

LEMMA EnqueueNextWellFormed ==
  ASSUME NEW c, WellFormed(c), NEW album \in Seq(Tracks), album # <<>>
  PROVE  WellFormed(EnqueueNext(c, album))
BY WellFormedIs, KeepsIs, StockedKind, EnqueueNextFormed

LEMMA SkippedFits ==
  ASSUME NEW c, WellFormed(c), Showing(c), NEW i \in DOMAIN c.items
  PROVE  Skipped(c, i) \in Nat /\ Skipped(c, i) <= Len(c.items[i].tracks)
BY WellFormedIs, KeepsIs, StockedKind, SkippedFitsIn

LEMMA RowListsType ==
  ASSUME NEW c, WellFormed(c), Showing(c)
  PROVE  RowLists(c) \in Seq(Seq(AllRows(c))) /\ Len(RowLists(c)) = Len(c.items) - FirstShown(c) + 1
BY WellFormedIs, KeepsIs, StockedKind, RowListsTypeIn

LEMMA UpcomingType ==
  ASSUME NEW c, WellFormed(c)
  PROVE  Upcoming(c) \in Seq(AllRows(c))
BY WellFormedIs, KeepsIs, StockedKind, UpcomingTypeIn

LEMMA RowFacts ==
  ASSUME NEW c, WellFormed(c), NEW p \in AllRows(c)
  PROVE  /\ p.item \in DOMAIN c.items /\ p.item \in Nat /\ p.item >= 1 /\ p.item <= Len(c.items)
         /\ p.item >= c.current
         /\ p.track \in Nat /\ p.track >= 1 /\ p.track <= Len(c.items[p.item].tracks)
         /\ p.item = c.current => p.track > c.items[p.item].at
BY WellFormedIs, KeepsIs, StockedKind, RowFactsIn

LEMMA UpcomingRow ==
  ASSUME NEW c, WellFormed(c), NEW r \in DOMAIN Upcoming(c)
  PROVE  Upcoming(c)[r] \in AllRows(c)
BY WellFormedIs, KeepsIs, StockedKind, UpcomingRowIn

LEMMA PlayUpcomingKeeps ==
  ASSUME NEW c, WellFormed(c), NEW r \in DOMAIN Upcoming(c)
  PROVE  Keeps(c, PlayUpcoming(c, r))
BY WellFormedIs, KeepsIs, StockedKind, PlayUpcomingKeepsIn

LEMMA TakeUpcomingWellFormed ==
  ASSUME NEW c, WellFormed(c), NEW pos \in AllRows(c)
  PROVE  WellFormed(TakeUpcoming(c, pos))
BY WellFormedIs, KeepsIs, StockedKind, TakeUpcomingFormed

LEMMA SelectedKeeps ==
  ASSUME NEW c, WellFormed(c), NEW i \in DOMAIN c.items
  PROVE  Keeps(c, [c EXCEPT !.selected = i])
BY WellFormedIs, KeepsIs, StockedKind, SelectedKeepsIn

LEMMA RemovalType ==
  ASSUME NEW c, WellFormed(c), NEW pos \in AllRows(c)
  PROVE  Removal(c, pos) \in RemovalRecord
BY WellFormedIs, KeepsIs, StockedKind, RemovalTypeIn

LEMMA UndoRemovalWellFormed ==
  ASSUME NEW c, WellFormed(c), NEW r \in RemovalRecord, CanUndoRemoval(c, r)
  PROVE  WellFormed(UndoRemoval(c, r))
BY WellFormedIs, KeepsIs, StockedKind, UndoRemovalFormed

LEMMA MoveUpcomingWellFormed ==
  ASSUME NEW c, WellFormed(c), NEW from \in DOMAIN Upcoming(c), NEW to
  PROVE  WellFormed(MoveUpcoming(c, from, to))
BY WellFormedIs, KeepsIs, StockedKind, MoveUpcomingFormed

LEMMA FlatTracksType ==
  ASSUME NEW c, WellFormed(c)
  PROVE  FlatTracks(c) = FlattenSeq(Lists(c)) /\ FlatTracks(c) \in Seq(Tracks)
BY WellFormedIs, KeepsIs, StockedKind, FlatTracksTypeIn

-----------------------------------------------------------------------------
(* The first row of the upcoming list. *)

LEMMA PlacedTrack ==
  ASSUME NEW c, WellFormed(c), NEW i \in DOMAIN c.items, NEW k \in DOMAIN c.items[i].tracks
  PROVE  /\ i = c.current => CurrentTrack(Placed(c, i, k)) = c.items[i].tracks[k]
         /\ CurrentTrack(CursorAt(c, i, k, i)) = c.items[i].tracks[k]
<1> DEFINE x == [c.items[i] EXCEPT !.at = k]
           items == [c.items EXCEPT ![i] = x]
<1>1. x.tracks = c.items[i].tracks /\ x.at = k
  BY ItemFacts DEF Stocked
<1> HIDE DEF x
<1>2. i \in DOMAIN items /\ items[i] = x
  BY Facts
<1> HIDE DEF items
<1>3. c = Made(c.items, c.current, c.selected)
  BY WellFormedFits
<1>4. Placed(c, i, k) = Made(items, c.current, c.selected)
  BY <1>3 DEF Placed, Made, items, x
<1>5. CursorAt(c, i, k, i) = Made(items, i, c.selected)
  <2>1. CursorAt(c, i, k, i) = [Placed(c, i, k) EXCEPT !.current = i]
    BY DEF CursorAt, Placed
  <2>2. QED
    BY <1>4, <2>1 DEF Made
<1>6. CurrentTrack(Made(items, i, c.selected)) = c.items[i].tracks[k]
  BY <1>1, <1>2 DEF CurrentTrack, Made
<1>7. QED
  BY <1>4, <1>5, <1>6

LEMMA FirstRow ==
  ASSUME NEW c, WellFormed(c), Showing(c), NEW i \in DOMAIN c.items, i >= c.current,
         NEW n \in Nat, n = Skipped(c, i), n < Len(c.items[i].tracks)
  PROVE  RowsOf(c, i) # <<>> /\ RowsOf(c, i)[1] = RowAt(c, i, n + 1)
<1> DEFINE m == Len(c.items[i].tracks) - n
<1>1. m \in Nat /\ 1 \in 1..m
  BY ItemFacts
<1>2. RowsOf(c, i) = [k \in 1..m |-> RowAt(c, i, n + k)]
  BY DEF RowsOf
<1> HIDE DEF m
<1>3. RowsOf(c, i)[1] = RowAt(c, i, n + 1) /\ DOMAIN RowsOf(c, i) = 1..m
  BY <1>1, <1>2
<1>4. RowsOf(c, i) # <<>>
  BY <1>1, <1>3
<1>5. QED
  BY <1>3, <1>4

LEMMA NoRow ==
  ASSUME NEW c, WellFormed(c), NEW i \in DOMAIN c.items, Skipped(c, i) = Len(c.items[i].tracks)
  PROVE  RowsOf(c, i) = <<>>
<1>1. Len(c.items[i].tracks) - Skipped(c, i) = 0
  BY ItemFacts
<1>2. RowsOf(c, i) = [k \in 1..0 |-> RowAt(c, i, Skipped(c, i) + k)]
  BY <1>1 DEF RowsOf
<1>3. QED
  BY <1>2

LEMMA PeekAgrees ==
  ASSUME NEW c, WellFormed(c), CurrentTrack(c) # NoTrack
  PROVE  PeekNext(c) = IF Upcoming(c) = <<>> THEN NoTrack ELSE UpcomingTracks(c)[1]
<1> DEFINE i == c.current
           lists == RowLists(c)
<1>1. i \in DOMAIN c.items /\ c.items[i].at \in DOMAIN c.items[i].tracks
  BY DEF CurrentTrack
<1>2. /\ i \in Nat /\ i >= 1 /\ i <= Len(c.items) /\ Len(c.items) \in Nat
      /\ FirstShown(c) = i /\ Showing(c)
  BY <1>1, Facts DEF FirstShown, Showing
<1>3. Upcoming(c) = FlattenSeq(lists) /\ lists \in Seq(Seq(AllRows(c))) /\ Len(lists) = Len(c.items) - i + 1
  BY <1>2, UpcomingIs, RowListsType
<1>4. \A k \in 1..(Len(c.items) - i + 1) : lists[k] = RowsOf(c, i + k - 1)
  BY <1>2 DEF RowLists
<1>5. lists[1] = RowsOf(c, i)
  BY <1>2, <1>4
<1> HIDE DEF lists
<1>6. ASSUME NEW j \in DOMAIN c.items, NEW k \in Nat,
             Upcoming(c) # <<>>, Upcoming(c)[1] = RowAt(c, j, k)
      PROVE  UpcomingTracks(c)[1] = c.items[j].tracks[k]
  <2>1. 1 \in DOMAIN Upcoming(c)
    BY <1>6, UpcomingType, EmptySeq, LenProperties
  <2>2. QED
    BY <1>6, <2>1 DEF UpcomingTracks, RowAt
<1>7. /\ c.items[i].at \in Nat /\ c.items[i].at <= Len(c.items[i].tracks)
      /\ Len(c.items[i].tracks) \in Nat /\ Skipped(c, i) = c.items[i].at
  BY <1>1, ItemFacts DEF Skipped
<1>8. CASE HasNextInItem(c)
  <2> DEFINE k == c.items[i].at + 1
  <2>1. k \in DOMAIN c.items[i].tracks /\ k \in Nat /\ c.items[i].at < Len(c.items[i].tracks)
    BY <1>1, <1>7, <1>8, ItemFacts DEF HasNextInItem
  <2>3. PeekNext(c) = c.items[i].tracks[k]
    BY <1>1, <1>8 DEF PeekNext
  <2>4. RowsOf(c, i) # <<>> /\ RowsOf(c, i)[1] = RowAt(c, i, k)
    BY <1>1, <1>2, <1>7, <2>1, FirstRow
  <2> HIDE DEF k
  <2>5. Upcoming(c) # <<>> /\ Upcoming(c)[1] = RowAt(c, i, k)
    <3>1. 1 \in 1..Len(lists)
      BY <1>2, <1>3
    <3>2. QED
      BY <1>3, <1>5, <2>4, <3>1, FlattenHead
  <2>6. QED
    BY <1>1, <1>6, <2>1, <2>3, <2>5
<1>9. CASE ~HasNextInItem(c) /\ i < Len(c.items)
  <2> DEFINE j == i + 1
  <2>1. j \in DOMAIN c.items /\ j \in Nat /\ j >= i /\ j # i
    BY <1>2, <1>9, Facts
  <2>6. PeekNext(c) = c.items[j].tracks[1]
    BY <1>1, <1>2, <1>9 DEF PeekNext
  <2>3. RowsOf(c, i) = <<>>
    <3>1. c.items[i].at = Len(c.items[i].tracks)
      BY <1>1, <1>7, <1>9, ItemFacts DEF HasNextInItem
    <3>2. QED
      BY <1>1, <1>7, <3>1, NoRow
  <2>4. lists[2] = RowsOf(c, j)
    BY <1>2, <1>4, <1>9
  <2> HIDE DEF j
  <2>5. 1 \in DOMAIN c.items[j].tracks /\ 0 < Len(c.items[j].tracks) /\ Skipped(c, j) = 0
    BY <2>1, ItemFacts DEF Skipped
  <2>7. RowsOf(c, j) # <<>> /\ RowsOf(c, j)[1] = RowAt(c, j, 1)
    BY <1>2, <2>1, <2>5, FirstRow, 0 \in Nat, 0 + 1 = 1
  <2>8. Upcoming(c) # <<>> /\ Upcoming(c)[1] = RowAt(c, j, 1)
    <3>1. 2 \in 1..Len(lists) /\ 2 <= 2
      BY <1>2, <1>3, <1>9
    <3>2. lists[2] # <<>> /\ lists[1] = <<>>
      BY <1>5, <2>3, <2>4, <2>7
    <3>3. FlattenSeq(lists) # <<>> /\ FlattenSeq(lists)[1] = lists[2][1]
      BY <1>3, <3>1, <3>2, FlattenHead
    <3>4. QED
      BY <1>3, <2>4, <2>7, <3>3
  <2>9. QED
    BY <1>6, <2>1, <2>6, <2>8
<1>10. CASE ~HasNextInItem(c) /\ i = Len(c.items)
  <2>1. PeekNext(c) = NoTrack
    BY <1>1, <1>10 DEF PeekNext
  <2>2. RowsOf(c, i) = <<>>
    <3>1. c.items[i].at = Len(c.items[i].tracks)
      BY <1>1, <1>7, <1>10, ItemFacts DEF HasNextInItem
    <3>2. QED
      BY <1>1, <1>7, <3>1, NoRow
  <2>3. Len(lists) = 1
    BY <1>2, <1>3, <1>10
  <2>4. PICK f : Partials(lists, f, 1) /\ FlattenSeq(lists) = f[1]
    <3>1. Len(lists) # 0
      BY <2>3
    <3>2. \E f : Partials(lists, f, Len(lists)) /\ FlattenSeq(lists) = f[Len(lists)]
      BY <1>3, <3>1, FlattenIs
    <3>3. QED
      BY <2>3, <3>2
  <2>5. f[1] = lists[1]
    BY <2>4 DEF Partials
  <2>6. QED
    BY <1>3, <1>5, <2>1, <2>2, <2>4, <2>5
<1>11. QED
  BY <1>2, <1>8, <1>9, <1>10


-----------------------------------------------------------------------------
(* What the undo record means for the albums as lists of tracks. *)
CanPutBack(lists, r) ==
  IF r.itemRemoved THEN r.position.item <= Len(lists) + 1
  ELSE /\ r.position.item \in DOMAIN lists
       /\ r.position.track <= Len(lists[r.position.item]) + 1

PutBack(lists, r) ==
  IF r.itemRemoved THEN InsertAt(lists, r.position.item, <<r.track>>)
  ELSE [lists EXCEPT ![r.position.item] = InsertAt(@, r.position.track, r.track)]

-----------------------------------------------------------------------------
(* Changing the albums and changing their lists is the same thing. *)

TracksOf(items) == [i \in DOMAIN items |-> items[i].tracks]

LEMMA TracksOfIs ==
  ASSUME NEW items \in Seq(Stocked)
  PROVE  /\ TracksOf(items) \in Seq(Seq(Tracks)) /\ Len(TracksOf(items)) = Len(items)
         /\ Len(items) \in Nat
         /\ \A i \in 1..Len(items) : TracksOf(items)[i] = items[i].tracks
<1>1. Len(items) \in Nat /\ DOMAIN items = 1..Len(items)
  BY LenProperties
<1>2. \A i \in 1..Len(items) : items[i].tracks \in Seq(Tracks)
  <2>1. \A i \in 1..Len(items) : items[i] \in Stocked
    BY ElementOfSeq
  <2>2. QED
    BY <2>1 DEF Stocked
<1>3. QED
  BY <1>1, <1>2 DEF TracksOf

LEMMA TracksOfMade ==
  ASSUME NEW items, NEW current, NEW selected
  PROVE  /\ Lists(Made(items, current, selected)) = TracksOf(items)
         /\ Lists(ClampSelected(Made(items, current, selected))) = TracksOf(items)
         /\ CurrentTrack(ClampSelected(Made(items, current, selected)))
              = CurrentTrack(Made(items, current, selected))
         /\ ClampSelected(Made(items, current, selected)).current = current
<1> DEFINE s == IF selected > Len(items) THEN IF Len(items) = 0 THEN 1 ELSE Len(items) ELSE selected
<1>1. ClampSelected(Made(items, current, selected)) = Made(items, current, s)
  BY DEF ClampSelected, Made
<1> HIDE DEF s
<1>2. \A x : Lists(Made(items, current, x)) = TracksOf(items)
  BY DEF Lists, TracksOf, Made
<1>3. CurrentTrack(Made(items, current, s)) = CurrentTrack(Made(items, current, selected))
  BY DEF CurrentTrack, Made
<1>4. QED
  BY <1>1, <1>2, <1>3 DEF Made

LEMMA TracksOfRemoved ==
  ASSUME NEW items \in Seq(Stocked), NEW i \in 1..Len(items)
  PROVE  TracksOf(RemoveAt(items, i)) = RemoveAt(TracksOf(items), i)
<1> DEFINE lists == TracksOf(items)
           left == RemoveAt(items, i)
<1>1. /\ left \in Seq(Stocked) /\ Len(left) = Len(items) - 1
      /\ \A j \in 1..(i - 1) : left[j] = items[j]
      /\ \A j \in i..(Len(items) - 1) : left[j] = items[j + 1]
  BY Removed
<1>2. /\ lists \in Seq(Seq(Tracks)) /\ Len(lists) = Len(items) /\ Len(items) \in Nat
      /\ \A j \in 1..Len(items) : lists[j] = items[j].tracks
  BY TracksOfIs
<1> HIDE DEF lists
<1>3. /\ RemoveAt(lists, i) \in Seq(Seq(Tracks)) /\ Len(RemoveAt(lists, i)) = Len(items) - 1
      /\ \A j \in 1..(i - 1) : RemoveAt(lists, i)[j] = lists[j]
      /\ \A j \in i..(Len(items) - 1) : RemoveAt(lists, i)[j] = lists[j + 1]
  BY <1>2, Removed
<1> HIDE DEF left
<1>4. /\ TracksOf(left) \in Seq(Seq(Tracks)) /\ Len(TracksOf(left)) = Len(items) - 1
      /\ \A j \in 1..(Len(items) - 1) : TracksOf(left)[j] = left[j].tracks
  <2>1. left \in Seq(Stocked)
    BY <1>1
  <2>2. QED
    BY <1>1, <2>1, TracksOfIs
<1>5. ASSUME NEW j \in 1..(Len(items) - 1) PROVE TracksOf(left)[j] = RemoveAt(lists, i)[j]
  <2>1. CASE j < i
    <3>1. j \in 1..(i - 1) /\ j \in 1..Len(items)
      BY <1>2, <2>1
    <3>2. QED
      BY <1>1, <1>2, <1>3, <1>4, <3>1
  <2>2. CASE j >= i
    <3>1. j \in i..(Len(items) - 1) /\ j + 1 \in 1..Len(items)
      BY <1>2, <2>2
    <3>2. left[j] = items[j + 1] /\ RemoveAt(lists, i)[j] = lists[j + 1]
      BY <1>1, <1>3, <3>1
    <3>3. QED
      BY <1>2, <1>4, <3>1, <3>2
  <2>3. QED
    BY <1>2, <2>1, <2>2
<1>6. TracksOf(left) = RemoveAt(lists, i)
  BY <1>3, <1>4, <1>5, SeqEqual
<1>7. QED
  BY <1>6 DEF left, lists

LEMMA TracksOfInserted ==
  ASSUME NEW items \in Seq(Stocked), NEW i \in 1..(Len(items) + 1), NEW x \in Stocked
  PROVE  TracksOf(InsertAt(items, i, x)) = InsertAt(TracksOf(items), i, x.tracks)
<1> DEFINE lists == TracksOf(items)
           more == InsertAt(items, i, x)
           longer == InsertAt(lists, i, x.tracks)
<1>1. /\ more \in Seq(Stocked) /\ Len(more) = Len(items) + 1
      /\ \A j \in 1..(i - 1) : more[j] = items[j]
      /\ more[i] = x
      /\ \A j \in i..Len(items) : more[j + 1] = items[j]
  BY Inserted
<1>2. /\ lists \in Seq(Seq(Tracks)) /\ Len(lists) = Len(items) /\ Len(items) \in Nat
      /\ \A j \in 1..Len(items) : lists[j] = items[j].tracks
  BY TracksOfIs
<1> HIDE DEF lists
<1>3. x.tracks \in Seq(Tracks)
  BY DEF Stocked
<1>4. /\ longer \in Seq(Seq(Tracks)) /\ Len(longer) = Len(items) + 1
      /\ \A j \in 1..(i - 1) : longer[j] = lists[j]
      /\ longer[i] = x.tracks
      /\ \A j \in i..Len(items) : longer[j + 1] = lists[j]
  BY <1>2, <1>3, Inserted
<1> HIDE DEF more, longer
<1>5. /\ TracksOf(more) \in Seq(Seq(Tracks)) /\ Len(TracksOf(more)) = Len(items) + 1
      /\ \A j \in 1..(Len(items) + 1) : TracksOf(more)[j] = more[j].tracks
  <2>1. more \in Seq(Stocked)
    BY <1>1
  <2>2. QED
    BY <1>1, <2>1, TracksOfIs
<1>6. ASSUME NEW j \in 1..(Len(items) + 1) PROVE TracksOf(more)[j] = longer[j]
  <2>1. CASE j < i
    <3>1. j \in 1..(i - 1) /\ j \in 1..Len(items)
      BY <1>2, <2>1
    <3>2. QED
      BY <1>1, <1>2, <1>4, <1>5, <3>1
  <2>2. CASE j = i
    BY <1>1, <1>4, <1>5, <2>2
  <2>3. CASE j > i
    <3>1. PICK k \in i..Len(items) : k + 1 = j
      BY <1>2, <2>3, j - 1 \in i..Len(items), (j - 1) + 1 = j
    <3>2. k \in 1..Len(items)
      BY <1>2
    <3>3. more[k + 1] = items[k] /\ longer[k + 1] = lists[k]
      BY <1>1, <1>4
    <3>4. QED
      BY <1>2, <1>5, <3>1, <3>2, <3>3
  <2>4. QED
    BY <1>2, <2>1, <2>2, <2>3
<1>7. TracksOf(more) = longer
  BY <1>4, <1>5, <1>6, SeqEqual
<1>8. QED
  BY <1>7 DEF more, longer, lists

LEMMA TracksOfReplaced ==
  ASSUME NEW items \in Seq(Stocked), NEW i \in 1..Len(items), NEW x
  PROVE  TracksOf([items EXCEPT ![i] = x]) = [TracksOf(items) EXCEPT ![i] = x.tracks]
<1>1. DOMAIN items = 1..Len(items)
  BY LenProperties
<1>2. QED
  BY <1>1 DEF TracksOf

-----------------------------------------------------------------------------
(* The record of a removal puts back what the removal took. *)

LEMMA RemovalPutsBack ==
  ASSUME NEW c, WellFormed(c), NEW pos \in AllRows(c)
  PROVE  /\ CanPutBack(Lists(TakeUpcoming(c, pos)), Removal(c, pos))
         /\ PutBack(Lists(TakeUpcoming(c, pos)), Removal(c, pos)) = Lists(c)
<1> DEFINE i == pos.item
           k == pos.track
           tracks == c.items[i].tracks
           rest == RemoveAt(tracks, k)
           lists == Lists(c)
           left == Lists(TakeUpcoming(c, pos))
           r == Removal(c, pos)
<1>1. /\ i \in DOMAIN c.items /\ i \in Nat /\ i >= 1 /\ i <= Len(c.items)
      /\ k \in Nat /\ k >= 1 /\ k <= Len(tracks)
  BY RowFacts
<1>2. tracks \in Seq(Tracks) /\ Len(tracks) \in Nat /\ k \in 1..Len(tracks) /\ i \in 1..Len(c.items)
  BY <1>1, ItemFacts, Facts
<1>3. /\ c.items \in Seq(Stocked) /\ lists = TracksOf(c.items) /\ lists \in Seq(Seq(Tracks))
      /\ Len(lists) = Len(c.items) /\ lists[i] = tracks /\ DOMAIN lists = 1..Len(lists)
      /\ Len(c.items) \in Nat
  BY <1>1, Facts, ListsFacts DEF Lists, TracksOf
<1>4. rest \in Seq(Tracks) /\ Len(rest) = Len(tracks) - 1 /\ InsertAt(rest, k, tracks[k]) = tracks
  BY <1>2, Removed, Restored
<1>5. /\ r.position.item = i /\ r.position.track = k /\ r.track = tracks[k]
      /\ r.itemRemoved <=> Len(tracks) = 1
  BY DEF Removal
<1>6. rest = <<>> <=> Len(tracks) = 1
  <2> HIDE DEF rest, tracks
  <2>1. rest = <<>> <=> Len(rest) = 0
    BY <1>4, EmptySeq
  <2>2. QED
    BY <1>2, <1>4, <2>1
<1>7. TakeUpcoming(c, pos) =
        ClampSelected([c EXCEPT !.items = IF rest = <<>> THEN RemoveAt(c.items, i)
                                          ELSE Retracked(c, i, rest)])
  BY DEF TakeUpcoming, Retracked
<1> HIDE DEF r, lists
<1>8. CASE Len(tracks) = 1
  <2>1. left = RemoveAt(lists, i)
    <3>1. TakeUpcoming(c, pos) = ClampSelected(Made(RemoveAt(c.items, i), c.current, c.selected))
      BY <1>6, <1>7, <1>8, Updated
    <3>2. left = TracksOf(RemoveAt(c.items, i))
      BY <3>1, TracksOfMade
    <3>3. QED
      BY <1>2, <1>3, <3>2, TracksOfRemoved
  <2> HIDE DEF left
  <2>2. Len(left) = Len(lists) - 1
    BY <1>2, <1>3, <2>1, Removed
  <2>3. tracks = <<tracks[k]>>
    <3>1. k = 1
      BY <1>2, <1>8
    <3>2. <<tracks[1]>> \in Seq(Tracks) /\ Len(<<tracks[1]>>) = 1 /\ <<tracks[1]>>[1] = tracks[1]
      BY <1>2, <3>1, ElementOfSeq
    <3> HIDE DEF tracks
    <3>3. \A j \in 1..Len(tracks) : tracks[j] = <<tracks[1]>>[j]
      BY <1>8, <3>2
    <3>4. tracks = <<tracks[1]>>
      BY <1>2, <1>8, <3>2, <3>3, SeqEqual
    <3>5. QED
      BY <3>1, <3>4
  <2>4. InsertAt(left, i, lists[i]) = lists
    BY <1>2, <1>3, <2>1, Restored
  <2>5. PutBack(left, r) = InsertAt(left, i, <<tracks[k]>>)
    BY <1>5, <1>8 DEF PutBack
  <2>6. PutBack(left, r) = lists
    BY <1>3, <2>3, <2>4, <2>5, Zenon
  <2>7. CanPutBack(left, r)
    BY <1>1, <1>3, <1>5, <1>8, <2>2 DEF CanPutBack
  <2>8. QED
    BY <2>6, <2>7 DEF left, r, lists
<1>9. CASE Len(tracks) # 1
  <2>1. left = [lists EXCEPT ![i] = rest]
    <3> DEFINE x == [c.items[i] EXCEPT !.tracks = rest]
    <3>1. TakeUpcoming(c, pos) = ClampSelected(Made(Retracked(c, i, rest), c.current, c.selected))
      BY <1>6, <1>7, <1>9, Updated
    <3>2. left = TracksOf(Retracked(c, i, rest))
      BY <3>1, TracksOfMade
    <3>3. Retracked(c, i, rest) = [c.items EXCEPT ![i] = x]
      BY DEF Retracked
    <3>4. x.tracks = rest
      <4>1. c.items[i] \in Stocked
        BY <1>1, ItemFacts
      <4> HIDE DEF rest
      <4>2. QED
        BY <4>1 DEF Stocked
    <3> HIDE DEF x
    <3>5. TracksOf([c.items EXCEPT ![i] = x]) = [TracksOf(c.items) EXCEPT ![i] = x.tracks]
      <4>1. c.items \in Seq(Stocked)
        BY <1>2, <1>3
      <4>2. i \in 1..Len(c.items)
        BY <1>2, <1>3
      <4>3. QED
        BY <4>1, <4>2, TracksOfReplaced, Zenon
    <3>6. QED
      BY <1>3, <3>2, <3>3, <3>4, <3>5
  <2> HIDE DEF left, rest
  <2>2. /\ left \in Seq(Seq(Tracks)) /\ Len(left) = Len(lists) /\ left[i] = rest
        /\ DOMAIN left = DOMAIN lists
    BY <1>2, <1>3, <1>4, <2>1, ExceptSeq
  <2>3. PutBack(left, r) = [left EXCEPT ![i] = InsertAt(left[i], k, tracks[k])]
    BY <1>5, <1>9 DEF PutBack
  <2>4. PutBack(left, r) = [left EXCEPT ![i] = lists[i]]
    BY <1>3, <1>4, <2>2, <2>3
  <2>5. PutBack(left, r) = lists
    <3>1. lists = [j \in 1..Len(lists) |-> lists[j]]
      BY <1>3, LenProperties
    <3>2. [[lists EXCEPT ![i] = rest] EXCEPT ![i] = lists[i]] = lists
      BY <1>3, <3>1
    <3>3. QED
      BY <2>1, <2>4, <3>2
  <2>6. CanPutBack(left, r)
    <3>1. i \in DOMAIN left /\ k <= Len(left[i]) + 1
      BY <1>1, <1>2, <1>3, <1>4, <2>2
    <3>2. QED
      BY <1>5, <1>9, <3>1 DEF CanPutBack
  <2>7. QED
    BY <2>5, <2>6 DEF left, r, lists
<1>10. QED
  BY <1>8, <1>9

(* A record that can be put back can be undone, and undoing it does that.  *)
LEMMA CanPutBackCanUndo ==
  ASSUME NEW c, WellFormed(c), NEW r \in RemovalRecord, CanPutBack(Lists(c), r)
  PROVE  CanUndoRemoval(c, r)
<1>1. /\ Len(Lists(c)) = Len(c.items) /\ DOMAIN Lists(c) = DOMAIN c.items
      /\ \A i \in DOMAIN c.items : Lists(c)[i] = c.items[i].tracks
  BY ListsFacts DEF Lists
<1>2. QED
  BY <1>1 DEF CanPutBack, CanUndoRemoval

LEMMA UndoPutsBackAlbum ==
  ASSUME NEW c, WellFormed(c), NEW r \in RemovalRecord, CanUndoRemoval(c, r), r.itemRemoved
  PROVE  /\ Lists(UndoRemoval(c, r)) = PutBack(Lists(c), r)
         /\ CurrentTrack(UndoRemoval(c, r)) = CurrentTrack(c)
         /\ c.current = 0 <=> UndoRemoval(c, r).current = 0
<1> DEFINE i == r.position.item
           x == NewItem(<<r.track>>)
           items == InsertAt(c.items, i, x)
           current == IF c.current >= i THEN c.current + 1 ELSE c.current
           selected == IF c.selected >= i THEN c.selected + 1 ELSE c.selected
<1>1. i \in Nat /\ i >= 1 /\ r.track \in Tracks
  BY DEF RemovalRecord
<1>2. /\ c.items \in Seq(Stocked) /\ Len(c.items) \in Nat /\ DOMAIN c.items = 1..Len(c.items)
      /\ c.current \in Nat /\ c.current <= Len(c.items) /\ i \in 1..(Len(c.items) + 1)
  BY <1>1, Facts DEF CanUndoRemoval
<1>3. x \in Stocked /\ x.tracks = <<r.track>>
  <2>1. <<r.track>> \in Seq(Tracks) /\ <<r.track>> # <<>>
    BY <1>1
  <2>2. x.tracks = <<r.track>>
    BY DEF NewItem
  <2>3. QED
    BY <2>1, <2>2, NewItemStocked
<1>4. UndoRemoval(c, r) = ClampSelected(Made(items, current, selected))
  BY DEF UndoRemoval, Made
<1> HIDE DEF x
<1>5. /\ items \in Seq(Stocked) /\ Len(items) = Len(c.items) + 1
      /\ \A j \in 1..(i - 1) : items[j] = c.items[j]
      /\ \A j \in i..Len(c.items) : items[j + 1] = c.items[j]
  BY <1>2, <1>3, Inserted
<1>6. TracksOf(items) = InsertAt(TracksOf(c.items), i, <<r.track>>)
  BY <1>2, <1>3, TracksOfInserted
<1> HIDE DEF items, selected
<1>7. Lists(UndoRemoval(c, r)) = PutBack(Lists(c), r)
  <2>1. Lists(UndoRemoval(c, r)) = TracksOf(items)
    BY <1>4, TracksOfMade
  <2>2. Lists(c) = TracksOf(c.items)
    BY DEF Lists, TracksOf
  <2>3. PutBack(Lists(c), r) = InsertAt(Lists(c), i, <<r.track>>)
    BY DEF PutBack
  <2>4. QED
    BY <1>6, <2>1, <2>2, <2>3
<1>8. c.current \in DOMAIN c.items <=> current \in DOMAIN items
  BY <1>1, <1>2, <1>5, LenProperties
<1>9. c.current \in DOMAIN c.items => items[current] = c.items[c.current]
  <2> SUFFICES ASSUME c.current \in DOMAIN c.items PROVE items[current] = c.items[c.current]
    OBVIOUS
  <2>1. CASE c.current < i
    <3>1. current = c.current /\ c.current \in 1..(i - 1)
      BY <1>1, <1>2, <2>1
    <3>2. QED
      BY <1>5, <3>1
  <2>2. CASE c.current >= i
    <3>1. current = c.current + 1 /\ c.current \in i..Len(c.items)
      BY <1>1, <1>2, <2>2
    <3>2. QED
      BY <1>5, <3>1
  <2>3. QED
    BY <1>1, <1>2, <2>1, <2>2
<1>10. current = 0 <=> c.current = 0
  BY <1>1, <1>2
<1> HIDE DEF current
<1>11. CurrentTrack(Made(items, current, selected)) = CurrentTrack(c)
  BY <1>8, <1>9 DEF CurrentTrack, Made
<1>12. QED
  BY <1>4, <1>7, <1>10, <1>11, TracksOfMade

LEMMA UndoPutsBackTrack ==
  ASSUME NEW c, WellFormed(c), NEW r \in RemovalRecord, CanUndoRemoval(c, r), ~r.itemRemoved
  PROVE  /\ Lists(UndoRemoval(c, r)) = PutBack(Lists(c), r)
         /\ CurrentTrack(UndoRemoval(c, r)) = CurrentTrack(c)
         /\ c.current = 0 <=> UndoRemoval(c, r).current = 0
<1> DEFINE i == r.position.item
           k == r.position.track
           old == c.items[i].tracks
           tracks == InsertAt(old, k, r.track)
           at == IF c.current = i /\ c.items[i].at >= k THEN c.items[i].at + 1 ELSE c.items[i].at
           x == [[c.items[i] EXCEPT !.tracks = tracks] EXCEPT !.at = at]
           items == [c.items EXCEPT ![i] = x]
<1>1. k \in Nat /\ k >= 1 /\ r.track \in Tracks
  BY DEF RemovalRecord
<1>2. /\ i \in DOMAIN c.items /\ k <= Len(old) + 1
      /\ c.items[i] \in Stocked /\ old \in Seq(Tracks) /\ Len(old) \in Nat /\ DOMAIN old = 1..Len(old)
      /\ c.items[i].at \in Nat /\ c.items[i].at >= 1
  <2>1. i \in DOMAIN c.items /\ k <= Len(old) + 1
    BY DEF CanUndoRemoval
  <2>2. QED
    BY <2>1, ItemFacts
<1>3. c.items \in Seq(Stocked) /\ DOMAIN c.items = 1..Len(c.items) /\ c.current \in Nat
  BY Facts
<1>4. UndoRemoval(c, r) = ClampSelected([c EXCEPT !.items = items])
  BY <1>2 DEF UndoRemoval, Stocked
<1>5. /\ tracks \in Seq(Tracks) /\ Len(tracks) = Len(old) + 1
      /\ \A j \in 1..(k - 1) : tracks[j] = old[j]
      /\ \A j \in k..Len(old) : tracks[j + 1] = old[j]
  <2>1. k \in 1..(Len(old) + 1)
    BY <1>1, <1>2
  <2>2. old \in Seq(Tracks) /\ r.track \in Tracks
    BY <1>1, <1>2
  <2> HIDE DEF old, k
  <2>3. QED
    BY <2>1, <2>2, Inserted
<1>6. DOMAIN tracks = 1..(Len(old) + 1)
  BY <1>5, LenProperties
<1>7. x.tracks = tracks /\ x.at = at
  <2> HIDE DEF tracks, at
  <2>1. QED
    BY <1>2 DEF Stocked
<1>8. UndoRemoval(c, r) = ClampSelected(Made(items, c.current, c.selected))
  BY <1>4, Updated
<1>9. Lists(UndoRemoval(c, r)) = PutBack(Lists(c), r)
  <2>1. Lists(c) = TracksOf(c.items) /\ Lists(c)[i] = old
    BY <1>2 DEF Lists, TracksOf
  <2>2. PutBack(Lists(c), r) = [Lists(c) EXCEPT ![i] = tracks]
    BY <2>1 DEF PutBack
  <2>3. Lists(UndoRemoval(c, r)) = TracksOf(items)
    BY <1>8, TracksOfMade
  <2> HIDE DEF x, tracks
  <2>4. TracksOf(items) = [TracksOf(c.items) EXCEPT ![i] = x.tracks]
    BY <1>2, <1>3, TracksOfReplaced
  <2>5. QED
    BY <1>7, <2>1, <2>2, <2>3, <2>4
<1> HIDE DEF x, tracks
<1>10. DOMAIN items = DOMAIN c.items /\ items[i] = x /\ \A j \in DOMAIN c.items : j # i => items[j] = c.items[j]
  BY <1>2
<1> HIDE DEF items
<1>11. CurrentTrack(Made(items, c.current, c.selected)) = CurrentTrack(c)
  <2>1. CASE c.current = i
    <3> DEFINE a == c.items[i].at
    <3>1. at = IF a >= k THEN a + 1 ELSE a
      BY <2>1
    <3>2. a \in Nat /\ a >= 1 /\ Len(old) \in Nat /\ DOMAIN old = 1..Len(old)
      BY <1>2
    <3> HIDE DEF at, a, old, k
    <3>3. a \in DOMAIN old <=> at \in DOMAIN tracks
      BY <1>1, <1>2, <1>6, <3>1, <3>2
    <3>4. a \in DOMAIN old => tracks[at] = old[a]
      <4>1. CASE a < k
        <5>1. a \in DOMAIN old => a \in 1..(k - 1)
          BY <1>1, <3>2, <4>1
        <5>2. at = a
          BY <1>1, <3>1, <3>2, <4>1
        <5>3. QED
          BY <1>5, <5>1, <5>2
      <4>2. CASE a >= k
        <5>1. a \in DOMAIN old => a \in k..Len(old)
          BY <1>1, <3>2, <4>2
        <5>2. at = a + 1
          BY <3>1, <4>2
        <5>3. QED
          BY <1>5, <5>1, <5>2
      <4>3. QED
        BY <1>1, <3>2, <4>1, <4>2
    <3>5. CurrentTrack(c) = IF a \in DOMAIN old THEN old[a] ELSE NoTrack
      BY <1>2, <2>1 DEF CurrentTrack, a, old
    <3>6. CurrentTrack(Made(items, c.current, c.selected))
            = IF at \in DOMAIN tracks THEN tracks[at] ELSE NoTrack
      BY <1>2, <1>7, <1>10, <2>1 DEF CurrentTrack, Made
    <3>7. QED
      BY <3>3, <3>4, <3>5, <3>6
  <2>2. CASE c.current # i
    BY <1>10, <2>2 DEF CurrentTrack, Made
  <2>3. QED
    BY <2>1, <2>2
<1>12. QED
  BY <1>8, <1>9, <1>11, TracksOfMade
-----------------------------------------------------------------------------
(* The edits addressed by a row of the upcoming list. *)

Place == [item : Nat, track : Nat]

(* Every place of the queue, album by album. *)
PlacesOf(c, i) == [k \in 1..Len(c.items[i].tracks) |-> RowAt(c, i, k)]
PlaceLists(c) == [i \in 1..Len(c.items) |-> PlacesOf(c, i)]

LEMMA PlacesOfType ==
  ASSUME NEW c, WellFormed(c), NEW i \in DOMAIN c.items
  PROVE  /\ PlacesOf(c, i) \in Seq(Place) /\ Len(PlacesOf(c, i)) = Len(c.items[i].tracks)
         /\ \A k \in 1..Len(c.items[i].tracks) : PlacesOf(c, i)[k] = RowAt(c, i, k)
<1> DEFINE n == Len(c.items[i].tracks)
<1>1. n \in Nat /\ i \in Nat
  BY Facts, ItemFacts
<1>2. ASSUME NEW k \in 1..n PROVE RowAt(c, i, k) \in Place
  BY <1>1 DEF RowAt, Place
<1>3. PlacesOf(c, i) = [k \in 1..n |-> RowAt(c, i, k)]
  BY DEF PlacesOf
<1> HIDE DEF n
<1>4. /\ PlacesOf(c, i) \in Seq(Place) /\ Len(PlacesOf(c, i)) = n
      /\ \A k \in 1..n : PlacesOf(c, i)[k] = RowAt(c, i, k)
  BY <1>1, <1>2, <1>3
<1>5. QED
  BY <1>4 DEF n

LEMMA PlaceListsType ==
  ASSUME NEW c, WellFormed(c)
  PROVE  /\ PlaceLists(c) \in Seq(Seq(Place)) /\ Len(PlaceLists(c)) = Len(c.items)
         /\ \A i \in 1..Len(c.items) : PlaceLists(c)[i] = PlacesOf(c, i)
<1> DEFINE n == Len(c.items)
<1>1. n \in Nat /\ DOMAIN c.items = 1..n
  BY Facts
<1>2. \A i \in 1..n : PlacesOf(c, i) \in Seq(Place)
  BY <1>1, PlacesOfType
<1>3. PlaceLists(c) = [i \in 1..n |-> PlacesOf(c, i)]
  BY DEF PlaceLists
<1> HIDE DEF n
<1>4. /\ PlaceLists(c) \in Seq(Seq(Place)) /\ Len(PlaceLists(c)) = n
      /\ \A i \in 1..n : PlaceLists(c)[i] = PlacesOf(c, i)
  BY <1>1, <1>2, <1>3
<1>5. QED
  BY <1>4 DEF n

(* The places up to the cursor. *)
HeardPlaces(c) ==
  IF c.current = 0 THEN <<>>
  ELSE FlattenSeq(SubSeq(PlaceLists(c), 1, c.current - 1))
         \o SubSeq(PlacesOf(c, c.current), 1, c.items[c.current].at)

LEMMA ShownCursor ==
  ASSUME NEW c, WellFormed(c), Showing(c), c.current # 0
  PROVE  /\ c.current \in DOMAIN c.items /\ c.current \in 1..Len(c.items)
         /\ c.items[c.current].at \in 1..Len(c.items[c.current].tracks)
<1>1. CurrentTrack(c) # NoTrack
  BY DEF Showing
<1>2. c.current \in DOMAIN c.items
  BY Facts
<1>3. c.items[c.current].at \in DOMAIN c.items[c.current].tracks
  BY <1>1 DEF CurrentTrack
<1>4. QED
  BY <1>2, <1>3, Facts, ItemFacts

LEMMA UnheardAlbum ==
  ASSUME NEW c, WellFormed(c), NEW i \in DOMAIN c.items, i # c.current
  PROVE  RowsOf(c, i) = PlacesOf(c, i)
<1>1. Skipped(c, i) = 0
  BY DEF Skipped
<1>2. Len(c.items[i].tracks) - 0 = Len(c.items[i].tracks)
  BY ItemFacts
<1>3. \A k \in 1..Len(c.items[i].tracks) : 0 + k = k
  OBVIOUS
<1>4. QED
  BY <1>1, <1>2, <1>3 DEF RowsOf, PlacesOf

(* Heard and upcoming places are together the places of the queue. *)
LEMMA StoppedPlaces ==
  ASSUME NEW c, WellFormed(c), c.current = 0
  PROVE  Joins(FlattenSeq(PlaceLists(c)), HeardPlaces(c), Upcoming(c))
<1>1. Upcoming(c) = FlattenSeq(RowLists(c))
  BY UpcomingIs DEF Showing
<1>2. RowLists(c) = PlaceLists(c)
  <2>1. FirstShown(c) = 1 /\ Len(c.items) \in Nat /\ DOMAIN c.items = 1..Len(c.items)
    BY Facts DEF FirstShown
  <2>2. ASSUME NEW i \in 1..Len(c.items) PROVE RowsOf(c, 1 + i - 1) = PlacesOf(c, i)
    <3>1. 1 + i - 1 = i /\ i # c.current /\ i \in DOMAIN c.items
      BY <2>1
    <3>2. QED
      BY <3>1, UnheardAlbum
  <2>3. Len(c.items) - 1 + 1 = Len(c.items)
    BY <2>1
  <2>4. QED
    BY <2>1, <2>2, <2>3 DEF RowLists, PlaceLists
<1>3. FlattenSeq(PlaceLists(c)) \in Seq(Place)
  BY PlaceListsType, FlattenType
<1>4. <<>> \o FlattenSeq(PlaceLists(c)) = FlattenSeq(PlaceLists(c))
  BY <1>3, ConcatEmptySeq
<1>5. QED
  BY <1>1, <1>2, <1>4 DEF Joins, HeardPlaces

LEMMA PlayingPlaces ==
  ASSUME NEW c, WellFormed(c), Showing(c), c.current # 0
  PROVE  Joins(FlattenSeq(PlaceLists(c)), HeardPlaces(c), Upcoming(c))
<1> DEFINE cur == c.current
           at == c.items[cur].at
           len == Len(c.items)
           p == PlaceLists(c)
           r == RowLists(c)
           h == FlattenSeq(SubSeq(p, 1, cur - 1))
           a == SubSeq(PlacesOf(c, cur), 1, at)
           b == RowsOf(c, cur)
           g == FlattenSeq(SubSeq(p, cur + 1, Len(p)))
<1>1. cur \in DOMAIN c.items /\ cur \in 1..len /\ len \in Nat /\ at \in 1..Len(c.items[cur].tracks)
  BY ShownCursor, Facts
<1>2. p \in Seq(Seq(Place)) /\ Len(p) = len /\ \A i \in 1..len : p[i] = PlacesOf(c, i)
  BY PlaceListsType
<1>3. r \in Seq(Seq(AllRows(c))) /\ Len(r) = len - cur + 1
  BY RowListsType DEF FirstShown
<1>4. AllRows(c) \subseteq Place
  BY Facts DEF AllRows, Place
<1>5. r \in Seq(Seq(Place))
  BY <1>3, <1>4
<1>6. \A k \in 1..(len - cur + 1) : r[k] = RowsOf(c, cur + k - 1)
  BY DEF RowLists, FirstShown
<1>7. r[1] = b
  BY <1>1, <1>6
<1>8. h \in Seq(Place) /\ g \in Seq(Place) /\ PlacesOf(c, cur) \in Seq(Place)
  <2>1. cur \in 1..Len(p) /\ p \in Seq(Seq(Place))
    BY <1>1, <1>2
  <2>2. h \in Seq(Place) /\ g \in Seq(Place)
    BY <2>1, FlattenAround
  <2>3. QED
    BY <2>2, <1>1, PlacesOfType
<1>9. FlattenSeq(p) = h \o (PlacesOf(c, cur) \o g)
  <2>1. cur \in 1..Len(p) /\ p \in Seq(Seq(Place))
    BY <1>1, <1>2
  <2> HIDE DEF p, cur
  <2>2. FlattenSeq(p) = h \o (p[cur] \o g)
    BY <2>1, FlattenAround
  <2>3. QED
    BY <2>2, <1>1, <1>2, Zenon
<1>10. /\ a \in Seq(Place) /\ b \in Seq(Place)
       /\ PlacesOf(c, cur) = a \o b
  <2> DEFINE s == PlacesOf(c, cur)
             n == Len(c.items[cur].tracks)
  <2>1. s \in Seq(Place) /\ Len(s) = n /\ n \in Nat /\ \A k \in 1..n : s[k] = RowAt(c, cur, k)
    BY <1>1, PlacesOfType, ItemFacts
  <2>2. b \in Seq(Place) /\ Len(b) = n - at /\ \A k \in 1..(n - at) : b[k] = RowAt(c, cur, at + k)
    <3>1. cur - cur + 1 = 1 /\ 1 \in 1..Len(r) /\ r[1] = b
      BY <1>1, <1>3, <1>7
    <3>2. b \in Seq(Place)
      BY <1>5, <3>1, ElementOfSeq, Zenon
    <3>3. Skipped(c, cur) = at
      BY DEF Skipped
    <3>4. b = [k \in 1..(n - at) |-> RowAt(c, cur, at + k)]
      BY <3>3, Zenon DEF RowsOf
    <3>5. n - at \in Nat
      BY <1>1, <2>1
    <3> HIDE DEF b, n, at
    <3>6. Len(b) = n - at
      BY <3>2, <3>4, <3>5, LenProperties
    <3>7. ASSUME NEW k \in 1..(n - at) PROVE b[k] = RowAt(c, cur, at + k)
      BY <3>4, Zenon
    <3>8. QED
      BY <3>2, <3>6, <3>7, Zenon
  <2>3. at \in Nat /\ at <= n /\ at + 1 \in 1..(n + 1) /\ n \in ((at + 1) - 1)..n
    <3>1. at \in 1..n /\ n \in Nat
      BY <1>1, <2>1, Zenon
    <3> HIDE DEF at, n
    <3>2. QED
      BY <3>1
  <2> HIDE DEF s, n, b, at, cur, len
  <2>4. SubSeq(s, at + 1, n) = b
    <3>1. /\ SubSeq(s, at + 1, n) \in Seq(Place) /\ Len(SubSeq(s, at + 1, n)) = n - (at + 1) + 1
          /\ \A k \in 1..(n - (at + 1) + 1) : SubSeq(s, at + 1, n)[k] = s[at + 1 + k - 1]
      BY <2>1, <2>3, Piece
    <3>2. n - (at + 1) + 1 = n - at
      BY <2>1, <2>3
    <3>3. ASSUME NEW k \in 1..(n - at) PROVE SubSeq(s, at + 1, n)[k] = b[k]
      <4>1. at + 1 + k - 1 = at + k /\ at + k \in 1..n
        BY <2>1, <2>3
      <4>2. QED
        BY <2>1, <2>2, <3>1, <3>2, <4>1
    <3> DEFINE u == SubSeq(s, at + 1, n)
    <3>4. u \in Seq(Place) /\ Len(u) = n - at /\ \A k \in 1..(n - at) : u[k] = b[k]
      BY <3>1, <3>2, <3>3
    <3> HIDE DEF u
    <3>5. Len(u) = Len(b) /\ \A k \in 1..Len(u) : u[k] = b[k]
      BY <2>2, <3>4
    <3>6. b \in Seq(Place) /\ u \in Seq(Place)
      BY <2>2, <3>4
    <3>7. u = b
      BY <3>5, <3>6, SeqEqual
    <3>8. QED
      BY <3>7 DEF u
  <2>5. s \in Seq(Place) /\ at <= Len(s)
    BY <2>1, <2>3
  <2>6. SubSeq(s, 1, at) \in Seq(Place) /\ SubSeq(s, 1, at) \o SubSeq(s, at + 1, Len(s)) = s
    BY <2>3, <2>5, Halves
  <2>7. a = SubSeq(s, 1, at)
    BY Zenon DEF s, at, cur
  <2>8. a \o b = s
    BY <2>1, <2>4, <2>6, <2>7, Zenon
  <2>9. QED
    BY <2>2, <2>6, <2>7, <2>8, Zenon DEF s
<1>11. FlattenSeq(r) = b \o g
  <2>1. 1 \in 1..Len(r) /\ r \in Seq(Seq(Place))
    BY <1>1, <1>3, <1>5
  <2>2. SubSeq(r, 1 + 1, Len(r)) = SubSeq(p, cur + 1, Len(p))
    <3> DEFINE m == 1 + 1
               q == cur + 1
               u == SubSeq(r, m, Len(r))
               v == SubSeq(p, q, Len(p))
               d == len - cur
    <3>1. m \in 1..(Len(r) + 1) /\ Len(r) \in (m - 1)..Len(r) /\ Len(r) - m + 1 = d
      BY <1>1, <1>3
    <3>2. q \in 1..(Len(p) + 1) /\ Len(p) \in (q - 1)..Len(p) /\ Len(p) - q + 1 = d
      <4>1. Len(p) = len /\ cur \in 1..len /\ len \in Nat
        BY <1>1, <1>2
      <4> HIDE DEF p, cur, u, v, m, len, at, r, h, a, b, g
      <4>2. QED
        BY <4>1
    <3>3. \A k \in 1..d : r[m + k - 1] = p[q + k - 1]
      <4>1. SUFFICES ASSUME NEW k \in 1..d PROVE r[m + k - 1] = p[q + k - 1]
        OBVIOUS
      <4>2. m + k - 1 \in 1..(len - cur + 1) /\ cur + (m + k - 1) - 1 = q + k - 1
        BY <1>1
      <4>3. q + k - 1 \in 1..len /\ q + k - 1 # cur /\ q + k - 1 \in DOMAIN c.items
        BY <1>1, Facts
      <4>4. r[m + k - 1] = RowsOf(c, q + k - 1)
        BY <1>6, <4>2
      <4>5. p[q + k - 1] = PlacesOf(c, q + k - 1)
        BY <1>2, <4>3
      <4>6. QED
        BY <4>3, <4>4, <4>5, UnheardAlbum
    <3>4. r \in Seq(Seq(Place)) /\ p \in Seq(Seq(Place))
      BY <1>2, <1>5
    <3> HIDE DEF r, p, m, q, d
    <3>5. u \in Seq(Seq(Place)) /\ Len(u) = Len(r) - m + 1 /\ \A k \in 1..(Len(r) - m + 1) : u[k] = r[m + k - 1]
      BY <3>1, <3>4, Piece
    <3>6. v \in Seq(Seq(Place)) /\ Len(v) = Len(p) - q + 1 /\ \A k \in 1..(Len(p) - q + 1) : v[k] = p[q + k - 1]
      BY <3>2, <3>4, Piece
    <3> HIDE DEF u, v
    <3>7. Len(u) = Len(v) /\ \A k \in 1..Len(u) : u[k] = v[k]
      BY <3>1, <3>2, <3>3, <3>5, <3>6
    <3>8. u = v
      BY <3>5, <3>6, <3>7, SeqEqual
    <3>9. QED
      BY <3>8 DEF u, v, m, q
  <2>3. SubSeq(r, 1, 1 - 1) = <<>>
    <3>1. 1 > 1 - 1
      OBVIOUS
    <3>2. QED
      BY <3>1, <2>1, SubSeqEmpty
  <2>4. FlattenSeq(SubSeq(r, 1, 1 - 1)) = <<>>
    BY <2>3, FlattenNone, Zenon
  <2> HIDE DEF r, p, b, g
  <2>5. FlattenSeq(r) = FlattenSeq(SubSeq(r, 1, 1 - 1)) \o (r[1] \o FlattenSeq(SubSeq(r, 1 + 1, Len(r))))
    BY <2>1, FlattenAround
  <2>6. b \o g \in Seq(Place)
    BY <1>8, <1>10
  <2>7. <<>> \o (b \o g) = b \o g
    BY <2>6, ConcatEmptySeq
  <2>8. QED
    BY <1>7, <2>2, <2>4, <2>5, <2>7, Zenon DEF g
<1>12. Upcoming(c) = FlattenSeq(r) /\ HeardPlaces(c) = h \o a
  BY UpcomingIs, Zenon DEF HeardPlaces
<1> HIDE DEF h, a, b, g, p, r
<1>13. Joins((h \o a) \o (b \o g), h, (a \o b) \o g)
  BY <1>8, <1>10, FourJoined
<1>14. QED
  BY <1>9, <1>10, <1>11, <1>12, <1>13, Zenon DEF Joins, p

(* A place and the track queued there. *)
Names(c) ==
  {x \in Place \X Tracks : x[2] = c.items[x[1].item].tracks[x[1].track]}

LEMMA PlaceNames ==
  ASSUME NEW c, WellFormed(c), NEW i \in 1..Len(c.items)
  PROVE  /\ PlaceLists(c)[i] \in Seq(Place) /\ Lists(c)[i] \in Seq(Tracks)
         /\ Len(PlaceLists(c)[i]) = Len(Lists(c)[i])
         /\ \A k \in 1..Len(PlaceLists(c)[i]) : <<PlaceLists(c)[i][k], Lists(c)[i][k]>> \in Names(c)
<1>1. i \in DOMAIN c.items
  BY Facts
<1>2. Lists(c)[i] = c.items[i].tracks /\ c.items[i].tracks \in Seq(Tracks)
  BY <1>1, ListsFacts, ItemFacts
<1>3. PlaceLists(c)[i] = PlacesOf(c, i)
  BY PlaceListsType
<1>4. PlacesOf(c, i) \in Seq(Place) /\ Len(PlacesOf(c, i)) = Len(c.items[i].tracks)
  BY <1>1, PlacesOfType
<1>5. ASSUME NEW k \in 1..Len(c.items[i].tracks)
      PROVE  <<PlacesOf(c, i)[k], c.items[i].tracks[k]>> \in Names(c)
  <2>1. PlacesOf(c, i)[k] = RowAt(c, i, k)
    BY <1>1, PlacesOfType
  <2>2. RowAt(c, i, k) \in Place /\ RowAt(c, i, k).item = i /\ RowAt(c, i, k).track = k
    BY DEF RowAt, Place
  <2>3. c.items[i].tracks[k] \in Tracks
    BY <1>2
  <2> DEFINE x == <<RowAt(c, i, k), c.items[i].tracks[k]>>
  <2>4. x \in Place \X Tracks /\ x[1] = RowAt(c, i, k) /\ x[2] = c.items[i].tracks[k]
    BY <2>2, <2>3
  <2> HIDE DEF x
  <2>5. x \in Names(c)
    BY <2>2, <2>4 DEF Names
  <2>6. QED
    BY <2>1, <2>5 DEF x
<1>6. QED
  BY <1>2, <1>3, <1>4, <1>5

LEMMA FlatPlaces ==
  ASSUME NEW c, WellFormed(c)
  PROVE  /\ FlattenSeq(PlaceLists(c)) \in Seq(Place)
         /\ Len(FlattenSeq(PlaceLists(c))) = Len(FlatTracks(c))
         /\ \A j \in 1..Len(FlatTracks(c)) :
              FlatTracks(c)[j] = c.items[FlattenSeq(PlaceLists(c))[j].item].tracks[FlattenSeq(PlaceLists(c))[j].track]
<1> DEFINE p == PlaceLists(c)
           t == Lists(c)
           R == Names(c)
<1>1. p \in Seq(Seq(Place)) /\ Len(p) = Len(c.items) /\ t \in Seq(Seq(Tracks)) /\ Len(t) = Len(c.items)
  BY PlaceListsType, ListsFacts
<1>2. ASSUME NEW i \in 1..Len(c.items)
      PROVE  Len(p[i]) = Len(t[i]) /\ \A k \in 1..Len(p[i]) : <<p[i][k], t[i][k]>> \in R
  BY PlaceNames
<1>3. FlatTracks(c) = FlattenSeq(t)
  BY FlatTracksType
<1> HIDE DEF p, t, R
<1>4. p \in Seq(Seq(Place)) /\ t \in Seq(Seq(Tracks)) /\ Len(p) = Len(t)
  BY <1>1
<1>5. \A i \in 1..Len(p) : Len(p[i]) = Len(t[i]) /\ \A k \in 1..Len(p[i]) : <<p[i][k], t[i][k]>> \in R
  BY <1>1, <1>2
<1>6. /\ Len(FlattenSeq(p)) = Len(FlattenSeq(t))
      /\ \A r \in 1..Len(FlattenSeq(p)) : <<FlattenSeq(p)[r], FlattenSeq(t)[r]>> \in R
  BY <1>4, <1>5, FlattenRelated
<1>7. FlattenSeq(p) \in Seq(Place)
  BY <1>1, FlattenType
<1>8. ASSUME NEW j \in 1..Len(FlattenSeq(t))
      PROVE  FlattenSeq(t)[j] = c.items[FlattenSeq(p)[j].item].tracks[FlattenSeq(p)[j].track]
  <2> DEFINE x == <<FlattenSeq(p)[j], FlattenSeq(t)[j]>>
  <2>1. x \in R
    BY <1>6
  <2>2. x[1] = FlattenSeq(p)[j] /\ x[2] = FlattenSeq(t)[j]
    OBVIOUS
  <2> HIDE DEF x
  <2>3. x[2] = c.items[x[1].item].tracks[x[1].track]
    BY <2>1 DEF R, Names
  <2>4. QED
    BY <2>2, <2>3, Zenon
<1>9. QED
  BY <1>3, <1>6, <1>7, <1>8, Zenon DEF p

LEMMA FlatStart ==
  ASSUME NEW c, WellFormed(c), NEW n \in Nat, n <= Len(c.items)
  PROVE  Len(FlattenSeq(SubSeq(PlaceLists(c), 1, n))) = Len(FlattenSeq(SubSeq(Lists(c), 1, n)))
<1> DEFINE p == PlaceLists(c)
           t == Lists(c)
           u == SubSeq(p, 1, n)
           v == SubSeq(t, 1, n)
           R == Names(c)
<1>1. p \in Seq(Seq(Place)) /\ Len(p) = Len(c.items) /\ t \in Seq(Seq(Tracks)) /\ Len(t) = Len(c.items)
  BY PlaceListsType, ListsFacts
<1>2. ASSUME NEW i \in 1..Len(c.items)
      PROVE  Len(p[i]) = Len(t[i]) /\ \A k \in 1..Len(p[i]) : <<p[i][k], t[i][k]>> \in R
  BY PlaceNames
<1>3. Len(c.items) \in Nat
  BY Facts
<1> HIDE DEF p, t, R
<1>4. 1 \in 1..(Len(p) + 1) /\ n \in (1 - 1)..Len(p) /\ n - 1 + 1 = n /\ 1 \in 1..(Len(t) + 1) /\ n \in (1 - 1)..Len(t)
  BY <1>1, <1>3
<1>5. u \in Seq(Seq(Place)) /\ Len(u) = n - 1 + 1 /\ \A j \in 1..(n - 1 + 1) : u[j] = p[1 + j - 1]
  BY <1>1, <1>4, Piece
<1>6. v \in Seq(Seq(Tracks)) /\ Len(v) = n - 1 + 1 /\ \A j \in 1..(n - 1 + 1) : v[j] = t[1 + j - 1]
  BY <1>1, <1>4, Piece
<1> HIDE DEF u, v
<1>7. \A i \in 1..Len(u) : Len(u[i]) = Len(v[i]) /\ \A k \in 1..Len(u[i]) : <<u[i][k], v[i][k]>> \in R
  <2>1. SUFFICES ASSUME NEW i \in 1..Len(u)
                 PROVE  Len(u[i]) = Len(v[i]) /\ \A k \in 1..Len(u[i]) : <<u[i][k], v[i][k]>> \in R
    OBVIOUS
  <2>2. i \in 1..(n - 1 + 1) /\ 1 + i - 1 = i /\ i \in 1..Len(c.items)
    BY <1>3, <1>4, <1>5
  <2>3. u[i] = p[i] /\ v[i] = t[i]
    BY <1>5, <1>6, <2>2
  <2>4. QED
    BY <1>2, <2>2, <2>3
<1>8. Len(u) = Len(v)
  BY <1>5, <1>6
<1>9. Len(FlattenSeq(u)) = Len(FlattenSeq(v))
  <2>1. u \in Seq(Seq(Place)) /\ v \in Seq(Seq(Tracks)) /\ Len(u) = Len(v)
    BY <1>5, <1>6, <1>8
  <2>2. /\ Len(FlattenSeq(u)) = Len(FlattenSeq(v))
        /\ \A r \in 1..Len(FlattenSeq(u)) : <<FlattenSeq(u)[r], FlattenSeq(v)[r]>> \in R
    BY <2>1, <1>7, FlattenRelated
  <2>3. QED
    BY <2>2
<1>10. QED
  BY <1>9 DEF u, v, p, t

(* How many tracks the list holds up to the cursor. *)
HeardLen(c) ==
  IF c.current = 0 THEN 0
  ELSE Len(FlattenSeq(SubSeq(Lists(c), 1, c.current - 1))) + c.items[c.current].at

LEMMA HeardPlacesLen ==
  ASSUME NEW c, WellFormed(c), Showing(c)
  PROVE  HeardPlaces(c) \in Seq(Place) /\ Len(HeardPlaces(c)) = HeardLen(c) /\ HeardLen(c) \in Nat
<1>1. CASE c.current = 0
  <2>1. HeardPlaces(c) = <<>> /\ HeardLen(c) = 0
    BY <1>1 DEF HeardPlaces, HeardLen
  <2>2. <<>> \in Seq(Place) /\ Len(<<>>) = 0
    OBVIOUS
  <2>3. QED
    BY <2>1, <2>2
<1>2. CASE c.current # 0
  <2> DEFINE cur == c.current
             at == c.items[cur].at
             n == cur - 1
             h == FlattenSeq(SubSeq(PlaceLists(c), 1, n))
             a == SubSeq(PlacesOf(c, cur), 1, at)
  <2>1. cur \in DOMAIN c.items /\ cur \in 1..Len(c.items) /\ at \in 1..Len(c.items[cur].tracks)
    BY <1>2, ShownCursor
  <2>2. Len(h) = Len(FlattenSeq(SubSeq(Lists(c), 1, n)))
    <3>1. n \in Nat /\ n <= Len(c.items)
      BY <2>1, Facts
    <3>2. QED
      BY <3>1, FlatStart
  <2>3. h \in Seq(Place)
    <3>1. cur \in 1..Len(PlaceLists(c)) /\ PlaceLists(c) \in Seq(Seq(Place))
      BY <2>1, PlaceListsType
    <3>2. QED
      BY <3>1, FlattenAround
  <2>4. a \in Seq(Place) /\ Len(a) = at /\ at \in Nat
    <3>1. PlacesOf(c, cur) \in Seq(Place) /\ at \in Nat /\ at <= Len(PlacesOf(c, cur))
      BY <2>1, PlacesOfType, ItemFacts
    <3>2. QED
      BY <3>1, Halves
  <2>5. HeardPlaces(c) = h \o a /\ HeardLen(c) = Len(FlattenSeq(SubSeq(Lists(c), 1, n))) + at
    BY <1>2, Zenon DEF HeardPlaces, HeardLen
  <2> HIDE DEF h, a, at
  <2>6. h \o a \in Seq(Place) /\ Len(h \o a) = Len(h) + Len(a) /\ Len(h) \in Nat
    BY <2>3, <2>4, Joined
  <2>7. QED
    BY <2>2, <2>4, <2>5, <2>6
<1>3. QED
  BY <1>1, <1>2

(* The upcoming list is the end of the flat list, from HeardLen on. *)
LEMMA UpcomingIsEnd ==
  ASSUME NEW c, WellFormed(c), Showing(c)
  PROVE  /\ HeardLen(c) \in Nat /\ Len(Upcoming(c)) \in Nat /\ DOMAIN Upcoming(c) = 1..Len(Upcoming(c))
         /\ Len(FlatTracks(c)) = HeardLen(c) + Len(Upcoming(c))
         /\ \A r \in 1..Len(Upcoming(c)) :
              /\ Upcoming(c)[r] = FlattenSeq(PlaceLists(c))[HeardLen(c) + r]
              /\ UpcomingTracks(c)[r] = FlatTracks(c)[HeardLen(c) + r]
<1> DEFINE f == FlattenSeq(PlaceLists(c))
           h == HeardPlaces(c)
           u == Upcoming(c)
<1>1. f = h \o u
  BY StoppedPlaces, PlayingPlaces DEF Joins
<1>2. h \in Seq(Place) /\ Len(h) = HeardLen(c) /\ HeardLen(c) \in Nat
  BY HeardPlacesLen
<1>3. u \in Seq(Place)
  <2>1. u \in Seq(AllRows(c)) /\ AllRows(c) \subseteq Place
    BY UpcomingType, Facts DEF AllRows, Place
  <2>2. QED
    BY <2>1
<1>4. f \in Seq(Place) /\ Len(f) = Len(FlatTracks(c))
  BY FlatPlaces
<1>5. \A j \in 1..Len(FlatTracks(c)) : FlatTracks(c)[j] = c.items[f[j].item].tracks[f[j].track]
  BY FlatPlaces
<1>6. \A r \in DOMAIN u : UpcomingTracks(c)[r] = c.items[u[r].item].tracks[u[r].track]
  BY DEF UpcomingTracks
<1> HIDE DEF f, h, u
<1>7. Len(u) \in Nat /\ DOMAIN u = 1..Len(u)
  BY <1>3, LenProperties
<1>8. Len(h \o u) = Len(h) + Len(u) /\ \A r \in 1..Len(u) : (h \o u)[Len(h) + r] = u[r]
  <2>1. h \in Seq(Place) /\ u \in Seq(Place)
    BY <1>2, <1>3
  <2>2. QED
    BY <2>1, Joined
<1>9. Len(f) = HeardLen(c) + Len(u)
  BY <1>1, <1>2, <1>8, Zenon
<1>10. \A r \in 1..Len(u) : f[HeardLen(c) + r] = u[r]
  BY <1>1, <1>2, <1>8, Zenon
<1>11. ASSUME NEW r \in 1..Len(u) PROVE UpcomingTracks(c)[r] = FlatTracks(c)[HeardLen(c) + r]
  <2>1. HeardLen(c) + r \in 1..Len(FlatTracks(c))
    BY <1>2, <1>4, <1>7, <1>9
  <2>2. f[HeardLen(c) + r] = u[r] /\ r \in DOMAIN u
    BY <1>7, <1>10
  <2>3. QED
    BY <1>5, <1>6, <2>1, <2>2, Zenon
<1>12. Len(FlatTracks(c)) = HeardLen(c) + Len(u)
  BY <1>4, <1>9
<1>13. QED
  BY <1>2, <1>7, <1>10, <1>11, <1>12, Zenon DEF u, f

(* Where an upcoming row stands in the flat list. *)
LEMMA RowPlace ==
  ASSUME NEW c, WellFormed(c), Showing(c), NEW r \in 1..Len(Upcoming(c)),
         NEW i, NEW k, i = Upcoming(c)[r].item, k = Upcoming(c)[r].track
  PROVE  HeardLen(c) + r = Len(FlattenSeq(SubSeq(Lists(c), 1, i - 1))) + k
<1> DEFINE p == PlaceLists(c)
           f == FlattenSeq(p)
           j == HeardLen(c) + r
<1>1. p \in Seq(Seq(Place)) /\ Len(p) = Len(c.items) /\ \A m \in 1..Len(c.items) : p[m] = PlacesOf(c, m)
  BY PlaceListsType
<1>2. j \in 1..Len(f) /\ f[j] = Upcoming(c)[r]
  BY UpcomingIsEnd, FlatPlaces
<1>3. PICK m \in 1..Len(p) : \E q \in 1..Len(p[m]) :
            j = Len(FlattenSeq(SubSeq(p, 1, m - 1))) + q /\ f[j] = p[m][q]
  <2> HIDE DEF p, j
  <2>1. QED
    BY <1>1, <1>2, FlattenPlace DEF f
<1>4. PICK q \in 1..Len(p[m]) : j = Len(FlattenSeq(SubSeq(p, 1, m - 1))) + q /\ f[j] = p[m][q]
  BY <1>3
<1>5. m \in 1..Len(c.items) /\ m \in DOMAIN c.items /\ p[m] = PlacesOf(c, m)
  BY <1>1, Facts
<1>6. q \in 1..Len(c.items[m].tracks) /\ PlacesOf(c, m)[q] = RowAt(c, m, q)
  BY <1>4, <1>5, PlacesOfType
<1>7. Upcoming(c)[r] = RowAt(c, m, q)
  BY <1>2, <1>4, <1>5, <1>6, Zenon
<1>8. i = m /\ k = q
  BY <1>7 DEF RowAt
<1>9. Len(FlattenSeq(SubSeq(p, 1, m - 1))) = Len(FlattenSeq(SubSeq(Lists(c), 1, m - 1)))
  <2>1. m - 1 \in Nat /\ m - 1 <= Len(c.items)
    BY <1>5, Facts
  <2>2. QED
    BY <2>1, FlatStart
<1>10. QED
  BY <1>4, <1>8, <1>9, Zenon

-----------------------------------------------------------------------------
(* Edits behind the cursor. *)

Heard(c) == SubSeq(FlatTracks(c), 1, HeardLen(c))

LEMMA FlatIsHeardAndUpcoming ==
  ASSUME NEW c, WellFormed(c), Showing(c)
  PROVE  /\ Heard(c) \in Seq(Tracks) /\ Len(Heard(c)) = HeardLen(c)
         /\ UpcomingTracks(c) \in Seq(Tracks) /\ Len(UpcomingTracks(c)) = Len(Upcoming(c))
         /\ Joins(FlatTracks(c), Heard(c), UpcomingTracks(c))
<1> DEFINE f == FlatTracks(c)
           n == HeardLen(c)
           m == Len(Upcoming(c))
           u == UpcomingTracks(c)
           v == SubSeq(f, n + 1, Len(f))
<1>1. n \in Nat /\ m \in Nat /\ DOMAIN Upcoming(c) = 1..m /\ Len(f) = n + m
  BY UpcomingIsEnd
<1>2. \A r \in 1..m : u[r] = f[n + r]
  BY UpcomingIsEnd
<1>3. u = [r \in 1..m |-> u[r]]
  BY <1>1, Zenon DEF UpcomingTracks
<1>4. f \in Seq(Tracks)
  BY FlatTracksType
<1> HIDE DEF f, n, m, u
<1>5. ASSUME NEW r \in 1..m PROVE u[r] \in Tracks
  <2>1. n + r \in 1..Len(f)
    BY <1>1
  <2>2. QED
    BY <1>2, <1>4, <2>1, ElementOfSeq
<1>6. u \in Seq(Tracks) /\ Len(u) = m
  BY <1>1, <1>3, <1>5
<1>7. /\ SubSeq(f, 1, n) \in Seq(Tracks) /\ v \in Seq(Tracks)
      /\ Len(SubSeq(f, 1, n)) = n
      /\ SubSeq(f, 1, n) \o v = f
  <2>1. n <= Len(f)
    BY <1>1
  <2>2. QED
    BY <1>1, <1>4, <2>1, Halves
<1>8. v = u
  <2> DEFINE q == n + 1
  <2>1. q \in 1..(Len(f) + 1) /\ Len(f) \in (q - 1)..Len(f) /\ Len(f) - q + 1 = m
    BY <1>1
  <2>2. \A r \in 1..m : f[q + r - 1] = u[r]
    BY <1>1, <1>2
  <2> HIDE DEF q
  <2>3. /\ SubSeq(f, q, Len(f)) \in Seq(Tracks)
        /\ Len(SubSeq(f, q, Len(f))) = Len(f) - q + 1
        /\ \A r \in 1..(Len(f) - q + 1) : SubSeq(f, q, Len(f))[r] = f[q + r - 1]
    BY <1>4, <2>1, Piece
  <2>4. v = SubSeq(f, q, Len(f))
    BY Zenon DEF q
  <2> HIDE DEF v
  <2>5. Len(v) = Len(u) /\ \A r \in 1..Len(v) : v[r] = u[r]
    BY <1>6, <2>1, <2>2, <2>3, <2>4
  <2>6. QED
    BY <1>6, <1>7, <2>5, SeqEqual
<1>9. QED
  BY <1>6, <1>7, <1>8, Zenon DEF Joins, Heard, f, n, m, u

(* The cursor names the same track of the same items as in c. *)
CursorKept(c, items) ==
  c.current # 0 =>
    /\ c.current \in 1..Len(items)
    /\ items[c.current].at = c.items[c.current].at
    /\ c.items[c.current].at \in 1..Len(items[c.current].tracks)
    /\ items[c.current].tracks[c.items[c.current].at] = c.items[c.current].tracks[c.items[c.current].at]
    /\ \A j \in 1..(c.current - 1) : items[j].tracks = c.items[j].tracks

LEMMA CursorKeptShows ==
  ASSUME NEW c, WellFormed(c), Showing(c), NEW d, WellFormed(d), d.current = c.current,
         CursorKept(c, d.items)
  PROVE  Showing(d) /\ HeardLen(d) = HeardLen(c) /\ CurrentTrack(d) = CurrentTrack(c)
<1>1. CASE c.current = 0
  <2>1. c.current \notin DOMAIN c.items /\ d.current \notin DOMAIN d.items
    BY <1>1, Facts
  <2>2. QED
    BY <1>1, <2>1 DEF Showing, HeardLen, CurrentTrack
<1>2. CASE c.current # 0
  <2> DEFINE cur == c.current
             at == c.items[cur].at
             n == cur - 1
  <2>1. cur \in DOMAIN c.items /\ cur \in 1..Len(c.items) /\ at \in 1..Len(c.items[cur].tracks)
    BY <1>2, ShownCursor
  <2>2. /\ cur \in 1..Len(d.items) /\ d.items[cur].at = at
        /\ at \in 1..Len(d.items[cur].tracks) /\ d.items[cur].tracks[at] = c.items[cur].tracks[at]
    BY <1>2 DEF CursorKept
  <2>3. \A j \in 1..n : d.items[j].tracks = c.items[j].tracks
    BY <1>2 DEF CursorKept
  <2>4. cur \in DOMAIN d.items /\ DOMAIN d.items = 1..Len(d.items) /\ DOMAIN c.items = 1..Len(c.items)
    BY <2>2, Facts
  <2>5. at \in DOMAIN d.items[cur].tracks /\ at \in DOMAIN c.items[cur].tracks
    BY <2>1, <2>2, <2>4, ItemFacts
  <2>6. CurrentTrack(d) = CurrentTrack(c)
    BY <2>1, <2>2, <2>4, <2>5 DEF CurrentTrack
  <2>7. Showing(d)
    BY <2>6, <1>2 DEF Showing
  <2>8. SubSeq(Lists(d), 1, n) = SubSeq(Lists(c), 1, n)
    <3> DEFINE s == Lists(d)
               t == Lists(c)
    <3>1. s \in Seq(Seq(Tracks)) /\ t \in Seq(Seq(Tracks))
      <4>1. s \in Seq(Seq(Tracks))
        BY ListsFacts, Zenon
      <4>2. t \in Seq(Seq(Tracks))
        BY ListsFacts, Zenon
      <4>3. QED
        BY <4>1, <4>2, Zenon
    <3>2. n \in Nat /\ 1 \in Nat /\ 1 >= 1 /\ n <= Len(s) /\ n <= Len(t)
      <4>1. Len(s) = Len(d.items)
        BY ListsFacts
      <4>2. Len(t) = Len(c.items)
        BY ListsFacts
      <4>3. QED
        BY <2>1, <2>2, <4>1, <4>2, Facts
    <3>3. \A j \in 1..n : s[j] = t[j]
      <4>1. SUFFICES ASSUME NEW j \in 1..n PROVE s[j] = t[j]
        OBVIOUS
      <4>2. j \in DOMAIN d.items /\ j \in DOMAIN c.items
        BY <2>1, <2>2, <2>4
      <4>3. QED
        BY <2>3, <4>2, ListsFacts
    <3> HIDE DEF s, t, n
    <3>4. SubSeq(s, 1, n) = SubSeq(t, 1, n)
      BY <3>1, <3>2, <3>3, SubSeqAlike
    <3>5. QED
      BY <3>4, Zenon DEF s, t
  <2>9. HeardLen(d) = HeardLen(c)
    BY <1>2, <2>2, <2>8, Zenon DEF HeardLen
  <2>10. QED
    BY <2>6, <2>7, <2>9
<1>3. QED
  BY <1>1, <1>2

LEMMA InsertedKept ==
  ASSUME NEW c, NEW items \in Seq(Stocked), c.current \in Nat, CursorKept(c, items), NEW i \in 1..(Len(items) + 1),
         i > c.current, NEW x \in Stocked
  PROVE  CursorKept(c, InsertAt(items, i, x))
<1> DEFINE more == InsertAt(items, i, x)
<1>1. /\ Len(more) = Len(items) + 1 /\ Len(items) \in Nat
      /\ \A j \in 1..(i - 1) : more[j] = items[j]
  BY Inserted, LenProperties
<1> HIDE DEF more
<1>2. CASE c.current # 0
  <2>1. c.current \in 1..(i - 1) /\ c.current \in 1..Len(more) /\ \A j \in 1..(c.current - 1) : j \in 1..(i - 1)
    BY <1>1, <1>2 DEF CursorKept
  <2>2. more[c.current] = items[c.current] /\ \A j \in 1..(c.current - 1) : more[j] = items[j]
    BY <1>1, <2>1
  <2>3. CursorKept(c, more)
    BY <1>2, <2>1, <2>2 DEF CursorKept
  <2>4. QED
    BY <2>3 DEF more
<1>3. QED
  BY <1>2 DEF CursorKept

LEMMA RemovedKept ==
  ASSUME NEW c, WellFormed(c), Showing(c), NEW i \in DOMAIN c.items, i > c.current
  PROVE  CursorKept(c, RemoveAt(c.items, i))
<1> DEFINE less == RemoveAt(c.items, i)
<1>1. i \in 1..Len(c.items) /\ c.items \in Seq(Stocked) /\ Len(c.items) \in Nat
  BY Facts
<1>2. Len(less) = Len(c.items) - 1 /\ \A j \in 1..(i - 1) : less[j] = c.items[j]
  BY <1>1, Removed
<1> HIDE DEF less
<1>3. CASE c.current # 0
  <2>1. /\ c.current \in 1..Len(c.items)
        /\ c.items[c.current].at \in 1..Len(c.items[c.current].tracks)
    BY <1>3, ShownCursor
  <2>2. c.current \in 1..(i - 1) /\ c.current \in 1..Len(less) /\ \A j \in 1..(c.current - 1) : j \in 1..(i - 1)
    BY <1>1, <1>2, <2>1
  <2>3. less[c.current] = c.items[c.current] /\ \A j \in 1..(c.current - 1) : less[j] = c.items[j]
    BY <1>2, <2>2
  <2>4. CursorKept(c, less)
    BY <1>3, <2>1, <2>2, <2>3 DEF CursorKept
  <2>5. QED
    BY <2>4 DEF less
<1>4. QED
  BY <1>3 DEF CursorKept

LEMMA RetrackedIs ==
  ASSUME NEW c, WellFormed(c), NEW i \in DOMAIN c.items, NEW tracks
  PROVE  /\ Len(Retracked(c, i, tracks)) = Len(c.items)
         /\ Retracked(c, i, tracks)[i].tracks = tracks /\ Retracked(c, i, tracks)[i].at = c.items[i].at
         /\ \A j \in DOMAIN c.items : j # i => Retracked(c, i, tracks)[j] = c.items[j]
         /\ TracksOf(Retracked(c, i, tracks)) = WithPart(Lists(c), i, tracks)
<1> DEFINE x == [c.items[i] EXCEPT !.tracks = tracks]
<1>1. x.tracks = tracks /\ x.at = c.items[i].at
  <2>1. c.items[i] \in Stocked
    BY ItemFacts
  <2>2. QED
    BY <2>1 DEF Stocked
<1>2. Retracked(c, i, tracks) = [c.items EXCEPT ![i] = x]
  BY DEF Retracked
<1> HIDE DEF x
<1>3. c.items \in Seq(Stocked) /\ i \in 1..Len(c.items) /\ Lists(c) = TracksOf(c.items)
  BY Facts DEF Lists, TracksOf
<1>4. TracksOf(Retracked(c, i, tracks)) = WithPart(Lists(c), i, tracks)
  <2>1. TracksOf([c.items EXCEPT ![i] = x]) = [TracksOf(c.items) EXCEPT ![i] = x.tracks]
    BY <1>3, TracksOfReplaced
  <2>2. QED
    BY <1>1, <1>2, <1>3, <2>1 DEF WithPart
<1>5. Len([c.items EXCEPT ![i] = x]) = Len(c.items)
  BY <1>3, LenProperties
<1>6. [c.items EXCEPT ![i] = x][i] = x /\ \A j \in DOMAIN c.items : j # i => [c.items EXCEPT ![i] = x][j] = c.items[j]
  OBVIOUS
<1>7. QED
  BY <1>1, <1>2, <1>4, <1>5, <1>6, Zenon

LEMMA RetrackedKept ==
  ASSUME NEW c, WellFormed(c), Showing(c), NEW i \in DOMAIN c.items, i >= c.current, NEW tracks,
         i = c.current => /\ c.items[i].at \in 1..Len(tracks)
                          /\ tracks[c.items[i].at] = c.items[i].tracks[c.items[i].at]
  PROVE  CursorKept(c, Retracked(c, i, tracks))
<1> DEFINE new == Retracked(c, i, tracks)
<1>1. /\ Len(new) = Len(c.items) /\ new[i].tracks = tracks /\ new[i].at = c.items[i].at
      /\ \A j \in DOMAIN c.items : j # i => new[j] = c.items[j]
  BY RetrackedIs
<1> HIDE DEF new
<1>2. CASE c.current # 0
  <2>1. /\ c.current \in DOMAIN c.items /\ c.current \in 1..Len(c.items)
        /\ c.items[c.current].at \in 1..Len(c.items[c.current].tracks)
    BY <1>2, ShownCursor
  <2>2. \A j \in 1..(c.current - 1) : j \in DOMAIN c.items /\ j # i
    BY <2>1, Facts
  <2>3. CursorKept(c, new)
    <3>1. \A j \in 1..(c.current - 1) : new[j].tracks = c.items[j].tracks
      BY <1>1, <2>2
    <3>2. CASE i = c.current
      BY <1>1, <2>1, <3>1, <3>2 DEF CursorKept
    <3>3. CASE i # c.current
      <4>1. new[c.current] = c.items[c.current]
        BY <1>1, <2>1, <3>3
      <4>2. QED
        BY <1>1, <2>1, <3>1, <4>1 DEF CursorKept
    <3>4. QED
      BY <3>2, <3>3
  <2>4. QED
    BY <2>3 DEF new
<1>3. QED
  BY <1>2 DEF CursorKept

(* What UpcomingEditsExact says of one edit, from c to d. *)
Past(c) == SubSeq(FlatTracks(c), 1, Len(FlatTracks(c)) - Len(UpcomingTracks(c)))
Does(c, d, v) ==
  UpcomingTracks(d) = v /\ FlatTracks(d) = Past(c) \o v /\ CurrentTrack(d) = CurrentTrack(c)

LEMMA DoneIsHeard ==
  ASSUME NEW c, WellFormed(c), Showing(c)
  PROVE  Past(c) = Heard(c)
<1> DEFINE n == Len(FlatTracks(c))
           m == Len(UpcomingTracks(c))
<1>1. n = HeardLen(c) + Len(Upcoming(c)) /\ HeardLen(c) \in Nat /\ Len(Upcoming(c)) \in Nat
  BY UpcomingIsEnd
<1>2. m = Len(Upcoming(c))
  BY FlatIsHeardAndUpcoming
<1> HIDE DEF n, m
<1>3. n - m = HeardLen(c)
  BY <1>1, <1>2
<1>4. QED
  BY <1>3, Zenon DEF Past, Heard, n, m

(* An edit that keeps the cursor and what was heard does what the flat     *)
(* list shows.                                                             *)
LEMMA DoesIt ==
  ASSUME NEW c, WellFormed(c), Showing(c), NEW d, WellFormed(d), d.current = c.current,
         CursorKept(c, d.items), NEW v \in Seq(Tracks), Joins(FlatTracks(d), Heard(c), v)
  PROVE  Does(c, d, v) /\ Showing(d) /\ HeardLen(d) = HeardLen(c)
<1>1. Showing(d) /\ HeardLen(d) = HeardLen(c) /\ CurrentTrack(d) = CurrentTrack(c)
  BY CursorKeptShows
<1>2. Heard(c) \in Seq(Tracks) /\ Len(Heard(c)) = HeardLen(c)
  BY FlatIsHeardAndUpcoming
<1>3. /\ Heard(d) \in Seq(Tracks) /\ Len(Heard(d)) = HeardLen(d) /\ UpcomingTracks(d) \in Seq(Tracks)
      /\ Joins(FlatTracks(d), Heard(d), UpcomingTracks(d))
  BY <1>1, FlatIsHeardAndUpcoming
<1>4. UpcomingTracks(d) = v
  <2>1. Len(Heard(c)) = Len(Heard(d))
    BY <1>1, <1>2, <1>3, Zenon
  <2>2. Heard(c) \in Seq(Tracks) /\ Heard(d) \in Seq(Tracks) /\ UpcomingTracks(d) \in Seq(Tracks)
    BY <1>2, <1>3
  <2>3. Joins(FlatTracks(d), Heard(d), UpcomingTracks(d))
    BY <1>3
  <2>4. QED
    BY <2>1, <2>2, <2>3, SameEnd
<1>5. FlatTracks(d) = Past(c) \o v
  BY DoneIsHeard, Zenon DEF Joins
<1>6. QED
  BY <1>1, <1>4, <1>5, Zenon DEF Does

LEMMA DoesTwice ==
  ASSUME NEW c, WellFormed(c), Showing(c), NEW d, WellFormed(d), Showing(d), HeardLen(d) = HeardLen(c),
         NEW v \in Seq(Tracks), NEW e, NEW w, Does(c, d, v), Does(d, e, w)
  PROVE  Does(c, e, w)
<1>1. Heard(c) \in Seq(Tracks) /\ Len(Heard(c)) = HeardLen(c)
  BY FlatIsHeardAndUpcoming
<1>2. /\ Heard(d) \in Seq(Tracks) /\ Len(Heard(d)) = HeardLen(d) /\ UpcomingTracks(d) \in Seq(Tracks)
      /\ Joins(FlatTracks(d), Heard(d), UpcomingTracks(d))
  BY FlatIsHeardAndUpcoming
<1>3. Joins(FlatTracks(d), Heard(c), v)
  BY DoneIsHeard, Zenon DEF Does, Joins
<1>4. Heard(d) = Heard(c)
  <2>1. Len(Heard(c)) = Len(Heard(d))
    BY <1>1, <1>2, Zenon
  <2>2. Heard(c) \in Seq(Tracks) /\ Heard(d) \in Seq(Tracks) /\ UpcomingTracks(d) \in Seq(Tracks)
    BY <1>1, <1>2
  <2>3. Joins(FlatTracks(d), Heard(d), UpcomingTracks(d))
    BY <1>2
  <2>4. QED
    BY <2>1, <2>2, <2>3, <1>3, SameEnd
<1>5. Past(d) = Past(c)
  <2>1. Past(d) = Heard(d)
    BY DoneIsHeard
  <2>2. Past(c) = Heard(c)
    BY DoneIsHeard
  <2>3. QED
    BY <1>4, <2>1, <2>2, Zenon
<1>6. QED
  BY <1>5, Zenon DEF Does

-----------------------------------------------------------------------------
(* Taking a row out of the upcoming list. *)

LEMMA FlatRemoved ==
  ASSUME NEW c, WellFormed(c), Showing(c), NEW r \in 1..Len(Upcoming(c)), NEW f,
         f = RemoveAt(FlatTracks(c), HeardLen(c) + r)
  PROVE  /\ RemoveAt(UpcomingTracks(c), r) \in Seq(Tracks)
         /\ Len(RemoveAt(UpcomingTracks(c), r)) = Len(UpcomingTracks(c)) - 1
         /\ Joins(f, Heard(c), RemoveAt(UpcomingTracks(c), r))
<1> DEFINE h == Heard(c)
           u == UpcomingTracks(c)
<1>1. h \in Seq(Tracks) /\ u \in Seq(Tracks)
  BY FlatIsHeardAndUpcoming
<1>2. Len(h) = HeardLen(c) /\ Len(u) = Len(Upcoming(c))
  BY FlatIsHeardAndUpcoming
<1>3. FlatTracks(c) = h \o u
  BY FlatIsHeardAndUpcoming, Zenon DEF Joins
<1> HIDE DEF h, u
<1>4. r \in 1..Len(u)
  BY <1>2
<1>5. RemoveAt(h \o u, Len(h) + r) = h \o RemoveAt(u, r)
  BY <1>1, <1>4, LaterRemoved
<1>6. RemoveAt(u, r) \in Seq(Tracks) /\ Len(RemoveAt(u, r)) = Len(u) - 1
  BY <1>1, <1>4, Removed
<1>7. Joins(f, h, RemoveAt(u, r))
  BY <1>2, <1>3, <1>5, Zenon DEF Joins
<1>8. QED
  BY <1>6, <1>7, Zenon DEF h, u

LEMMA ShowsRows ==
  ASSUME NEW c, WellFormed(c), NEW r \in DOMAIN Upcoming(c)
  PROVE  Showing(c) /\ r \in 1..Len(Upcoming(c))
<1>1. Showing(c)
  <2>1. SUFFICES ASSUME ~Showing(c) PROVE FALSE
    OBVIOUS
  <2>2. Upcoming(c) = <<>>
    BY <2>1, UpcomingIs
  <2>3. QED
    BY <2>2
<1>2. QED
  BY <1>1, UpcomingIsEnd

LEMMA TakeUpcomingDoes ==
  ASSUME NEW c, WellFormed(c), NEW r \in DOMAIN Upcoming(c),
         NEW d, d = TakeUpcoming(c, Upcoming(c)[r])
  PROVE  /\ Does(c, d, RemoveAt(UpcomingTracks(c), r))
         /\ Showing(d) /\ HeardLen(d) = HeardLen(c) /\ d.current = c.current
<1> DEFINE pos == Upcoming(c)[r]
           i == pos.item
           k == pos.track
           tracks == c.items[i].tracks
           rest == RemoveAt(tracks, k)
           items == IF rest = <<>> THEN RemoveAt(c.items, i) ELSE Retracked(c, i, rest)
           lists == Lists(c)
           p == HeardLen(c) + r
<1>1. Showing(c) /\ r \in 1..Len(Upcoming(c))
  BY ShowsRows
<1>2. pos \in AllRows(c)
  BY UpcomingRow
<1>3. /\ i \in DOMAIN c.items /\ i \in 1..Len(c.items) /\ i >= c.current /\ i \in Nat
      /\ k \in 1..Len(tracks) /\ (i = c.current => k > c.items[i].at)
  <2> HIDE DEF pos
  <2>1. QED
    BY <1>2, RowFacts, Facts
<1>4. tracks \in Seq(Tracks) /\ Len(tracks) \in Nat
  BY <1>3, ItemFacts
<1>5. /\ rest \in Seq(Tracks) /\ Len(rest) = Len(tracks) - 1
      /\ \A j \in 1..(k - 1) : rest[j] = tracks[j]
  <2> HIDE DEF tracks, k
  <2>1. QED
    BY <1>3, <1>4, Removed
<1>6. WellFormed(d)
  BY <1>2, TakeUpcomingWellFormed
<1>7. d = ClampSelected(Made(items, c.current, c.selected))
  <2>1. d = ClampSelected([c EXCEPT !.items = items])
    BY DEF TakeUpcoming, Retracked
  <2> HIDE DEF items
  <2>2. QED
    BY <2>1, Updated
<1> HIDE DEF items
<1>8. d.items = items /\ d.current = c.current /\ Lists(d) = TracksOf(items)
  <2>1. d.items = items /\ d.current = c.current
    BY <1>7 DEF ClampSelected, Made
  <2>2. QED
    BY <1>7, <2>1, TracksOfMade
<1>9. p = Len(FlattenSeq(SubSeq(lists, 1, i - 1))) + k
  BY <1>1, RowPlace
<1>10. lists \in Seq(Seq(Tracks)) /\ i \in 1..Len(lists) /\ lists[i] = tracks
  BY <1>3, ListsFacts
<1>11. FlatTracks(c) = FlattenSeq(lists) /\ FlatTracks(d) = FlattenSeq(TracksOf(items))
  BY <1>6, <1>8, FlatTracksType
<1>12. FlattenSeq(TracksOf(items)) = RemoveAt(FlattenSeq(lists), p) /\ CursorKept(c, items)
  <2> DEFINE f == FlattenSeq(lists)
  <2>1. p = Len(FlattenSeq(SubSeq(lists, 1, i - 1))) + k /\ k \in 1..Len(lists[i])
    BY <1>3, <1>9, <1>10
  <2>2. /\ FlattenSeq(WithPart(lists, i, RemoveAt(lists[i], k))) = RemoveAt(f, p)
        /\ Len(lists[i]) = 1 => FlattenSeq(RemoveAt(lists, i)) = RemoveAt(f, p)
    <3>1. lists \in Seq(Seq(Tracks)) /\ i \in 1..Len(lists)
      BY <1>10
    <3> HIDE DEF lists, i, k, p
    <3>2. QED
      BY <2>1, <3>1, FlattenDropped
  <2>3. c.items \in Seq(Stocked) /\ lists = TracksOf(c.items)
    BY Facts DEF Lists, TracksOf
  <2>4. c.items[i].at \in Nat /\ c.items[i].at >= 1
    BY <1>3, ItemFacts
  <2>5. CASE rest = <<>>
    <3>1. Len(tracks) = 1
      BY <1>4, <1>5, <2>5
    <3>2. i > c.current
      <4>1. k = 1
        BY <1>3, <3>1
      <4>2. c.current \in Nat
        BY Facts
      <4>3. QED
        BY <1>3, <2>4, <4>1, <4>2
    <3>3. items = RemoveAt(c.items, i)
      BY <2>5 DEF items
    <3>4. CursorKept(c, items)
      BY <1>1, <1>3, <3>2, <3>3, RemovedKept
    <3>5. TracksOf(items) = RemoveAt(lists, i)
      BY <1>3, <2>3, <3>3, TracksOfRemoved
    <3>6. FlattenSeq(TracksOf(items)) = RemoveAt(f, p)
      BY <1>10, <2>2, <3>1, <3>5, Zenon
    <3>7. QED
      BY <3>4, <3>6
  <2>6. CASE rest # <<>>
    <3>1. items = Retracked(c, i, rest)
      BY <2>6 DEF items
    <3>2. i = c.current => c.items[i].at \in 1..Len(rest) /\ rest[c.items[i].at] = tracks[c.items[i].at]
      <4> DEFINE a == c.items[i].at
      <4>1. SUFFICES ASSUME i = c.current PROVE a \in 1..Len(rest) /\ rest[a] = tracks[a]
        OBVIOUS
      <4>2. a \in Nat /\ a >= 1 /\ k > a /\ k \in 1..Len(tracks) /\ Len(rest) = Len(tracks) - 1
        BY <1>3, <1>5, <2>4, <4>1
      <4>3. \A j \in 1..(k - 1) : rest[j] = tracks[j]
        BY <1>5
      <4> HIDE DEF a, k, rest, tracks
      <4>4. a \in 1..(k - 1) /\ a \in 1..Len(rest)
        BY <1>4, <4>2
      <4>5. QED
        BY <4>3, <4>4
    <3> HIDE DEF rest
    <3>3. CursorKept(c, items)
      BY <1>1, <1>3, <3>1, <3>2, RetrackedKept
    <3>4. TracksOf(items) = WithPart(lists, i, rest)
      BY <1>3, <3>1, RetrackedIs
    <3>5. FlattenSeq(TracksOf(items)) = RemoveAt(f, p)
      BY <1>10, <2>2, <3>4, Zenon DEF rest
    <3>6. QED
      BY <3>3, <3>5
  <2>7. QED
    BY <2>5, <2>6
<1>13. QED
  <2>1. FlatTracks(d) = RemoveAt(FlatTracks(c), p)
    BY <1>11, <1>12, Zenon
  <2>2. /\ RemoveAt(UpcomingTracks(c), r) \in Seq(Tracks)
        /\ Joins(FlatTracks(d), Heard(c), RemoveAt(UpcomingTracks(c), r))
    BY <1>1, <2>1, FlatRemoved
  <2>3. CursorKept(c, d.items)
    BY <1>8, <1>12
  <2>4. QED
    BY <1>1, <1>6, <1>8, <2>2, <2>3, DoesIt

(* Putting a track in front of a row of the upcoming list. *)

LEMMA FlatInserted ==
  ASSUME NEW c, WellFormed(c), Showing(c), NEW r \in 1..(Len(Upcoming(c)) + 1), NEW x \in Tracks, NEW f,
         f = InsertAt(FlatTracks(c), HeardLen(c) + r, x)
  PROVE  /\ InsertAt(UpcomingTracks(c), r, x) \in Seq(Tracks)
         /\ Joins(f, Heard(c), InsertAt(UpcomingTracks(c), r, x))
<1> DEFINE h == Heard(c)
           u == UpcomingTracks(c)
<1>1. h \in Seq(Tracks) /\ u \in Seq(Tracks)
  BY FlatIsHeardAndUpcoming
<1>2. Len(h) = HeardLen(c) /\ Len(u) = Len(Upcoming(c))
  BY FlatIsHeardAndUpcoming
<1>3. FlatTracks(c) = h \o u
  BY FlatIsHeardAndUpcoming, Zenon DEF Joins
<1> HIDE DEF h, u
<1>4. r \in 1..(Len(u) + 1)
  BY <1>2
<1>5. InsertAt(h \o u, Len(h) + r, x) = h \o InsertAt(u, r, x)
  BY <1>1, <1>4, LaterInserted
<1>6. InsertAt(u, r, x) \in Seq(Tracks)
  BY <1>1, <1>4, Inserted
<1>7. Joins(f, h, InsertAt(u, r, x))
  BY <1>2, <1>3, <1>5, Zenon DEF Joins
<1>8. QED
  BY <1>6, <1>7, Zenon DEF h, u

LEMMA SameKept ==
  ASSUME NEW c, WellFormed(c), Showing(c)
  PROVE  CursorKept(c, c.items)
BY ShownCursor, Zenon DEF CursorKept

(* The second half of MoveUpcoming. *)
PutItems(c, to) ==
  LET row == Upcoming(c)[to]
      s   == c.items[row.item].tracks
  IN InsertAt(Retracked(c, row.item, SubSeq(s, 1, row.track - 1)), row.item + 1,
              NewItem(SubSeq(s, row.track, Len(s))))

Put(c, to, x, d) ==
  /\ d.current = c.current
  /\ LET rows == Upcoming(c)
     IN d.items =
          CASE to \notin DOMAIN rows -> InsertAt(c.items, Len(c.items) + 1, NewItem(<<x>>))
            [] to \in DOMAIN rows /\ rows[to].track > 1 ->
                 InsertAt(PutItems(c, to), rows[to].item + 1, NewItem(<<x>>))
            [] to \in DOMAIN rows /\ ~(rows[to].track > 1) ->
                 InsertAt(c.items, rows[to].item, NewItem(<<x>>))

LEMMA MoveIsPut ==
  ASSUME NEW c, WellFormed(c), NEW from \in DOMAIN Upcoming(c), NEW to
  PROVE  Put(TakeUpcoming(c, Upcoming(c)[from]), to, UpcomingTracks(c)[from], MoveUpcoming(c, from, to))
<1> DEFINE pos  == Upcoming(c)[from]
           x    == c.items[pos.item].tracks[pos.track]
           left == TakeUpcoming(c, pos)
           rows == Upcoming(left)
           splits == to \in DOMAIN rows /\ rows[to].track > 1
           items  == IF splits THEN PutItems(left, to) ELSE left.items
           place  == CASE to \notin DOMAIN rows -> Len(items) + 1
                       [] splits                -> rows[to].item + 1
                       [] OTHER                 -> rows[to].item
<1>1. UpcomingTracks(c)[from] = x
  BY DEF UpcomingTracks
<1>2. MoveUpcoming(c, from, to) = [left EXCEPT !.items = InsertAt(items, place, NewItem(<<x>>)), !.selected = place]
  BY DEF MoveUpcoming, PutItems, Retracked
<1>3. WellFormed(left)
  BY UpcomingRow, TakeUpcomingWellFormed
<1> HIDE DEF left, x, items, place
<1>4. MoveUpcoming(c, from, to) = Made(InsertAt(items, place, NewItem(<<x>>)), left.current, place)
  <2>1. \A y, z : [left EXCEPT !.items = y, !.selected = z] = Made(y, left.current, z)
    <3>1. SUFFICES ASSUME NEW y, NEW z PROVE [left EXCEPT !.items = y, !.selected = z] = Made(y, left.current, z)
      OBVIOUS
    <3>2. QED
      BY <1>3, PlacedAt, Zenon
  <2>2. QED
    BY <1>2, <2>1
<1>5. /\ MoveUpcoming(c, from, to).current = left.current
      /\ MoveUpcoming(c, from, to).items = InsertAt(items, place, NewItem(<<x>>))
  BY <1>4 DEF Made
<1>6. CASE to \notin DOMAIN rows
  <2>1. items = left.items /\ place = Len(left.items) + 1
    BY <1>6 DEF items, place
  <2>2. QED
    BY <1>1, <1>5, <1>6, <2>1 DEF Put, left
<1>7. CASE splits
  <2>1. items = PutItems(left, to) /\ place = rows[to].item + 1
    BY <1>7 DEF items, place
  <2>2. QED
    BY <1>1, <1>5, <1>7, <2>1 DEF Put, left
<1>8. CASE to \in DOMAIN rows /\ ~splits
  <2>1. items = left.items /\ place = rows[to].item
    BY <1>8 DEF items, place
  <2>2. QED
    BY <1>1, <1>5, <1>8, <2>1 DEF Put, left
<1>9. QED
  BY <1>6, <1>7, <1>8

LEMMA PutDoes ==
  ASSUME NEW c, WellFormed(c), Showing(c), NEW to \in 1..(Len(Upcoming(c)) + 1), NEW x \in Tracks,
         NEW d, WellFormed(d), Put(c, to, x, d)
  PROVE  Does(c, d, InsertAt(UpcomingTracks(c), to, x))
<1> DEFINE lists == Lists(c)
           f == FlattenSeq(lists)
           n == Len(c.items)
           p == HeardLen(c) + to
           new == NewItem(<<x>>)
<1>1. /\ lists \in Seq(Seq(Tracks)) /\ Len(lists) = n /\ n \in Nat /\ DOMAIN c.items = 1..n
      /\ c.items \in Seq(Stocked) /\ lists = TracksOf(c.items) /\ c.current \in 0..n
  BY ListsFacts, Facts DEF Lists, TracksOf
<1>2. new \in Stocked /\ new.tracks = <<x>>
  <2>1. <<x>> \in Seq(Tracks) /\ <<x>> # <<>>
    OBVIOUS
  <2>2. QED
    BY <2>1, NewItemStocked DEF NewItem
<1>3. FlatTracks(c) = f /\ FlatTracks(d) = FlattenSeq(TracksOf(d.items))
  BY FlatTracksType DEF Lists, TracksOf
<1>4. d.current = c.current
  BY DEF Put
<1>5. DOMAIN Upcoming(c) = 1..Len(Upcoming(c)) /\ Len(Upcoming(c)) \in Nat /\ HeardLen(c) \in Nat
      /\ Len(f) = HeardLen(c) + Len(Upcoming(c))
  BY <1>3, UpcomingIsEnd
<1>6. CursorKept(c, c.items)
  BY SameKept
<1> HIDE DEF new, lists, n, p, f
<1>7. SUFFICES CursorKept(c, d.items) /\ FlattenSeq(TracksOf(d.items)) = InsertAt(f, p, x)
  <2>1. SUFFICES ASSUME CursorKept(c, d.items), FlattenSeq(TracksOf(d.items)) = InsertAt(f, p, x)
                 PROVE  Does(c, d, InsertAt(UpcomingTracks(c), to, x))
    OBVIOUS
  <2>2. FlatTracks(d) = InsertAt(FlatTracks(c), HeardLen(c) + to, x)
    BY <1>3, <2>1, Zenon DEF p
  <2>3. /\ InsertAt(UpcomingTracks(c), to, x) \in Seq(Tracks)
        /\ Joins(FlatTracks(d), Heard(c), InsertAt(UpcomingTracks(c), to, x))
    BY <2>2, FlatInserted
  <2>4. QED
    BY <1>4, <2>1, <2>3, DoesIt
<1>8. CASE to \notin DOMAIN Upcoming(c)
  <2>1. d.items = InsertAt(c.items, Len(c.items) + 1, new)
    BY <1>8 DEF Put, new
  <2>2. to = Len(Upcoming(c)) + 1
    BY <1>5, <1>8
  <2>3. n + 1 \in 1..(Len(c.items) + 1) /\ n + 1 > c.current /\ n = Len(c.items)
    BY <1>1 DEF n
  <2>4. CursorKept(c, d.items)
    <3> DEFINE i == Len(c.items) + 1
    <3>1. i \in 1..(Len(c.items) + 1) /\ i > c.current /\ c.current \in Nat
      BY <1>1, <2>3
    <3>2. c.items \in Seq(Stocked)
      BY <1>1
    <3>3. new \in Stocked
      BY <1>2
    <3> HIDE DEF i
    <3>4. CursorKept(c, InsertAt(c.items, i, new))
      BY <1>6, <3>1, <3>2, <3>3, InsertedKept
    <3>5. QED
      BY <2>1, <3>4 DEF i
  <2>5. TracksOf(d.items) = InsertAt(lists, n + 1, <<x>>)
    BY <1>1, <1>2, <2>1, <2>3, TracksOfInserted
  <2>6. SubSeq(lists, 1, n) = lists
    BY <1>1
  <2>7. p = Len(FlattenSeq(SubSeq(lists, 1, n))) + 1
    <3>1. Len(FlattenSeq(SubSeq(lists, 1, n))) = Len(f)
      BY <2>6, Zenon DEF f
    <3>2. p = Len(f) + 1
      BY <1>5, <2>2 DEF p
    <3>3. QED
      BY <3>1, <3>2, Zenon
  <2>8. lists \in Seq(Seq(Tracks)) /\ n \in Nat /\ n <= Len(lists)
    BY <1>1
  <2>9. FlattenSeq(InsertAt(lists, n + 1, <<x>>)) = InsertAt(FlattenSeq(lists), p, x)
    BY <2>7, <2>8, FlattenOneInserted
  <2>10. QED
    BY <2>4, <2>5, <2>9 DEF f
<1>9. ASSUME to \in DOMAIN Upcoming(c)
      PROVE  CursorKept(c, d.items) /\ FlattenSeq(TracksOf(d.items)) = InsertAt(f, p, x)
  <2> DEFINE row == Upcoming(c)[to]
             i == row.item
             k == row.track
             s == c.items[i].tracks
             a == SubSeq(s, 1, k - 1)
             b == SubSeq(s, k, Len(s))
  <2>1. /\ i \in DOMAIN c.items /\ i \in 1..Len(c.items) /\ i \in Nat /\ i >= c.current
        /\ k \in 1..Len(s) /\ (i = c.current => k > c.items[i].at)
    <3>1. row \in AllRows(c)
      BY <1>9, UpcomingRow
    <3> HIDE DEF row
    <3>2. QED
      BY <3>1, RowFacts, Facts
  <2>2. s \in Seq(Tracks) /\ Len(s) \in Nat /\ c.items[i].at \in Nat /\ c.items[i].at >= 1 /\ lists[i] = s
    BY <2>1, ItemFacts, ListsFacts DEF lists
  <2>3. p = Len(FlattenSeq(SubSeq(lists, 1, i - 1))) + k
    <3>1. to \in 1..Len(Upcoming(c))
      BY <1>5, <1>9
    <3>2. HeardLen(c) + to = Len(FlattenSeq(SubSeq(Lists(c), 1, i - 1))) + k
      BY <3>1, RowPlace
    <3>3. QED
      BY <3>2, Zenon DEF p, lists
  <2>4. c.items \in Seq(Stocked) /\ c.current \in Nat /\ i \in 1..(Len(c.items) + 1) /\ Len(c.items) \in Nat
    BY <1>1, <2>1
  <2>5. CASE ~(k > 1)
    <3>1. d.items = InsertAt(c.items, i, new)
      BY <1>9, <2>5 DEF Put, new
    <3>2. k = 1 /\ i > c.current
      BY <2>1, <2>2, <2>4, <2>5
    <3>3. new \in Stocked
      BY <1>2
    <3> HIDE DEF i, k, s
    <3>4. CursorKept(c, d.items)
      BY <1>6, <2>4, <3>1, <3>2, <3>3, InsertedKept
    <3>5. TracksOf(d.items) = InsertAt(lists, i, <<x>>)
      <4>1. TracksOf(InsertAt(c.items, i, new)) = InsertAt(TracksOf(c.items), i, new.tracks)
        BY <2>4, <3>3, TracksOfInserted
      <4>2. QED
        BY <1>1, <1>2, <3>1, <4>1, Zenon
    <3> DEFINE m == i - 1
    <3>6. m \in Nat /\ m <= Len(lists) /\ i = m + 1
      BY <1>1, <2>1 DEF n
    <3>7. p = Len(FlattenSeq(SubSeq(lists, 1, m))) + 1
      BY <2>3, <3>2, Zenon
    <3>8. lists \in Seq(Seq(Tracks))
      BY <1>1
    <3> HIDE DEF m
    <3>9. FlattenSeq(InsertAt(lists, m + 1, <<x>>)) = InsertAt(FlattenSeq(lists), p, x)
      BY <3>6, <3>7, <3>8, FlattenOneInserted
    <3>10. QED
      BY <3>4, <3>5, <3>6, <3>9, Zenon DEF f
  <2>6. CASE k > 1
    <3> DEFINE kept == Retracked(c, i, a)
               both == InsertAt(kept, i + 1, NewItem(b))
    <3>1. d.items = InsertAt(both, i + 1, new)
      BY <1>9, <2>6 DEF Put, PutItems, new
    <3>2. k - 1 \in Nat /\ k - 1 <= Len(s) /\ k - 1 >= 1 /\ (k - 1) + 1 = k
      <4>1. k \in 1..Len(s) /\ Len(s) \in Nat
        BY <2>1, <2>2
      <4> HIDE DEF k, s
      <4>2. QED
        BY <2>6, <4>1
    <3>3. /\ a \in Seq(Tracks) /\ b \in Seq(Tracks) /\ Len(a) = k - 1 /\ Len(b) = Len(s) - (k - 1)
          /\ Joins(s, a, b)
      <4> DEFINE q == k - 1
      <4>1. q \in Nat /\ q <= Len(s) /\ s \in Seq(Tracks)
        BY <2>2, <3>2
      <4> HIDE DEF q, s
      <4>2. /\ SubSeq(s, 1, q) \in Seq(Tracks) /\ SubSeq(s, q + 1, Len(s)) \in Seq(Tracks)
            /\ Len(SubSeq(s, 1, q)) = q /\ Len(SubSeq(s, q + 1, Len(s))) = Len(s) - q
            /\ SubSeq(s, 1, q) \o SubSeq(s, q + 1, Len(s)) = s
        BY <4>1, Halves
      <4>3. q + 1 = k
        BY <3>2 DEF q
      <4>4. QED
        BY <4>2, <4>3, Zenon DEF Joins, q
    <3>4. a # <<>> /\ b # <<>>
      <4> HIDE DEF a, b, k, s
      <4>1. Len(a) # 0 /\ Len(b) # 0
        BY <2>1, <2>2, <2>6, <3>2, <3>3
      <4>2. QED
        BY <4>1
    <3>5. i = c.current => c.items[i].at \in 1..Len(a) /\ a[c.items[i].at] = s[c.items[i].at]
      <4> DEFINE at == c.items[i].at
                 q == k - 1
      <4>1. SUFFICES ASSUME i = c.current PROVE at \in 1..Len(a) /\ a[at] = s[at]
        OBVIOUS
      <4>2. at \in Nat /\ at >= 1 /\ k > at /\ k \in Nat
        BY <2>1, <2>2, <4>1
      <4>3. at \in 1..q /\ 1 + at - 1 = at
        BY <4>2
      <4>4. s \in Seq(Tracks) /\ 1 \in 1..(Len(s) + 1) /\ q \in (1 - 1)..Len(s) /\ q - 1 + 1 = q
        BY <2>2, <3>2
      <4> HIDE DEF at, q, s
      <4>5. /\ Len(SubSeq(s, 1, q)) = q - 1 + 1
            /\ \A j \in 1..(q - 1 + 1) : SubSeq(s, 1, q)[j] = s[1 + j - 1]
        BY <4>4, Piece
      <4>6. SubSeq(s, 1, q)[at] = s[at] /\ Len(SubSeq(s, 1, q)) = q
        BY <4>3, <4>4, <4>5
      <4>7. a = SubSeq(s, 1, q)
        BY Zenon DEF q
      <4>8. QED
        BY <4>3, <4>6, <4>7, Zenon
    <3> HIDE DEF a, b
    <3>6. /\ kept \in Seq(Stocked) /\ Len(kept) = Len(c.items)
          /\ TracksOf(kept) = WithPart(lists, i, a) /\ CursorKept(c, kept)
      <4>1. kept \in Seq(Stocked) /\ Len(kept) = Len(c.items)
        BY <2>1, <3>3, <3>4, RetrackedStocked
      <4>2. TracksOf(kept) = WithPart(lists, i, a)
        BY <2>1, RetrackedIs DEF lists
      <4>3. CursorKept(c, kept)
        BY <2>1, <3>5, RetrackedKept
      <4>4. QED
        BY <4>1, <4>2, <4>3
    <3>7. NewItem(b) \in Stocked /\ NewItem(b).tracks = b
      BY <3>3, <3>4, NewItemStocked DEF NewItem
    <3> DEFINE m == i + 1
    <3>8. m \in 1..(Len(c.items) + 1) /\ m > c.current /\ m \in 1..((Len(c.items) + 1) + 1)
      BY <2>1, <2>4
    <3> HIDE DEF kept
    <3>9. /\ both \in Seq(Stocked) /\ Len(both) = Len(c.items) + 1
          /\ TracksOf(both) = SplitIn(lists, i, a, b) /\ CursorKept(c, both)
      <4> DEFINE y == NewItem(b)
      <4>1. kept \in Seq(Stocked) /\ m \in 1..(Len(kept) + 1) /\ y \in Stocked /\ y.tracks = b
        BY <3>6, <3>7, <3>8
      <4>2. both = InsertAt(kept, m, y)
        OBVIOUS
      <4> HIDE DEF y, both, m
      <4>3. both \in Seq(Stocked) /\ Len(both) = Len(kept) + 1
        BY <4>1, <4>2, Inserted
      <4>4. TracksOf(both) = InsertAt(TracksOf(kept), m, b)
        BY <4>1, <4>2, TracksOfInserted
      <4>5. TracksOf(both) = SplitIn(lists, i, a, b)
        BY <3>6, <4>4, Zenon DEF SplitIn, m
      <4>6. CursorKept(c, both)
        BY <2>4, <3>6, <3>8, <4>1, <4>2, InsertedKept
      <4>7. QED
        BY <3>6, <4>3, <4>5, <4>6
    <3> HIDE DEF both, m
    <3>10. /\ TracksOf(d.items) = InsertAt(SplitIn(lists, i, a, b), i + 1, <<x>>)
           /\ CursorKept(c, d.items)
      <4>1. both \in Seq(Stocked) /\ m \in 1..(Len(both) + 1) /\ new \in Stocked
        BY <1>2, <3>9, <3>8
      <4>2. d.items = InsertAt(both, m, new)
        BY <3>1, Zenon DEF m
      <4>3. TracksOf(d.items) = InsertAt(TracksOf(both), m, new.tracks)
        BY <4>1, <4>2, TracksOfInserted
      <4>4. CursorKept(c, d.items)
        BY <2>4, <3>9, <3>8, <4>1, <4>2, InsertedKept
      <4>5. QED
        BY <1>2, <3>9, <4>3, <4>4, Zenon DEF m
    <3>11. lists \in Seq(Seq(Tracks)) /\ i \in 1..Len(lists) /\ Joins(lists[i], a, b)
      BY <1>1, <2>1, <2>2, <3>3 DEF n
    <3>12. p = Len(FlattenSeq(SubSeq(lists, 1, i - 1)) \o a) + 1
      <4> DEFINE h == FlattenSeq(SubSeq(lists, 1, i - 1))
      <4>1. h \in Seq(Tracks)
        BY <3>11, FlattenAround
      <4>2. a \in Seq(Tracks) /\ Len(a) = k - 1
        BY <3>3
      <4>3. p = Len(h) + k /\ k \in Nat
        BY <2>1, <2>3
      <4> HIDE DEF h, k
      <4>4. Len(h \o a) = Len(h) + Len(a) /\ Len(h) \in Nat
        BY <4>1, <4>2, Joined
      <4>5. p = Len(h \o a) + 1
        BY <4>2, <4>3, <4>4
      <4>6. QED
        BY <4>5 DEF h
    <3>13. FlattenSeq(InsertAt(SplitIn(lists, i, a, b), i + 1, <<x>>)) = InsertAt(FlattenSeq(lists), p, x)
      <4>1. a \in Seq(Tracks) /\ b \in Seq(Tracks)
        BY <3>3
      <4> HIDE DEF i
      <4>2. QED
        BY <3>12, <3>11, <4>1, FlattenSplitInserted
    <3>14. QED
      BY <3>10, <3>13, Zenon DEF f
  <2>7. QED
    BY <2>5, <2>6
<1>10. QED
  BY <1>8, <1>9

LEMMA MoveUpcomingDoes ==
  ASSUME NEW c, WellFormed(c), NEW from \in DOMAIN Upcoming(c), NEW to \in DOMAIN Upcoming(c)
  PROVE  Does(c, MoveUpcoming(c, from, to),
              InsertAt(RemoveAt(UpcomingTracks(c), from), to, UpcomingTracks(c)[from]))
<1> DEFINE u == UpcomingTracks(c)
           left == TakeUpcoming(c, Upcoming(c)[from])
           v == RemoveAt(u, from)
           d == MoveUpcoming(c, from, to)
           w == InsertAt(v, to, u[from])
           n == Len(Upcoming(c))
<1>1. Showing(c) /\ from \in 1..n /\ to \in 1..n
  BY ShowsRows
<1>2. u \in Seq(Tracks) /\ Len(u) = n
  BY <1>1, FlatIsHeardAndUpcoming
<1>3. WellFormed(left)
  BY UpcomingRow, TakeUpcomingWellFormed
<1>4. Does(c, left, v) /\ Showing(left) /\ HeardLen(left) = HeardLen(c)
  BY TakeUpcomingDoes
<1>5. WellFormed(d)
  BY MoveUpcomingWellFormed
<1>6. Put(left, to, u[from], d)
  BY MoveIsPut
<1>7. n \in Nat
  BY <1>1, UpcomingIsEnd
<1> HIDE DEF left, d, n, u
<1>8. v \in Seq(Tracks) /\ Len(v) = n - 1 /\ u[from] \in Tracks
  <2>1. from \in 1..Len(u) /\ u \in Seq(Tracks)
    BY <1>1, <1>2
  <2>2. v \in Seq(Tracks) /\ Len(v) = Len(u) - 1
    BY <2>1, Removed
  <2>3. u[from] \in Tracks
    BY <2>1, ElementOfSeq
  <2>4. QED
    BY <1>2, <2>2, <2>3
<1> HIDE DEF v
<1>9. UpcomingTracks(left) = v
  BY <1>4 DEF Does
<1>10. to \in 1..(Len(Upcoming(left)) + 1)
  <2>1. Len(Upcoming(left)) = Len(UpcomingTracks(left))
    BY <1>3, <1>4, FlatIsHeardAndUpcoming
  <2>2. Len(Upcoming(left)) = n - 1
    BY <1>8, <1>9, <2>1, Zenon
  <2>3. QED
    BY <1>1, <1>7, <2>2
<1>11. Does(left, d, InsertAt(UpcomingTracks(left), to, u[from]))
  BY <1>3, <1>4, <1>5, <1>6, <1>8, <1>10, PutDoes
<1>12. Does(left, d, w)
  BY <1>9, <1>11, Zenon
<1> HIDE DEF w
<1>13. Does(c, d, w)
  BY <1>1, <1>3, <1>4, <1>8, <1>12, DoesTwice
<1>14. QED
  BY <1>13 DEF d, w, v, u

-----------------------------------------------------------------------------
(* Queueing an album behind the current track. *)

(* An album put into the lists where the heard tracks end. *)
LEMMA EnqueuedFlat ==
  ASSUME NEW c, WellFormed(c), Showing(c), NEW s \in Seq(Seq(Tracks)), NEW n \in Nat, n <= Len(s),
         FlattenSeq(s) = FlatTracks(c), Len(FlattenSeq(SubSeq(s, 1, n))) = HeardLen(c),
         NEW album \in Seq(Tracks), NEW f, f = FlattenSeq(InsertAt(s, n + 1, album))
  PROVE  /\ album \o UpcomingTracks(c) \in Seq(Tracks)
         /\ Joins(f, Heard(c), album \o UpcomingTracks(c))
<1> DEFINE h == FlattenSeq(SubSeq(s, 1, n))
           g == FlattenSeq(SubSeq(s, n + 1, Len(s)))
           heard == Heard(c)
           u == UpcomingTracks(c)
<1>1. h \in Seq(Tracks) /\ g \in Seq(Tracks) /\ FlattenSeq(s) = h \o g
  BY FlattenHalves
<1>2. f = h \o (album \o g)
  BY FlattenInserted
<1>3. heard \in Seq(Tracks) /\ Len(heard) = HeardLen(c) /\ u \in Seq(Tracks) /\ Joins(FlatTracks(c), heard, u)
  BY FlatIsHeardAndUpcoming
<1>4. Joins(FlatTracks(c), h, g)
  BY <1>1, Zenon DEF Joins
<1>5. Len(h) = Len(heard)
  BY <1>3, Zenon
<1>6. h \in Seq(Tracks) /\ g \in Seq(Tracks) /\ heard \in Seq(Tracks) /\ u \in Seq(Tracks)
  BY <1>1, <1>3
<1>7. Joins(FlatTracks(c), heard, u)
  BY <1>3
<1> HIDE DEF h, g, heard, u
<1>8. g = u /\ h = heard
  BY <1>4, <1>5, <1>6, <1>7, SameEnd
<1>9. album \o u \in Seq(Tracks)
  BY <1>6
<1>10. Joins(f, heard, album \o u)
  BY <1>2, <1>8, Zenon DEF Joins
<1>11. QED
  BY <1>9, <1>10, Zenon DEF heard, u

(* Does the current album go on behind the current track? *)
Splits(c) == c.current \in DOMAIN c.items /\ c.items[c.current].at < Len(c.items[c.current].tracks)
Behind(c) == IF c.current \in DOMAIN c.items THEN c.current + 1 ELSE 1

LEMMA EnqueueNextIs ==
  ASSUME NEW c, WellFormed(c), NEW album \in Seq(Tracks), album # <<>>,
         NEW cur, NEW at, NEW tracks, cur = c.current, at = c.items[cur].at, tracks = c.items[cur].tracks
  PROVE  /\ EnqueueNext(c, album).current = c.current
         /\ ~Splits(c) => EnqueueNext(c, album).items = InsertAt(c.items, Behind(c), NewItem(album))
         /\ Splits(c) =>
              EnqueueNext(c, album).items
              = InsertAt(InsertAt(Retracked(c, cur, SubSeq(tracks, 1, at)), cur + 1,
                                  NewItem(SubSeq(tracks, at + 1, Len(tracks)))),
                         cur + 1, NewItem(album))
<1> DEFINE place == Behind(c)
           head  == SubSeq(tracks, 1, at)
           tail  == SubSeq(tracks, at + 1, Len(tracks))
           kept  == IF Splits(c) THEN Retracked(c, cur, head) ELSE c.items
           extra == IF Splits(c) THEN <<NewItem(album), NewItem(tail)>> ELSE <<NewItem(album)>>
           items == SubSeq(kept, 1, place - 1) \o extra \o SubSeq(kept, place, Len(kept))
           selected == IF c.selected >= place /\ Len(c.items) > 0
                       THEN c.selected + Len(extra) ELSE c.selected
<1>1. EnqueueNext(c, album) = [c EXCEPT !.items = items, !.selected = selected]
  BY DEF EnqueueNext, Retracked, Splits, Behind
<1> HIDE DEF items, selected
<1>2. EnqueueNext(c, album) = Made(items, c.current, selected)
  <2>1. \A x, y : [c EXCEPT !.items = x, !.selected = y] = Made(x, c.current, y)
    BY Updated
  <2>2. QED
    BY <1>1, <2>1
<1>3. EnqueueNext(c, album).current = c.current /\ EnqueueNext(c, album).items = items
  BY <1>2 DEF Made
<1>4. ASSUME ~Splits(c) PROVE items = InsertAt(c.items, place, NewItem(album))
  BY <1>4 DEF items, InsertAt
<1>5. ASSUME Splits(c)
      PROVE  items = InsertAt(InsertAt(Retracked(c, cur, head), cur + 1, NewItem(tail)), cur + 1, NewItem(album))
  <2>1. cur \in DOMAIN c.items /\ cur \in 1..Len(c.items) /\ at < Len(tracks) /\ Len(c.items) \in Nat
    BY <1>5, Facts DEF Splits
  <2>2. /\ tracks \in Seq(Tracks) /\ Len(tracks) \in Nat /\ at \in Nat /\ at >= 1
    BY <2>1, ItemFacts
  <2>3. head \in Seq(Tracks) /\ head # <<>>
    <3>1. 1 \in 1..Len(tracks) /\ at \in 1..Len(tracks)
      BY <2>1, <2>2
    <3>2. QED
      BY <2>2, <3>1, Cropped
  <2>4. tail \in Seq(Tracks) /\ tail # <<>>
    <3>1. at + 1 \in 1..Len(tracks) /\ Len(tracks) \in (at + 1)..Len(tracks)
      BY <2>1, <2>2
    <3>2. QED
      BY <2>2, <3>1, Cropped
  <2>5. place = cur + 1
    BY <2>1 DEF Behind
  <2> DEFINE all == Retracked(c, cur, head)
             x == NewItem(album)
             y == NewItem(tail)
             p == cur + 1
  <2>6. items = SubSeq(all, 1, p - 1) \o <<x, y>> \o SubSeq(all, p, Len(all))
    BY <1>5, <2>5, Zenon DEF items
  <2> HIDE DEF head, tail
  <2>7. all \in Seq(Stocked) /\ Len(all) = Len(c.items)
    BY <2>1, <2>3, RetrackedStocked
  <2>8. x \in Stocked /\ y \in Stocked
    BY <2>4, NewItemStocked
  <2>9. p \in 1..(Len(all) + 1)
    BY <2>1, <2>7
  <2> HIDE DEF all, x, y, p
  <2>10. SubSeq(all, 1, p - 1) \o <<x, y>> \o SubSeq(all, p, Len(all)) = InsertAt(InsertAt(all, p, y), p, x)
    BY <2>7, <2>8, <2>9, TwoInserted
  <2>11. items = InsertAt(InsertAt(all, p, y), p, x)
    BY <2>6, <2>10, Zenon
  <2>12. QED
    BY <2>11 DEF all, x, y, p
<1>6. QED
  BY <1>3, <1>4, <1>5

(* The tracks heard in c are those of the first n of the lists s. *)
HeardIn(c, s, n) ==
  /\ s \in Seq(Seq(Tracks)) /\ n \in Nat /\ n <= Len(s)
  /\ FlattenSeq(s) = FlatTracks(c)
  /\ Len(FlattenSeq(SubSeq(s, 1, n))) = HeardLen(c)

(* The album follows them in d. *)
AlbumAt(d, s, n, album) == TracksOf(d.items) = InsertAt(s, n + 1, album)

LEMMA EnqueuedDoes ==
  ASSUME NEW c, WellFormed(c), Showing(c), NEW s, NEW n, HeardIn(c, s, n), NEW album \in Seq(Tracks),
         NEW d, WellFormed(d), d.current = c.current, CursorKept(c, d.items),
         AlbumAt(d, s, n, album)
  PROVE  Does(c, d, album \o UpcomingTracks(c))
<1> DEFINE f == FlatTracks(d)
           v == album \o UpcomingTracks(c)
<1>1. FlatTracks(d) = FlattenSeq(TracksOf(d.items))
  BY FlatTracksType DEF Lists, TracksOf
<1>2. f = FlattenSeq(InsertAt(s, n + 1, album))
  BY <1>1, Zenon DEF AlbumAt
<1>3. /\ s \in Seq(Seq(Tracks)) /\ n \in Nat /\ n <= Len(s)
      /\ FlattenSeq(s) = FlatTracks(c) /\ Len(FlattenSeq(SubSeq(s, 1, n))) = HeardLen(c)
  BY DEF HeardIn
<1> HIDE DEF f
<1>4. v \in Seq(Tracks) /\ Joins(f, Heard(c), v)
  BY <1>2, <1>3, EnqueuedFlat
<1>5. Joins(FlatTracks(d), Heard(c), v)
  BY <1>4 DEF f
<1> HIDE DEF v
<1>6. Does(c, d, v)
  BY <1>4, <1>5, DoesIt
<1>7. QED
  BY <1>6 DEF v

LEMMA EnqueueNextDoes ==
  ASSUME NEW c, WellFormed(c), Showing(c), NEW album \in Seq(Tracks), album # <<>>
  PROVE  Does(c, EnqueueNext(c, album), album \o UpcomingTracks(c))
<1> DEFINE d == EnqueueNext(c, album)
           new == NewItem(album)
           lists == Lists(c)
           cur == c.current
           at == c.items[cur].at
           tracks == c.items[cur].tracks
           head == SubSeq(tracks, 1, at)
           tail == SubSeq(tracks, at + 1, Len(tracks))
           kept == Retracked(c, cur, head)
           both == InsertAt(kept, cur + 1, NewItem(tail))
<1>1. WellFormed(d)
  BY EnqueueNextWellFormed
<1>2. new \in Stocked /\ new.tracks = album
  BY NewItemStocked DEF NewItem
<1>3. /\ d.current = c.current
      /\ ~Splits(c) => d.items = InsertAt(c.items, Behind(c), new)
      /\ Splits(c) => d.items = InsertAt(both, cur + 1, new)
  BY EnqueueNextIs
<1>4. /\ lists \in Seq(Seq(Tracks)) /\ Len(lists) = Len(c.items) /\ Len(c.items) \in Nat
      /\ c.items \in Seq(Stocked) /\ lists = TracksOf(c.items) /\ cur \in 0..Len(c.items) /\ cur \in Nat
      /\ DOMAIN c.items = 1..Len(c.items)
  BY ListsFacts, Facts DEF Lists, TracksOf
<1>5. FlatTracks(c) = FlattenSeq(lists) /\ FlatTracks(d) = FlattenSeq(TracksOf(d.items))
  BY <1>1, FlatTracksType DEF Lists, TracksOf
<1>6. CursorKept(c, c.items)
  BY SameKept
<1>7. cur # 0 => /\ cur \in DOMAIN c.items /\ at \in 1..Len(tracks) /\ tracks \in Seq(Tracks)
                 /\ Len(tracks) \in Nat /\ at \in Nat /\ lists[cur] = tracks
  <2>1. SUFFICES ASSUME cur # 0
                 PROVE  /\ cur \in DOMAIN c.items /\ at \in 1..Len(tracks) /\ tracks \in Seq(Tracks)
                        /\ Len(tracks) \in Nat /\ at \in Nat /\ lists[cur] = tracks
    OBVIOUS
  <2>2. cur \in DOMAIN c.items /\ at \in 1..Len(tracks)
    BY <2>1, ShownCursor
  <2>3. QED
    BY <2>2, ItemFacts, ListsFacts
<1>8. SUFFICES Does(c, d, album \o UpcomingTracks(c))
  OBVIOUS
<1> HIDE DEF d, new, lists
<1>9. d.current = c.current
  BY <1>3
<1>10. CASE ~Splits(c)
  <2> DEFINE n == IF cur = 0 THEN 0 ELSE cur
             p == n + 1
  <2>1. Behind(c) = p /\ n \in Nat /\ n <= Len(c.items) /\ p > c.current /\ p \in 1..(Len(c.items) + 1)
    BY <1>4, <1>7 DEF Behind
  <2>2. d.items = InsertAt(c.items, p, new)
    BY <1>3, <1>10, <2>1
  <2>3. Len(FlattenSeq(SubSeq(lists, 1, n))) = HeardLen(c)
    <3>1. CASE cur = 0
      <4>1. SubSeq(lists, 1, 0) = <<>>
        BY <1>4, SubSeqEmpty
      <4>2. n = 0 /\ HeardLen(c) = 0 /\ Len(<<>>) = 0
        BY <3>1 DEF HeardLen
      <4>3. QED
        BY <4>1, <4>2, FlattenNone
    <3>2. CASE cur # 0
      <4> DEFINE h == FlattenSeq(SubSeq(lists, 1, cur - 1))
      <4>1. at = Len(tracks)
        BY <1>7, <1>10, <3>2 DEF Splits
      <4>2. HeardLen(c) = Len(h) + Len(tracks)
        BY <3>2, <4>1 DEF HeardLen, lists
      <4>3. lists \in Seq(Seq(Tracks)) /\ cur \in 1..Len(lists) /\ lists[cur] = tracks
        BY <1>4, <1>7, <3>2
      <4> HIDE DEF cur, tracks
      <4>4. h \in Seq(Tracks) /\ FlattenSeq(SubSeq(lists, 1, cur)) = h \o tracks /\ tracks \in Seq(Tracks)
        BY <4>3, FlattenAround
      <4> HIDE DEF h
      <4>5. Len(h \o tracks) = Len(h) + Len(tracks)
        BY <4>4, Joined
      <4>6. n = cur
        BY <3>2
      <4>7. QED
        BY <4>2, <4>4, <4>5, <4>6, Zenon
    <3>3. QED
      BY <3>1, <3>2
  <2>4. c.items \in Seq(Stocked) /\ c.current \in Nat
    BY <1>4
  <2> HIDE DEF n
  <2>5. CursorKept(c, d.items)
    <3> HIDE DEF p
    <3>1. QED
      BY <1>2, <1>6, <2>1, <2>2, <2>4, InsertedKept
  <2>6. AlbumAt(d, lists, n, album)
    <3>1. TracksOf(InsertAt(c.items, p, new)) = InsertAt(TracksOf(c.items), p, new.tracks)
      <4> HIDE DEF p
      <4>1. QED
        BY <1>2, <2>1, <2>4, TracksOfInserted
    <3>2. QED
      BY <1>2, <1>4, <2>2, <3>1, Zenon DEF AlbumAt
  <2>7. lists \in Seq(Seq(Tracks)) /\ n <= Len(lists)
    BY <1>4, <2>1
  <2>8. HeardIn(c, lists, n)
    BY <1>5, <2>1, <2>3, <2>7, Zenon DEF HeardIn
  <2>9. QED
    BY <1>1, <1>9, <2>5, <2>6, <2>8, EnqueuedDoes
<1>11. CASE Splits(c)
  <2>1. cur # 0 /\ cur \in DOMAIN c.items /\ cur \in 1..Len(c.items) /\ at < Len(tracks)
    BY <1>4, <1>11 DEF Splits
  <2>2. tracks \in Seq(Tracks) /\ at \in 1..Len(tracks) /\ at \in Nat /\ Len(tracks) \in Nat /\ lists[cur] = tracks
    BY <1>7, <2>1
  <2>3. /\ head \in Seq(Tracks) /\ tail \in Seq(Tracks) /\ Len(head) = at /\ Len(tail) = Len(tracks) - at
        /\ Joins(tracks, head, tail)
    <3>1. at <= Len(tracks) /\ at \in Nat /\ tracks \in Seq(Tracks)
      BY <2>1, <2>2
    <3> HIDE DEF at, tracks
    <3>2. /\ head \in Seq(Tracks) /\ tail \in Seq(Tracks) /\ Len(head) = at /\ Len(tail) = Len(tracks) - at
          /\ head \o tail = tracks
      BY <3>1, Halves
    <3> HIDE DEF head, tail
    <3>3. QED
      BY <3>2, Zenon DEF Joins
  <2>4. head # <<>> /\ tail # <<>>
    <3> HIDE DEF head, tail, at, tracks
    <3>1. Len(head) # 0 /\ Len(tail) # 0
      BY <2>1, <2>2, <2>3
    <3>2. QED
      BY <3>1
  <2>5. at \in 1..Len(head) /\ head[at] = tracks[at]
    <3> DEFINE a == at
               t == tracks
    <3>1. t \in Seq(Tracks) /\ a \in 1..Len(t) /\ a \in Nat /\ Len(t) \in Nat
      BY <2>2
    <3> HIDE DEF a, t
    <3>2. 1 \in 1..(Len(t) + 1) /\ a \in (1 - 1)..Len(t) /\ a - 1 + 1 = a /\ 1 + a - 1 = a /\ a \in 1..a
      BY <3>1
    <3>3. /\ Len(SubSeq(t, 1, a)) = a - 1 + 1
          /\ \A j \in 1..(a - 1 + 1) : SubSeq(t, 1, a)[j] = t[1 + j - 1]
      BY <3>1, <3>2, Piece
    <3>4. Len(SubSeq(t, 1, a)) = a /\ SubSeq(t, 1, a)[a] = t[a]
      BY <3>2, <3>3
    <3>5. QED
      BY <3>2, <3>4 DEF a, t
  <2> HIDE DEF head, tail
  <2>6. /\ kept \in Seq(Stocked) /\ Len(kept) = Len(c.items)
        /\ TracksOf(kept) = WithPart(lists, cur, head) /\ CursorKept(c, kept)
    <3>1. kept \in Seq(Stocked) /\ Len(kept) = Len(c.items)
      BY <2>1, <2>3, <2>4, RetrackedStocked
    <3>2. TracksOf(kept) = WithPart(lists, cur, head)
      BY <2>1, RetrackedIs DEF lists
    <3>3. CursorKept(c, kept)
      <4>1. cur >= c.current
        BY <1>4
      <4>2. QED
        BY <2>1, <2>5, <4>1, RetrackedKept
    <3>4. QED
      BY <3>1, <3>2, <3>3
  <2> DEFINE p == cur + 1
             y == NewItem(tail)
             s == SplitIn(lists, cur, head, tail)
  <2>7. y \in Stocked /\ y.tracks = tail
    BY <2>3, <2>4, NewItemStocked DEF NewItem
  <2>8. p \in 1..(Len(c.items) + 1) /\ p > c.current /\ p \in 1..((Len(c.items) + 1) + 1) /\ c.current \in Nat
    BY <1>4, <2>1
  <2>9. both = InsertAt(kept, p, y)
    OBVIOUS
  <2> HIDE DEF kept, both, p, y
  <2>10. both \in Seq(Stocked) /\ Len(both) = Len(c.items) + 1
    <3>1. kept \in Seq(Stocked) /\ p \in 1..(Len(kept) + 1) /\ y \in Stocked
      BY <2>6, <2>7, <2>8
    <3>2. InsertAt(kept, p, y) \in Seq(Stocked) /\ Len(InsertAt(kept, p, y)) = Len(kept) + 1
      BY <3>1, Inserted
    <3>3. QED
      BY <2>6, <2>9, <3>2, Zenon
  <2>11. TracksOf(both) = s
    <3>1. kept \in Seq(Stocked) /\ p \in 1..(Len(kept) + 1) /\ y \in Stocked
      BY <2>6, <2>7, <2>8
    <3>2. TracksOf(InsertAt(kept, p, y)) = InsertAt(TracksOf(kept), p, y.tracks)
      BY <3>1, TracksOfInserted
    <3>3. QED
      BY <2>6, <2>7, <2>9, <3>2, Zenon DEF SplitIn, p
  <2>12. CursorKept(c, both)
    BY <2>6, <2>7, <2>8, <2>9, InsertedKept
  <2>13. d.items = InsertAt(both, p, new)
    BY <1>3, <1>11, Zenon DEF p
  <2>14. p \in 1..(Len(both) + 1)
    BY <2>8, <2>10
  <2>15. CursorKept(c, d.items)
    BY <1>2, <2>8, <2>10, <2>12, <2>13, <2>14, InsertedKept
  <2>16. TracksOf(d.items) = InsertAt(s, p, album)
    <3>1. TracksOf(InsertAt(both, p, new)) = InsertAt(TracksOf(both), p, new.tracks)
      BY <1>2, <2>10, <2>14, TracksOfInserted
    <3>2. QED
      BY <1>2, <2>11, <2>13, <3>1, Zenon
  <2> DEFINE h == FlattenSeq(SubSeq(lists, 1, cur - 1))
  <2>17. lists \in Seq(Seq(Tracks)) /\ cur \in 1..Len(lists) /\ Joins(lists[cur], head, tail)
    BY <1>4, <2>1, <2>2, <2>3
  <2>18. HeardLen(c) = Len(h) + at
    BY <2>1 DEF HeardLen, lists
  <2>19. head \in Seq(Tracks) /\ tail \in Seq(Tracks) /\ Len(head) = at
    BY <2>3
  <2> HIDE DEF cur, at, tracks
  <2>20. /\ s \in Seq(Seq(Tracks)) /\ Len(s) = Len(lists) + 1 /\ FlattenSeq(s) = FlattenSeq(lists)
         /\ Joins(FlattenSeq(SubSeq(s, 1, cur)), h, head)
    BY <2>17, <2>19, FlattenSplit
  <2>21. h \in Seq(Tracks)
    BY <2>17, FlattenAround
  <2> HIDE DEF s, h
  <2>22. Len(FlattenSeq(SubSeq(s, 1, cur))) = HeardLen(c)
    <3>1. Len(FlattenSeq(SubSeq(s, 1, cur))) = Len(h) + Len(head)
      BY <2>19, <2>20, <2>21, JoinsIs
    <3>2. QED
      BY <2>18, <2>19, <3>1, Zenon
  <2>23. cur \in Nat /\ cur <= Len(s)
    BY <2>17, <2>20
  <2>24. AlbumAt(d, s, cur, album)
    BY <2>16, Zenon DEF p, AlbumAt
  <2>25. HeardIn(c, s, cur)
    BY <1>5, <2>20, <2>22, <2>23, Zenon DEF HeardIn
  <2>26. QED
    BY <1>1, <1>9, <2>15, <2>24, <2>25, EnqueuedDoes
<1>12. QED
  BY <1>10, <1>11

-----------------------------------------------------------------------------
(* Whether something plays, and what navigation and moves of albums leave. *)


Plays(c) == CurrentTrack(c) # NoTrack

(* A track is current when the cursor is on a track of its album. *)
LEMMA PlaysIs ==
  ASSUME NEW c, WellFormed(c)
  PROVE  /\ Plays(c) <=> c.current # 0 /\ c.items[c.current].at \in 1..Len(c.items[c.current].tracks)
         /\ Plays(c) => c.current \in DOMAIN c.items /\ c.current \in 1..Len(c.items)
         /\ c.current # 0 => c.current \in DOMAIN c.items /\ c.current \in 1..Len(c.items)
         /\ Plays(c) => Showing(c)
<1>1. CASE c.current = 0
  <2>1. c.current \notin DOMAIN c.items
    BY <1>1, Facts
  <2>2. QED
    BY <1>1, <2>1 DEF Plays, CurrentTrack
<1>2. CASE c.current # 0
  <2> DEFINE at == c.items[c.current].at
             s == c.items[c.current].tracks
  <2>1. c.current \in DOMAIN c.items /\ c.current \in 1..Len(c.items)
    BY <1>2, Facts
  <2>2. s \in Seq(Tracks) /\ DOMAIN s = 1..Len(s)
    BY <2>1, ItemFacts
  <2>3. CurrentTrack(c) = IF at \in DOMAIN s THEN s[at] ELSE NoTrack
    BY <2>1 DEF CurrentTrack
  <2> HIDE DEF at, s
  <2>4. at \in DOMAIN s => s[at] # NoTrack
    BY <2>2, ElementOfSeq, NoTrackAssumption
  <2>5. QED
    BY <1>2, <2>1, <2>2, <2>3, <2>4 DEF Plays, Showing, at, s
<1>3. QED
  BY <1>1, <1>2

(* Where that track is in the flat list. *)
(* Navigation keeps the list, and keeps on playing. *)
Navigates(c, d) == Keeps(c, d) /\ (Plays(c) => Plays(d))

(* On the flat list, navigation moves the cursor alone. *)
LEMMA PlacedPlays ==
  ASSUME NEW c, WellFormed(c), NEW i \in DOMAIN c.items, NEW k \in 1..Len(c.items[i].tracks)
  PROVE  Plays(CursorAt(c, i, k, i)) /\ (c.current = i => Plays(Placed(c, i, k)))
<1> DEFINE x == [c.items[i] EXCEPT !.at = k]
           items == [c.items EXCEPT ![i] = x]
           d == Made(items, i, c.selected)
<1>1. x.tracks = c.items[i].tracks /\ x.at = k
  BY ItemFacts DEF Stocked
<1>2. c = Made(c.items, c.current, c.selected)
  BY WellFormedFits
<1> HIDE DEF x
<1>3. Placed(c, i, k) = Made(items, c.current, c.selected)
  BY <1>2 DEF Placed, Made, x
<1>4. CursorAt(c, i, k, i) = d
  <2>1. CursorAt(c, i, k, i) = [Placed(c, i, k) EXCEPT !.current = i]
    BY DEF CursorAt, Placed
  <2>2. QED
    BY <1>3, <2>1 DEF Made
<1>5. i \in DOMAIN items /\ items[i] = x
  OBVIOUS
<1> HIDE DEF items
<1>6. d.current = i /\ d.items = items
  BY DEF Made
<1> HIDE DEF d
<1>7. c.items[i].tracks \in Seq(Tracks) /\ DOMAIN c.items[i].tracks = 1..Len(c.items[i].tracks)
      /\ c.items[i].tracks[k] \in Tracks
  BY ItemFacts, ElementOfSeq
<1>8. CurrentTrack(d) = c.items[i].tracks[k]
  BY <1>1, <1>5, <1>6, <1>7 DEF CurrentTrack
<1>9. Plays(d)
  BY <1>7, <1>8, NoTrackAssumption DEF Plays
<1>10. QED
  BY <1>3, <1>4, <1>9 DEF d

(* Queue::jump_to. *)
LEMMA JumpToPlays ==
  ASSUME NEW c, WellFormed(c), NEW i \in DOMAIN c.items
  PROVE  Plays(JumpTo(c, i))
<1>1. JumpTo(c, i) = CursorAt(c, i, 1, i)
  BY DEF JumpTo, CursorAt
<1>2. 1 \in 1..Len(c.items[i].tracks)
  BY ItemFacts
<1>3. QED
  BY <1>1, <1>2, PlacedPlays

LEMMA JumpToNavigates ==
  ASSUME NEW c, WellFormed(c), NEW i \in DOMAIN c.items
  PROVE  Navigates(c, JumpTo(c, i))
BY JumpToPlays, JumpToKeeps DEF Navigates

(* Queue::next_track. *)
LEMMA NextTrackNavigates ==
  ASSUME NEW c, WellFormed(c)
  PROVE  Navigates(c, NextTrack(c))
<1>1. Keeps(c, NextTrack(c))
  BY NextTrackKeeps
<1>2. CASE c.current \notin DOMAIN c.items
  BY <1>1, <1>2 DEF NextTrack, Navigates
<1>3. CASE c.current \in DOMAIN c.items /\ HasNextInItem(c)
  <2> DEFINE k == c.items[c.current].at + 1
  <2>1. k \in 1..Len(c.items[c.current].tracks)
    BY <1>3, ItemFacts DEF HasNextInItem
  <2>2. NextTrack(c) = Placed(c, c.current, k)
    BY <1>3 DEF NextTrack, Placed
  <2> HIDE DEF k
  <2>3. QED
    BY <1>1, <1>3, <2>1, <2>2, PlacedPlays DEF Navigates
<1>4. CASE c.current \in DOMAIN c.items /\ ~HasNextInItem(c)
  <2>1. CASE c.current < Len(c.items)
    <3>1. c.current + 1 \in DOMAIN c.items
      BY <2>1, Facts
    <3>2. NextTrack(c) = JumpTo(c, c.current + 1)
      BY <1>4, <2>1 DEF NextTrack
    <3>3. QED
      BY <3>1, <3>2, JumpToNavigates
  <2>2. CASE ~(c.current < Len(c.items))
    BY <1>1, <1>4, <2>2 DEF NextTrack, Navigates
  <2>3. QED
    BY <2>1, <2>2
<1>5. QED
  BY <1>2, <1>3, <1>4

(* Queue::previous_track. *)
LEMMA PreviousTrackNavigates ==
  ASSUME NEW c, WellFormed(c)
  PROVE  Navigates(c, PreviousTrack(c))
<1>0. Stocked \in Kinds /\ Formed(Stocked, c)
  BY WellFormedIs, StockedKind
<1>1. Keeps(c, PreviousTrack(c))
  BY PreviousTrackKeeps
<1>2. CASE c.current \notin DOMAIN c.items
  BY <1>1, <1>2 DEF PreviousTrack, Navigates
<1>3. CASE c.current \in DOMAIN c.items
  <2> DEFINE d == StepBack(c)
             at == c.items[c.current].at
             k == IF at > 1 THEN at - 1 ELSE 1
  <2>1. d = Placed(c, c.current, k) /\ k \in Nat /\ k >= 1 /\ k <= at
    BY <1>0, <1>3, StepBackIs
  <2>2. Plays(c) => k \in 1..Len(c.items[c.current].tracks)
    BY <1>3, <2>1, ItemFacts, PlaysIs
  <2> HIDE DEF k, d
  <2>3. CASE HasPreviousInItem(c) \/ c.current = 1
    <3>1. PreviousTrack(c) = d
      BY <1>0, <1>3, <2>3, PreviousTrackIs DEF d
    <3>2. QED
      BY <1>1, <1>3, <2>1, <2>2, <3>1, PlacedPlays DEF Navigates
  <2>4. CASE ~HasPreviousInItem(c) /\ c.current # 1
    <3> DEFINE p == c.current - 1
               m == Max({1, Len(c.items[p].tracks)})
    <3>1. /\ PreviousTrack(c) = CursorAt(d, p, m, p) /\ p \in DOMAIN c.items
          /\ Len(c.items[p].tracks) >= 1 => m = Len(c.items[p].tracks)
      BY <1>0, <1>3, <2>4, PreviousTrackIs DEF d
    <3> HIDE DEF p, m
    <3>2. KeepsIn(Stocked, c, d)
      BY <1>0, <1>3, <2>1, PlacedKeepsIn
    <3>3. WellFormed(d) /\ Lists(d) = Lists(c)
      BY <3>2, WellFormedIs DEF KeepsIn
    <3>4. p \in DOMAIN d.items /\ d.items[p].tracks = c.items[p].tracks
      BY <3>1, <3>3, ListsFacts, Facts
    <3>5. m \in 1..Len(d.items[p].tracks)
      BY <3>1, <3>4, ItemFacts
    <3>6. QED
      BY <1>1, <3>1, <3>3, <3>4, <3>5, PlacedPlays DEF Navigates
  <2>5. QED
    BY <2>3, <2>4
<1>4. QED
  BY <1>2, <1>3

(* play_single_file_now of a track that is queued already. *)
LEMMA PlaySingleNavigates ==
  ASSUME NEW c, WellFormed(c), NEW t \in Tracks, InQueue(c, t)
  PROVE  Navigates(c, PlaySingleFileNow(c, t))
<1> DEFINE I == {j \in DOMAIN c.items : t \in Range(c.items[j].tracks)}
           i == Min(I)
           K == {j \in DOMAIN c.items[i].tracks : c.items[i].tracks[j] = t}
           k == Min(K)
<1>1. PlaySingleFileNow(c, t) = CursorAt(c, i, k, i)
  BY DEF PlaySingleFileNow, CursorAt
<1>2. i \in I
  <2>1. I \subseteq Nat /\ I # {}
    BY Facts DEF InQueue
  <2> HIDE DEF I
  <2>2. QED
    BY <2>1, MinIs
<1>3. i \in DOMAIN c.items /\ t \in Range(c.items[i].tracks)
  BY <1>2
<1> HIDE DEF i
<1>4. k \in K
  <2>1. K \subseteq Nat /\ K # {}
    BY <1>3, ItemFacts DEF Range
  <2> HIDE DEF K
  <2>2. QED
    BY <2>1, MinIs
<1>5. k \in 1..Len(c.items[i].tracks)
  BY <1>3, <1>4, ItemFacts
<1> HIDE DEF k
<1>6. Plays(PlaySingleFileNow(c, t))
  BY <1>1, <1>3, <1>5, PlacedPlays
<1>7. QED
  BY <1>6, PlaySingleFileNowKeeps DEF Navigates

(* Playing a row of the upcoming list. *)
LEMMA PlayUpcomingPlays ==
  ASSUME NEW c, WellFormed(c), NEW index \in DOMAIN Upcoming(c)
  PROVE  Plays(PlayUpcoming(c, index))
<1> DEFINE pos == Upcoming(c)[index]
           i == pos.item
           k == pos.track
           m == CursorAt(c, i, k, i)
<1>1. pos \in AllRows(c)
  BY UpcomingRow
<1>2. i \in DOMAIN c.items /\ k \in 1..Len(c.items[i].tracks)
  <2> HIDE DEF pos
  <2>1. QED
    BY <1>1, RowFacts
<1>3. PlayUpcoming(c, index) = [m EXCEPT !.selected = i]
  BY DEF PlayUpcoming, CursorAt
<1>4. Plays(m)
  BY <1>2, PlacedPlays
<1> HIDE DEF i, k, m
<1>5. CurrentTrack([m EXCEPT !.selected = i]) = CurrentTrack(m)
  BY DEF CurrentTrack
<1>6. QED
  BY <1>3, <1>4, <1>5 DEF Plays

LEMMA PlayUpcomingNavigates ==
  ASSUME NEW c, WellFormed(c), NEW index \in DOMAIN Upcoming(c)
  PROVE  Navigates(c, PlayUpcoming(c, index))
BY PlayUpcomingPlays, PlayUpcomingKeeps DEF Navigates

(* Moving the selection. *)
LEMMA SelectNavigates ==
  ASSUME NEW c, WellFormed(c), NEW i \in DOMAIN c.items
  PROVE  Navigates(c, [c EXCEPT !.selected = i])
<1>1. CurrentTrack([c EXCEPT !.selected = i]) = CurrentTrack(c)
  BY DEF CurrentTrack
<1>2. QED
  BY <1>1, SelectedKeeps DEF Navigates, Plays

(* Tracks at the end. *)

LEMMA RemoveAlbumIs ==
  ASSUME NEW c, WellFormed(c), NEW i \in DOMAIN c.items, NEW d, d = RemoveAlbum(c, i)
  PROVE  /\ Lists(d) = RemoveAt(Lists(c), i)
         /\ c.current < i => d.current = c.current /\ \A j \in 1..(i - 1) : d.items[j] = c.items[j]
         /\ c.current > i => d.current = c.current - 1 /\ d.items[c.current - 1] = c.items[c.current]
         /\ c.current = i /\ i < Len(c.items) => d.current = i /\ d.items[i].at = 1
<1> DEFINE items == RemoveAt(c.items, i)
           first == [items EXCEPT ![i].at = 1]
<1>1. i \in Nat /\ i >= 1 /\ i <= Len(c.items) /\ Len(c.items) \in Nat /\ i \in 1..Len(c.items)
  BY Facts
<1>2. c.current \in Nat /\ c.current <= Len(c.items)
  BY Facts
<1>3. /\ items \in Seq(Stocked) /\ Len(items) = Len(c.items) - 1
      /\ \A j \in 1..(i - 1) : items[j] = c.items[j]
      /\ \A j \in i..(Len(c.items) - 1) : items[j] = c.items[j + 1]
  <2>1. c.items \in Seq(Stocked)
    BY Facts
  <2>2. i \in 1..Len(c.items)
    BY <1>1, Zenon
  <2>3. QED
    BY <2>1, <2>2, Removed, Zenon
<1>4. TracksOf(items) = RemoveAt(Lists(c), i)
  <2>1. c.items \in Seq(Stocked)
    BY Facts
  <2>2. TracksOf(RemoveAt(c.items, i)) = RemoveAt(TracksOf(c.items), i)
    BY <1>1, <2>1, TracksOfRemoved
  <2>3. TracksOf(c.items) = Lists(c)
    BY DEF TracksOf, Lists
  <2>4. QED
    BY <2>2, <2>3, Zenon
<1>5. RemoveAlbum(c, i) =
        ClampSelected(CASE c.current # i /\ c.current <= i -> [c EXCEPT !.items = items]
                        [] c.current > i -> [c EXCEPT !.items = items, !.current = c.current - 1]
                        [] c.current = i /\ i <= Len(items) -> [c EXCEPT !.items = first]
                        [] OTHER -> [c EXCEPT !.items = items, !.current = i - 1])
  BY DEF RemoveAlbum
<1>6. \A its, cur : /\ Lists(ClampSelected(Made(its, cur, c.selected))) = TracksOf(its)
                    /\ ClampSelected(Made(its, cur, c.selected)).current = cur
                    /\ ClampSelected(Made(its, cur, c.selected)).items = its
  BY TracksOfMade DEF ClampSelected, Made
<1>7. i <= Len(items) => TracksOf(first) = TracksOf(items) /\ first[i].at = 1
  <2> HIDE DEF items
  <2>1. SUFFICES ASSUME i <= Len(items) PROVE TracksOf(first) = TracksOf(items) /\ first[i].at = 1
    OBVIOUS
  <2> DEFINE x == [items[i] EXCEPT !.at = 1]
  <2>2. i \in 1..Len(items) /\ items \in Seq(Stocked)
    BY <1>1, <1>3, <2>1
  <2>3. items[i] \in Stocked
    BY <2>2, ElementOfSeq
  <2>4. x.tracks = items[i].tracks /\ x.at = 1
    BY <2>3 DEF Stocked
  <2>5. first = [items EXCEPT ![i] = x]
    OBVIOUS
  <2> HIDE DEF x, first
  <2>6. TracksOf([items EXCEPT ![i] = x]) = [TracksOf(items) EXCEPT ![i] = x.tracks]
    BY <2>2, TracksOfReplaced
  <2>7. TracksOf(items)[i] = items[i].tracks /\ TracksOf(items) \in Seq(Seq(Tracks))
    BY <2>2, TracksOfIs
  <2>8. [TracksOf(items) EXCEPT ![i] = items[i].tracks] = TracksOf(items)
    BY <2>7
  <2>9. first[i] = x
    BY <2>2, <2>5
  <2>10. QED
    BY <2>4, <2>5, <2>6, <2>8, <2>9, Zenon
<1> HIDE DEF items, first
<1>8. CASE c.current < i
  <2>1. RemoveAlbum(c, i) = ClampSelected([c EXCEPT !.items = items])
    BY <1>1, <1>2, <1>5, <1>8
  <2>2. [c EXCEPT !.items = items] = Made(items, c.current, c.selected)
    BY Updated, Zenon
  <2>3. d = ClampSelected(Made(items, c.current, c.selected))
    BY <2>1, <2>2, Zenon
  <2>4. Lists(d) = TracksOf(items) /\ d.current = c.current /\ d.items = items
    BY <1>6, <2>3, Zenon
  <2>5. \A j \in 1..(i - 1) : d.items[j] = c.items[j]
    BY <1>3, <2>4, Zenon
  <2>6. ~(c.current > i) /\ c.current # i
    BY <1>1, <1>2, <1>8
  <2>7. QED
    BY <1>4, <2>4, <2>5, <2>6, Zenon
<1>9. CASE c.current > i
  <2>1. RemoveAlbum(c, i) = ClampSelected([c EXCEPT !.items = items, !.current = c.current - 1])
    BY <1>1, <1>2, <1>5, <1>9
  <2>2. [c EXCEPT !.items = items, !.current = c.current - 1] = Made(items, c.current - 1, c.selected)
    BY Updated, Zenon
  <2>3. d = ClampSelected(Made(items, c.current - 1, c.selected))
    BY <2>1, <2>2, Zenon
  <2>4. Lists(d) = TracksOf(items) /\ d.current = c.current - 1 /\ d.items = items
    BY <1>6, <2>3, Zenon
  <2>5. items[c.current - 1] = c.items[c.current]
    <3>1. c.current - 1 \in i..(Len(c.items) - 1) /\ (c.current - 1) + 1 = c.current
      BY <1>1, <1>2, <1>9
    <3>2. QED
      BY <1>3, <3>1
  <2>6. QED
    BY <1>1, <1>2, <1>4, <1>9, <2>4, <2>5
<1>10. CASE c.current = i /\ i <= Len(items)
  <2>1. RemoveAlbum(c, i) = ClampSelected([c EXCEPT !.items = first])
    BY <1>1, <1>2, <1>5, <1>10
  <2>2. [c EXCEPT !.items = first] = Made(first, c.current, c.selected)
    BY Updated, Zenon
  <2>3. d = ClampSelected(Made(first, c.current, c.selected))
    BY <2>1, <2>2, Zenon
  <2>4. Lists(d) = TracksOf(first) /\ d.current = c.current /\ d.items = first
    BY <1>6, <2>3, Zenon
  <2>5. QED
    BY <1>1, <1>4, <1>7, <1>10, <2>4
<1>11. CASE c.current = i /\ ~(i <= Len(items))
  <2>1. RemoveAlbum(c, i) = ClampSelected([c EXCEPT !.items = items, !.current = i - 1])
    BY <1>1, <1>2, <1>5, <1>11
  <2>2. [c EXCEPT !.items = items, !.current = i - 1] = Made(items, i - 1, c.selected)
    BY Updated, Zenon
  <2>3. d = ClampSelected(Made(items, i - 1, c.selected))
    BY <2>1, <2>2, Zenon
  <2>4. Lists(d) = TracksOf(items)
    BY <1>6, <2>3, Zenon
  <2>5. QED
    BY <1>1, <1>3, <1>4, <1>11, <2>4
<1>12. QED
  BY <1>1, <1>2, <1>8, <1>9, <1>10, <1>11

(* The cursor behind, in and before the removed block. *)

Without(cur, from) == IF cur < from THEN cur ELSE cur - 1

LEMMA MovedToIs ==
  ASSUME NEW cur \in Nat, NEW from \in Nat, NEW to \in Nat, cur # from
  PROVE  MovedTo(cur, from, to) = IF Without(cur, from) < to THEN Without(cur, from) ELSE Without(cur, from) + 1
BY DEF MovedTo, Without

(* Around the place `to` where a list v is put, the list at e either way. *)
LEMMA MovedOwn ==
  ASSUME NEW from \in Nat, NEW to \in Nat
  PROVE  MovedTo(from, from, to) = to
BY DEF MovedTo

(* An element goes to another place, and the others make room. *)
LEMMA MovedElement ==
  ASSUME NEW S, NEW s \in Seq(S), NEW from \in 1..Len(s), NEW to \in 1..Len(s),
         NEW cur \in 1..Len(s)
  PROVE  InsertAt(RemoveAt(s, from), to, s[from])[MovedTo(cur, from, to)] = s[cur]
<1> DEFINE r == RemoveAt(s, from)
           x == s[from]
           t == InsertAt(r, to, x)
           e == Without(cur, from)
<1>1. from \in Nat /\ to \in Nat /\ cur \in Nat /\ Len(s) \in Nat
  BY LenProperties
<1>2. /\ r \in Seq(S) /\ Len(r) = Len(s) - 1
      /\ \A y \in 1..(from - 1) : r[y] = s[y]
      /\ \A y \in from..(Len(s) - 1) : r[y] = s[y + 1]
  BY Removed
<1>3. x \in S
  BY ElementOfSeq
<1> HIDE DEF r, x
<1>4. to \in 1..(Len(r) + 1)
  BY <1>1, <1>2
<1>5. /\ \A y \in 1..(to - 1) : t[y] = r[y]
      /\ t[to] = x
      /\ \A y \in to..Len(r) : t[y + 1] = r[y]
  <2>1. r \in Seq(S)
    BY <1>2
  <2>2. QED
    BY <1>3, <1>4, <2>1, Inserted
<1> HIDE DEF t
<1>6. CASE cur = from
  <2>1. MovedTo(cur, from, to) = to
    BY <1>1, <1>6, MovedOwn
  <2>2. t[MovedTo(cur, from, to)] = s[cur]
    BY <1>5, <1>6, <2>1, Zenon DEF x
  <2>3. QED
    BY <2>2 DEF t, r, x
<1>7. CASE cur # from
  <2>1. MovedTo(cur, from, to) = IF e < to THEN e ELSE e + 1
    BY <1>1, <1>7, MovedToIs
  <2>2. r[e] = s[cur] /\ e \in Nat /\ e >= 1 /\ e <= Len(s) - 1
    <3>1. CASE cur < from
      <4>1. e = cur
        BY <3>1 DEF Without
      <4>2. cur \in 1..(from - 1) /\ cur <= Len(s) - 1 /\ cur >= 1
        BY <1>1, <3>1
      <4>3. r[cur] = s[cur]
        BY <1>2, <4>2
      <4>4. QED
        BY <1>1, <4>1, <4>2, <4>3, Zenon
    <3>2. CASE ~(cur < from)
      <4>1. e = cur - 1
        BY <3>2 DEF Without
      <4>2. cur - 1 \in from..(Len(s) - 1) /\ (cur - 1) + 1 = cur /\ cur - 1 \in Nat /\ cur - 1 >= 1
            /\ cur - 1 <= Len(s) - 1
        BY <1>1, <1>7, <3>2
      <4>3. r[cur - 1] = s[cur]
        BY <1>2, <4>2, Zenon
      <4>4. QED
        BY <4>1, <4>2, <4>3, Zenon
    <3>3. QED
      BY <3>1, <3>2
  <2> HIDE DEF e
  <2>3. CASE e < to
    <3>1. e \in 1..(to - 1)
      BY <1>1, <2>2, <2>3
    <3>2. t[e] = s[cur]
      BY <1>5, <2>2, <3>1
    <3>3. t[MovedTo(cur, from, to)] = s[cur]
      BY <2>1, <2>3, <3>2, Zenon
    <3>4. QED
      BY <3>3 DEF t, r, x
  <2>4. CASE ~(e < to)
    <3>1. e \in to..Len(r)
      BY <1>1, <1>2, <2>2, <2>4
    <3>2. t[e + 1] = s[cur]
      BY <1>5, <2>2, <3>1
    <3>3. t[MovedTo(cur, from, to)] = s[cur]
      BY <2>1, <2>4, <3>2, Zenon
    <3>4. QED
      BY <3>3 DEF t, r, x
  <2>5. QED
    BY <2>3, <2>4
<1>8. QED
  BY <1>6, <1>7

(* move_item, album by album. *)
LEMMA MoveItemIs ==
  ASSUME NEW c, WellFormed(c), NEW from \in DOMAIN c.items, NEW to \in DOMAIN c.items,
         NEW d, d = MoveItem(c, from, to)
  PROVE  /\ Lists(d) = InsertAt(RemoveAt(Lists(c), from), to, Lists(c)[from])
         /\ c.current = 0 => d.current = 0
         /\ c.current # 0 => /\ d.current = MovedTo(c.current, from, to)
                             /\ d.items[d.current] = c.items[c.current]
<1> DEFINE x == c.items[from]
           r == RemoveAt(c.items, from)
           items == InsertAt(r, to, x)
           current == IF c.current = 0 THEN 0 ELSE MovedTo(c.current, from, to)
           selected == MovedTo(c.selected, from, to)
<1>1. /\ c.items \in Seq(Stocked) /\ Len(c.items) \in Nat /\ from \in 1..Len(c.items) /\ to \in 1..Len(c.items)
      /\ c.current \in Nat /\ c.current <= Len(c.items)
  BY Facts
<1>2. x \in Stocked
  BY <1>1, ElementOfSeq
<1>3. d = Made(items, current, selected)
  BY DEF MoveItem, Made
<1>4. r \in Seq(Stocked) /\ Len(r) = Len(c.items) - 1
  BY <1>1, Removed
<1>5. TracksOf(r) = RemoveAt(Lists(c), from)
  BY <1>1, TracksOfRemoved DEF Lists, TracksOf
<1>6. x.tracks = Lists(c)[from]
  BY DEF Lists
<1> HIDE DEF r, x, selected
<1>7. to \in 1..(Len(r) + 1)
  BY <1>1, <1>4
<1>8. TracksOf(items) = InsertAt(TracksOf(r), to, x.tracks)
  BY <1>2, <1>4, <1>7, TracksOfInserted
<1> HIDE DEF items, current
<1>9. Lists(d) = TracksOf(items)
  BY <1>3, TracksOfMade
<1>10. d.current = current /\ d.items = items
  BY <1>3 DEF Made
<1>11. c.current # 0 => items[MovedTo(c.current, from, to)] = c.items[c.current]
  <2>1. SUFFICES ASSUME c.current # 0 PROVE items[MovedTo(c.current, from, to)] = c.items[c.current]
    OBVIOUS
  <2>2. c.current \in 1..Len(c.items)
    BY <1>1, <2>1
  <2>3. InsertAt(RemoveAt(c.items, from), to, c.items[from])[MovedTo(c.current, from, to)] = c.items[c.current]
    BY <1>1, <2>2, MovedElement
  <2>4. QED
    BY <2>3 DEF items, r, x
<1>12. QED
  BY <1>5, <1>6, <1>8, <1>9, <1>10, <1>11, Zenon DEF current


(* What is current stays so where the item under the cursor is the same. *)
LEMMA SameItem ==
  ASSUME NEW c, WellFormed(c), NEW d, WellFormed(d),
         c.current = 0 => d.current = 0,
         c.current # 0 => d.current \in DOMAIN d.items /\ d.items[d.current] = c.items[c.current]
  PROVE  CurrentTrack(d) = CurrentTrack(c)
<1>1. CASE c.current = 0
  <2>1. c.current \notin DOMAIN c.items /\ d.current \notin DOMAIN d.items
    BY <1>1, Facts
  <2>2. QED
    BY <2>1 DEF CurrentTrack
<1>2. CASE c.current # 0
  <2>1. c.current \in DOMAIN c.items
    BY <1>2, Facts
  <2>2. QED
    BY <1>2, <2>1 DEF CurrentTrack
<1>3. QED
  BY <1>1, <1>2

LEMMA AddAlbumPlays ==
  ASSUME NEW c, WellFormed(c), NEW a \in Seq(Tracks), a # <<>>
  PROVE  /\ CurrentTrack(AddAlbum(c, a)) = CurrentTrack(c)
         /\ Plays(PlayAlbumNow(c, a))
<1> DEFINE items == Append(c.items, NewItem(a))
           n == Len(c.items) + 1
<1>1. /\ items \in Seq(Stocked) /\ Len(items) = n /\ n \in Nat /\ items[n] = NewItem(a)
      /\ \A j \in 1..Len(c.items) : items[j] = c.items[j]
  BY Facts, NewItemStocked
<1>2. AddAlbum(c, a) = [c EXCEPT !.items = items]
  BY DEF AddAlbum
<1> HIDE DEF items
<1>3. AddAlbum(c, a) = Made(items, c.current, c.selected)
  BY <1>2, Updated
<1>4. PlayAlbumNow(c, a) = Made(items, n, c.selected)
  BY <1>3 DEF PlayAlbumNow, Made
<1>5. WellFormed(AddAlbum(c, a)) /\ WellFormed(PlayAlbumNow(c, a))
  BY AddAlbumWellFormed
<1>6. CurrentTrack(AddAlbum(c, a)) = CurrentTrack(c)
  <2> DEFINE d == AddAlbum(c, a)
  <2>1. d.current = c.current /\ d.items = items
    BY <1>3 DEF Made
  <2>2. WellFormed(d) /\ DOMAIN d.items = 1..n
    BY <1>1, <1>5, <2>1, Facts
  <2> HIDE DEF d
  <2>3. c.current # 0 => d.current \in DOMAIN d.items /\ d.items[d.current] = c.items[c.current]
    BY <1>1, <2>1, <2>2, Facts
  <2>4. QED
    BY <2>1, <2>2, <2>3, SameItem DEF d
<1>7. Plays(PlayAlbumNow(c, a))
  <2> DEFINE d == PlayAlbumNow(c, a)
  <2>1. d.current = n /\ d.items = items
    BY <1>4 DEF Made
  <2>2. WellFormed(d) /\ n # 0
    BY <1>1, <1>5, Facts
  <2>3. d.items[n].at = 1 /\ d.items[n].tracks = a
    BY <1>1, <2>1 DEF NewItem
  <2>4. Len(a) \in Nat /\ 1 \in 1..Len(a)
    BY EmptySeq, LenProperties
  <2> HIDE DEF d
  <2>5. QED
    BY <2>1, <2>2, <2>3, <2>4, PlaysIs DEF d
<1>8. QED
  BY <1>6, <1>7

LEMMA MoveItemPlays ==
  ASSUME NEW c, WellFormed(c), NEW from \in DOMAIN c.items, NEW to \in DOMAIN c.items
  PROVE  /\ CurrentTrack(MoveItem(c, from, to)) = CurrentTrack(c)
         /\ c.current = 0 => MoveItem(c, from, to).current = 0
<1> DEFINE d == MoveItem(c, from, to)
<1>1. /\ WellFormed(d) /\ (c.current = 0 => d.current = 0)
      /\ c.current # 0 => /\ d.current = MovedTo(c.current, from, to)
                          /\ d.items[d.current] = c.items[c.current]
      /\ Len(d.items) = Len(c.items)
  BY MoveItemWellFormed, MoveItemIs, WellFormedIs, StockedKind, MoveItemMade
<1> HIDE DEF d
<1>2. from \in 1..Len(c.items) /\ to \in 1..Len(c.items) /\ Len(c.items) \in Nat /\ c.current \in Nat
      /\ c.current <= Len(c.items)
  BY Facts
<1>3. c.current # 0 => MovedTo(c.current, from, to) \in 1..Len(c.items)
  BY <1>2 DEF MovedTo
<1>4. DOMAIN d.items = 1..Len(c.items)
  BY <1>1, Facts
<1>5. CurrentTrack(d) = CurrentTrack(c)
  BY <1>1, <1>3, <1>4, SameItem
<1>6. QED
  BY <1>1, <1>5 DEF d

(* Removing another item changes nothing for the one under the cursor. *)
LEMMA RemoveAlbumPlays ==
  ASSUME NEW c, WellFormed(c), NEW i \in DOMAIN c.items, c.current # i
  PROVE  /\ CurrentTrack(RemoveAlbum(c, i)) = CurrentTrack(c)
         /\ c.current = 0 => RemoveAlbum(c, i).current = 0
<1> DEFINE d == RemoveAlbum(c, i)
<1>1. /\ WellFormed(d) /\ Len(d.items) = Len(c.items) - 1
      /\ c.current < i => d.current = c.current /\ \A j \in 1..(i - 1) : d.items[j] = c.items[j]
      /\ c.current > i => d.current = c.current - 1 /\ d.items[c.current - 1] = c.items[c.current]
  BY RemoveAlbumWellFormed, RemoveAlbumIs, RemoveAlbumMade, WellFormedIs, StockedKind
<1> HIDE DEF d
<1>2. i \in 1..Len(c.items) /\ Len(c.items) \in Nat /\ c.current \in Nat /\ c.current <= Len(c.items)
  BY Facts
<1>3. DOMAIN d.items = 1..(Len(c.items) - 1)
  BY <1>1, Facts
<1>4. CASE c.current < i
  <2>1. c.current = 0 => d.current = 0
    BY <1>1, <1>4
  <2>2. c.current # 0 => d.current \in DOMAIN d.items /\ d.items[d.current] = c.items[c.current]
    BY <1>1, <1>2, <1>3, <1>4
  <2>3. QED
    BY <1>1, <2>1, <2>2, SameItem DEF d
<1>5. CASE c.current > i
  <2>1. c.current # 0
    BY <1>2, <1>5
  <2>2. d.current \in DOMAIN d.items /\ d.items[d.current] = c.items[c.current]
    BY <1>1, <1>2, <1>3, <1>5
  <2>3. QED
    BY <1>1, <2>1, <2>2, SameItem DEF d
<1>6. QED
  BY <1>2, <1>4, <1>5
=============================================================================
