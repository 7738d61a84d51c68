------------------------- MODULE PluginRackProofs -------------------------
(***************************************************************************)
(* Proofs about the plugin rack (PluginRack), for any plugins, tracks,     *)
(* channel counts and edits.  In this order:                               *)
(*   - recursion along a rack (Iterated), which stands for induction;      *)
(*   - a chain is a path from Input to Output (LinearPath, PathLinear);    *)
(*   - what edits keep of any graph (Sound), what makes a chain valid as a *)
(*     routing (UpdatedSound: counts agree, wires are straight), and what  *)
(*     may be played (Routed);                                             *)
(*   - the edits of a rack on its path: one plugin out, two exchanged, and *)
(*     series of those;                                                    *)
(*   - the invariant RackInv and its steps;                                *)
(*   - what refuses a track: graphs that agree on it (Kin), what the       *)
(*     dialog lists (DialogAsks), what a load leaves (Settled);            *)
(*   - the rack as a list: one plugin in (AddedIs), some out (Thinned),    *)
(*     one moved (Slid), and the steps seen as those of RackList;          *)
(*   - the theorems.                                                       *)
(***************************************************************************)
EXTENDS PluginRack, FiniteSetTheorems, SequenceTheorems, WellFoundedInduction, TLAPS

-----------------------------------------------------------------------------
(* A set of numbers has a least member. *)
LEMMA Least ==
  ASSUME NEW S, S \subseteq Nat, S # {}
  PROVE  \E k \in S : \A i \in S : k <= i
<1> DEFINE R == OpToRel(<, Nat)
<1>1. IsWellFoundedOn(R, Nat)
  BY NatLessThanWellFounded
<1>2. ASSUME NEW i \in Nat, NEW k \in Nat PROVE <<i, k>> \in R <=> i < k
  <2>1. <<i, k>>[1] < <<i, k>>[2] <=> i < k
    OBVIOUS
  <2>2. QED
    BY <2>1, Zenon DEF OpToRel
<1> HIDE DEF R
<1>3. PICK k \in S : \A i \in S : <<i, k>> \notin R
  BY <1>1, WFMin
<1>4. ASSUME NEW i \in S PROVE k <= i
  <2>1. i \in Nat /\ k \in Nat /\ ~(i < k)
    BY <1>2, <1>3
  <2>2. QED
    BY <2>1
<1>5. QED
  BY <1>4

(* Counting up: a set of numbers that starts at m and holds the successor  *)
(* of each of its members goes on to n.                                    *)
LEMMA CountUp ==
  ASSUME NEW m \in Nat, NEW n \in Nat, NEW T, m \in T, \A k \in m..n - 1 : k \in T => k + 1 \in T
  PROVE  \A k \in m..n : k \in T
<1> DEFINE U == {k \in Nat : k \in m..n /\ k \notin T}
<1> SUFFICES ASSUME U # {} PROVE FALSE
  OBVIOUS
<1>1. U \subseteq Nat
  OBVIOUS
<1>2. PICK k \in U : \A i \in U : k <= i
  <2> HIDE DEF U
  <2>1. QED
    BY <1>1, Least
<1>3. k \in m + 1..n /\ k \notin T /\ k - 1 \in Nat /\ k - 1 \in m..n - 1 /\ ~(k <= k - 1)
  BY <1>2
<1>4. k - 1 \notin U
  BY <1>2, <1>3
<1>5. k - 1 \in T
  BY <1>3, <1>4
<1>6. (k - 1) + 1 \in T /\ (k - 1) + 1 = k
  BY <1>3, <1>5
<1>7. QED
  BY <1>3, <1>6

(* The recursion f[m] = a, f[k] = F[<<k, f[k - 1]>>] defines a function up *)
(* to n, and whatever each step keeps holds of all its values.             *)
Recursion(f, m, n, S, a, F) ==
  f \in [m..n -> S] /\ \A k \in m..n : f[k] = IF k = m THEN a ELSE F[<<k, f[k - 1]>>]

LEMMA Iterated ==
  ASSUME NEW m \in Nat, NEW n \in Nat, NEW S, NEW a \in S, NEW F, NEW R \in SUBSET (Nat \X S),
         <<m, a>> \in R,
         \A k \in m + 1..n, x \in S : <<k - 1, x>> \in R => <<k, F[<<k, x>>]>> \in R
  PROVE  \E f : Recursion(f, m, n, S, a, F)
<1> DEFINE Upto(f, j) == /\ f \in [m..j -> S] /\ <<j, f[j]>> \in R
                         /\ \A k \in m..j : f[k] = IF k = m THEN a ELSE F[<<k, f[k - 1]>>]
           T == {j \in Nat : \E f : Upto(f, j)}
<1>1. m \in T
  <2> DEFINE f == [k \in m..m |-> a]
  <2>1. Upto(f, m)
    OBVIOUS
  <2>2. QED
    BY <2>1
<1>2. ASSUME NEW j \in m..n - 1, j \in T PROVE j + 1 \in T
  <2>1. PICK f : Upto(f, j)
    BY <1>2
  <2> DEFINE x == F[<<j + 1, f[j]>>]
             g == [k \in m..j + 1 |-> IF k = j + 1 THEN x ELSE f[k]]
  <2>2. j \in Nat /\ j \in m..j /\ f[j] \in S /\ j + 1 \in m + 1..n /\ (j + 1) - 1 = j
    BY <2>1
  <2>3. <<j + 1, x>> \in R /\ x \in S
    <3>1. <<j + 1, x>> \in R
      BY <2>1, <2>2
    <3> HIDE DEF x
    <3>2. QED
      BY <3>1
  <2>4. g \in [m..j + 1 -> S] /\ g[j + 1] = x
    <3> HIDE DEF x
    <3>1. QED
      BY <2>1, <2>2, <2>3
  <2>5. ASSUME NEW k \in m..j + 1 PROVE g[k] = IF k = m THEN a ELSE F[<<k, g[k - 1]>>]
    <3>1. CASE k = j + 1
      <4>1. g[k] = x /\ k # m /\ k - 1 = j /\ g[k - 1] = f[j]
        <5> HIDE DEF x
        <5>1. QED
          BY <2>2, <3>1
      <4>2. QED
        BY <3>1, <4>1
    <3>2. CASE k # j + 1
      <4> HIDE DEF x
      <4>1. k \in m..j /\ g[k] = f[k] /\ (k # m => k - 1 \in m..j /\ g[k - 1] = f[k - 1])
        BY <2>2, <3>2
      <4> HIDE DEF g
      <4>2. QED
        BY <2>1, <4>1
    <3>3. QED
      BY <3>1, <3>2
  <2> HIDE DEF g
  <2>6. Upto(g, j + 1)
    BY <2>3, <2>4, <2>5
  <2>7. QED
    BY <2>2, <2>6
<1> HIDE DEF T
<1>3. \A k \in m..n : k \in T
  BY <1>1, <1>2, CountUp
<1>4. CASE m <= n
  <2>1. n \in T
    BY <1>3, <1>4
  <2>2. PICK f : Upto(f, n)
    BY <2>1 DEF T
  <2>3. QED
    BY <2>2 DEF Recursion
<1>5. CASE ~(m <= n)
  <2> DEFINE f == [k \in m..n |-> a]
  <2>1. f \in [m..n -> S] /\ m..n = {}
    BY <1>5
  <2>2. QED
    BY <2>1 DEF Recursion
<1>6. QED
  BY <1>4, <1>5

LEMMA Recursive ==
  ASSUME NEW n \in Nat, NEW S, NEW a \in S, NEW F \in [Nat \X S -> S]
  PROVE  (\E f : Recursion(f, 0, n, S, a, F)) /\ (\E f : Recursion(f, 1, n, S, a, F))
<1> DEFINE R == Nat \X S
<1>1. ASSUME NEW m \in Nat PROVE \E f : Recursion(f, m, n, S, a, F)
  <2>1. R \in SUBSET (Nat \X S) /\ <<m, a>> \in R
    OBVIOUS
  <2>2. ASSUME NEW k \in m + 1..n, NEW x \in S PROVE <<k, F[<<k, x>>]>> \in R
    <3>1. k \in Nat /\ <<k, x>> \in Nat \X S
      OBVIOUS
    <3>2. QED
      BY <3>1
  <2> HIDE DEF R
  <2>3. QED
    BY <2>1, <2>2, Iterated
<1>2. 0 \in Nat /\ 1 \in Nat
  OBVIOUS
<1>3. QED
  BY <1>1, <1>2

-----------------------------------------------------------------------------
(* Graphs. *)

(* What the edits keep beyond the type: nothing leaves the Output, a       *)
(* plugin that passes its channels on makes as many as it takes, and the   *)
(* replay gain is one.                                                     *)
Steady(g) ==
  /\ \A w \in g.wires : w[1] # "Output"
  /\ \A id \in DOMAIN g.nodes : g.nodes[id].kind = "pass" => g.nodes[id].ins = g.nodes[id].outs
  /\ "ReplayGain" \in DOMAIN g.nodes => g.nodes["ReplayGain"].kind = "pass"
Sound(g) == Graph(g) /\ Steady(g)

LEMMA PluginsFinite == IsFiniteSet(Plugins \cup Special)
<1>1. IsFiniteSet({"InputMonitor"}) /\ IsFiniteSet({"ReplayGain"}) /\ IsFiniteSet({"Matrix"})
      /\ IsFiniteSet({"OutputMonitor"}) /\ IsFiniteSet({"Input"}) /\ IsFiniteSet({"Output"})
  BY FS_Singleton
<1>2. IsFiniteSet({"InputMonitor"} \cup {"ReplayGain"})
  BY <1>1, FS_Union
<1>3. IsFiniteSet({"InputMonitor"} \cup {"ReplayGain"} \cup {"Matrix"})
  BY <1>1, <1>2, FS_Union
<1>4. IsFiniteSet({"InputMonitor"} \cup {"ReplayGain"} \cup {"Matrix"} \cup {"OutputMonitor"})
  BY <1>1, <1>3, FS_Union
<1>5. Permanent = {"InputMonitor"} \cup {"ReplayGain"} \cup {"Matrix"} \cup {"OutputMonitor"}
      /\ Special = {"Input"} \cup {"Output"}
  BY DEF Permanent, Special
<1>6. IsFiniteSet(Special)
  BY <1>1, <1>5, FS_Union
<1>7. IsFiniteSet(Plugins)
  BY <1>4, <1>5, PluginGraphAssumption, FS_Union DEF Plugins
<1>8. QED
  BY <1>6, <1>7, FS_Union

LEMMA IdsFacts ==
  ASSUME NEW g, Graph(g)
  PROVE  /\ IsFiniteSet(Ids(g)) /\ Cardinality(Ids(g)) \in Nat
         /\ "Input" \in Ids(g) /\ "Output" \in Ids(g) /\ "Input" # "Output"
         /\ Nothing \notin Ids(g)
         /\ DOMAIN g.nodes \subseteq Plugins
         /\ "Input" \notin DOMAIN g.nodes /\ "Output" \notin DOMAIN g.nodes
         /\ \A id \in Ids(g) : id \in DOMAIN g.nodes <=> id # "Input" /\ id # "Output"
<1>1. DOMAIN g.nodes \subseteq Plugins
  BY DEF Graph
<1>2. Ids(g) \subseteq Plugins \cup Special
  BY <1>1 DEF Ids
<1>3. IsFiniteSet(Ids(g)) /\ Cardinality(Ids(g)) \in Nat
  BY <1>2, PluginsFinite, FS_Subset, FS_CardinalityType
<1>4. "Input" \notin Plugins /\ "Output" \notin Plugins /\ Nothing \notin Plugins
  BY PluginGraphAssumption DEF Plugins, Permanent, Special, Nothing
<1>5. QED
  BY <1>1, <1>3, <1>4 DEF Ids, Special, Nothing

LEMMA LinksIn ==
  ASSUME NEW g, Graph(g)
  PROVE  /\ IsFiniteSet(Links(g))
         /\ \A x, y : <<x, y>> \in Links(g) => x \in Ids(g) /\ y \in Ids(g)
         /\ \A l \in Links(g) : l = <<l[1], l[2]>>
<1>1. Links(g) \subseteq Ids(g) \X Ids(g)
  BY DEF Links, Graph
<1>2. IsFiniteSet(Ids(g) \X Ids(g))
  BY IdsFacts, FS_Product
<1>3. QED
  BY <1>1, <1>2, FS_Subset

LEMMA SuccessorIs ==
  ASSUME NEW g, Graph(g), NEW x
  PROVE  /\ Successor(g, x) \in Ids(g) \cup {Nothing}
         /\ Successor(g, x) # Nothing => <<x, Successor(g, x)>> \in Links(g)
         /\ \A y : <<x, y>> \in Links(g) => <<x, Successor(g, x)>> \in Links(g)
<1> DEFINE w == CHOOSE w \in g.wires : w[1] = x
<1>1. ASSUME NEW v \in g.wires, v[1] = x
      PROVE  Successor(g, x) = w[3] /\ w \in g.wires /\ w[1] = x
  BY <1>1 DEF Successor
<1>2. (~\E v \in g.wires : v[1] = x) => Successor(g, x) = Nothing
  BY DEF Successor
<1> HIDE DEF w
<1>3. ASSUME NEW v \in g.wires, v[1] = x
      PROVE  Successor(g, x) \in Ids(g) /\ <<x, Successor(g, x)>> \in Links(g)
  <2>1. w[3] \in Ids(g) /\ <<w[1], w[3]>> \in Links(g)
    BY <1>1, <1>3 DEF Graph, Links
  <2>2. QED
    BY <1>1, <1>3, <2>1
<1>4. ASSUME NEW y, <<x, y>> \in Links(g) PROVE \E v \in g.wires : v[1] = x
  BY <1>4 DEF Links
<1>5. QED
  BY <1>2, <1>3, <1>4

LEMMA SuccessorOnly ==
  ASSUME NEW g, Graph(g), NEW x, NEW y, <<x, y>> \in Links(g), \A z : <<x, z>> \in Links(g) => z = y
  PROVE  Successor(g, x) = y
BY SuccessorIs

(* The counts of try_linear_order: as many links as nodes they leave (or   *)
(* enter) if each node has one at most.                                    *)
LEMMA CountsMeanOne ==
  ASSUME NEW g, Graph(g), NEW side \in {1, 2}
  PROVE  Cardinality({l[side] : l \in Links(g)}) = Cardinality(Links(g))
           <=> \A l, m \in Links(g) : l[side] = m[side] => l = m
<1> DEFINE L == Links(g)
           T == {l[side] : l \in L}
           f == [l \in L |-> l[side]]
<1>1. IsFiniteSet(L)
  BY LinksIn
<1> HIDE DEF L
<1>2. f \in Surjection(L, T)
  BY DEF Surjection
<1>3. Cardinality(T) = Cardinality(L) <=> f \in Injection(L, T)
  <2> HIDE DEF f, T
  <2>1. QED
    BY <1>1, <1>2, FS_Surjection
<1>4. f \in Injection(L, T) <=> \A l, m \in L : f[l] = f[m] => l = m
  <2> HIDE DEF f, T
  <2>1. f \in [L -> T]
    BY <1>2 DEF Surjection
  <2>2. QED
    BY <2>1 DEF Injection, IsInjective
<1>5. \A l \in L : f[l] = l[side]
  OBVIOUS
<1> HIDE DEF f
<1>6. Cardinality(T) = Cardinality(L) <=> \A l, m \in L : l[side] = m[side] => l = m
  <2> HIDE DEF T
  <2>1. QED
    BY <1>3, <1>4, <1>5
<1>7. QED
  BY <1>6, Zenon DEF L

-----------------------------------------------------------------------------
(* A linear graph is a path from Input to Output. *)

Path(g, s) ==
  /\ s \in Seq(Ids(g)) /\ Len(s) = Cardinality(Ids(g)) /\ Len(s) >= 2
  /\ s[1] = "Input" /\ s[Len(s)] = "Output"
  /\ \A j, k \in 1..Len(s) : s[j] = s[k] => j = k
  /\ \A id \in Ids(g) : \E k \in 1..Len(s) : s[k] = id
  /\ \A x, y : <<x, y>> \in Links(g) <=> \E k \in 1..Len(s) - 1 : x = s[k] /\ y = s[k + 1]

Walks(g, f) ==
  f = [k \in 1..Cardinality(Ids(g)) |->
        IF k = 1 THEN <<"Input">> ELSE Append(f[k - 1], Successor(g, Last(f[k - 1])))]

LEMMA WalkIs ==
  ASSUME NEW g, Graph(g)
  PROVE  \E f : Walks(g, f) /\ LinearOrder(g) = f[Cardinality(Ids(g))]
<1> DEFINE n == Cardinality(Ids(g))
           S == Seq(Ids(g) \cup {Nothing})
           F == [x \in Nat \X S |-> Append(x[2], Successor(g, Last(x[2])))]
<1>1. <<"Input">> \in S /\ n \in Nat
  BY IdsFacts
<1>2. F \in [Nat \X S -> S]
  <2>0. ASSUME NEW s \in S, NEW y \in Ids(g) \cup {Nothing} PROVE Append(s, y) \in S
    OBVIOUS
  <2>1. ASSUME NEW x \in Nat \X S PROVE Append(x[2], Successor(g, Last(x[2]))) \in S
    <3>1. x[2] \in S /\ Successor(g, Last(x[2])) \in Ids(g) \cup {Nothing}
      BY SuccessorIs
    <3> HIDE DEF S
    <3>2. QED
      BY <2>0, <3>1
  <2>2. QED
    BY <2>1
<1>3. \A k \in Nat, s \in S : F[<<k, s>>] = Append(s, Successor(g, Last(s)))
  <2> HIDE DEF S
  <2>1. ASSUME NEW k \in Nat, NEW s \in S PROVE F[<<k, s>>] = Append(<<k, s>>[2], Successor(g, Last(<<k, s>>[2])))
    BY <<k, s>> \in Nat \X S
  <2>2. QED
    BY <2>1
<1> HIDE DEF n, S, F
<1> DEFINE first == <<"Input">>
<1> HIDE DEF first
<1>4. PICK f : Recursion(f, 1, n, S, first, F)
  BY <1>1, <1>2, Recursive DEF first
<1>5. ASSUME NEW k \in 1..n
      PROVE  f[k] = IF k = 1 THEN <<"Input">> ELSE Append(f[k - 1], Successor(g, Last(f[k - 1])))
  <2>1. CASE k = 1
    BY <1>4, <2>1 DEF first, Recursion
  <2>2. CASE k # 1
    <3>1. k \in Nat /\ k - 1 \in 1..n
      BY <1>1, <2>2
    <3>2. F[<<k, f[k - 1]>>] = Append(f[k - 1], Successor(g, Last(f[k - 1])))
      BY <1>3, <1>4, <3>1 DEF Recursion
    <3>3. QED
      BY <1>4, <2>2, <3>2 DEF Recursion
  <2>3. QED
    BY <2>1, <2>2
<1>6. Walks(g, f)
  <2>1. f = [k \in 1..n |-> f[k]]
    BY <1>4 DEF Recursion
  <2>2. f = [k \in 1..n |-> IF k = 1 THEN <<"Input">> ELSE Append(f[k - 1], Successor(g, Last(f[k - 1])))]
    BY <1>5, <2>1
  <2>3. QED
    BY <2>2 DEF Walks, n
<1> DEFINE h == CHOOSE h : Walks(g, h)
<1>7. Walks(g, h)
  BY <1>6
<1>8. LinearOrder(g) = h[Cardinality(Ids(g))]
  BY DEF LinearOrder, Walks
<1>9. QED
  BY <1>7, <1>8

(* try_linear_order follows the successors from Input, and what does is it. *)
Follows(g, s) ==
  /\ s \in Seq(Ids(g) \cup {Nothing}) /\ Len(s) = Cardinality(Ids(g))
  /\ s[1] = "Input"
  /\ \A k \in 1..Len(s) - 1 : s[k + 1] = Successor(g, s[k])

LEMMA OrderFollows ==
  ASSUME NEW g, Graph(g)
  PROVE  Follows(g, LinearOrder(g))
<1> DEFINE n == Cardinality(Ids(g))
           S == Ids(g) \cup {Nothing}
<1>1. PICK f : Walks(g, f) /\ LinearOrder(g) = f[n]
  BY WalkIs
<1>2. n \in Nat /\ n >= 1 /\ "Input" \in S
  <2>1. n # 0
    BY IdsFacts, FS_EmptySet
  <2>2. QED
    BY <2>1, IdsFacts
<1>3. /\ f[1] = <<"Input">>
      /\ \A k \in 2..n : f[k] = Append(f[k - 1], Successor(g, Last(f[k - 1])))
  <2> HIDE DEF n
  <2>1. \A k \in 1..n : f[k] = IF k = 1 THEN <<"Input">> ELSE Append(f[k - 1], Successor(g, Last(f[k - 1])))
    BY <1>1, Zenon DEF Walks, n
  <2>2. 1 \in 1..n /\ \A k \in 2..n : k \in 1..n /\ k # 1
    BY <1>2
  <2>3. QED
    BY <2>1, <2>2
<1> DEFINE Begun(k) == /\ f[k] \in Seq(S) /\ Len(f[k]) = k /\ f[k][1] = "Input"
                       /\ \A j \in 1..k - 1 : f[k][j + 1] = Successor(g, f[k][j])
           T == {k \in Nat : Begun(k)}
<1> HIDE DEF n, S
<1>4. 1 \in T
  <2> DEFINE s == <<"Input">>
  <2>1. s \in Seq(S) /\ Len(s) = 1 /\ s[1] = "Input" /\ 1..1 - 1 = {}
    BY <1>2
  <2> HIDE DEF s
  <2>2. f[1] = s
    BY <1>3 DEF s
  <2>3. QED
    BY <2>1, <2>2
<1>5. ASSUME NEW k \in 1..n - 1, k \in T PROVE k + 1 \in T
  <2> DEFINE s == f[k]
             e == Successor(g, Last(s))
             t == Append(s, e)
  <2>1. k \in Nat /\ k >= 1 /\ k + 1 \in 2..n /\ (k + 1) - 1 = k
    BY <1>2
  <2>2. s \in Seq(S) /\ Len(s) = k /\ s[1] = "Input" /\ \A j \in 1..k - 1 : s[j + 1] = Successor(g, s[j])
    BY <1>5
  <2>3. e \in S /\ Last(s) = s[k]
    BY <2>2, SuccessorIs DEF S, Last
  <2>4. f[k + 1] = t
    BY <1>3, <2>1
  <2> HIDE DEF s, e
  <2>5. t \in Seq(S) /\ Len(t) = k + 1 /\ t[k + 1] = e /\ \A j \in 1..k : t[j] = s[j]
    BY <2>1, <2>2, <2>3
  <2> HIDE DEF t
  <2>6. ASSUME NEW j \in 1..(k + 1) - 1 PROVE t[j + 1] = Successor(g, t[j])
    <3>1. CASE j = k
      <4>1. t[j + 1] = e /\ t[j] = s[k]
        BY <2>1, <2>5, <3>1
      <4>2. QED
        BY <2>3, <4>1 DEF e
    <3>2. CASE j # k
      <4>1. j \in 1..k - 1 /\ j \in 1..k /\ j + 1 \in 1..k
        BY <2>1, <3>2
      <4>2. QED
        BY <2>2, <2>5, <4>1
    <3>3. QED
      BY <3>1, <3>2
  <2>7. Begun(k + 1)
    <3>1. 1 \in 1..k
      BY <2>1
    <3>2. QED
      BY <2>2, <2>4, <2>5, <2>6, <3>1
  <2>8. QED
    BY <2>1, <2>7
<1> HIDE DEF T
<1>6. n \in T
  <2>1. \A k \in 1..n : k \in T
    BY <1>2, <1>4, <1>5, CountUp, 1 \in Nat
  <2>2. QED
    BY <1>2, <2>1
<1>7. Begun(n)
  BY <1>6 DEF T
<1>8. QED
  BY <1>1, <1>7 DEF Follows, n, S

LEMMA FollowsOnly ==
  ASSUME NEW g, Graph(g), NEW s, NEW t, Follows(g, s), Follows(g, t)
  PROVE  s = t
<1> DEFINE n == Cardinality(Ids(g))
           T == {k \in Nat : s[k] = t[k]}
           S == Ids(g) \cup {Nothing}
<1>1. n \in Nat /\ s \in Seq(S) /\ t \in Seq(S) /\ Len(s) = n /\ Len(t) = n
  BY IdsFacts DEF Follows
<1>2. s[1] = t[1] /\ \A k \in 1..n - 1 : s[k + 1] = Successor(g, s[k]) /\ t[k + 1] = Successor(g, t[k])
  BY DEF Follows
<1> HIDE DEF n, S
<1>3. 1 \in T
  BY <1>2
<1>4. \A k \in 1..n - 1 : k \in T => k + 1 \in T
  BY <1>1, <1>2
<1> HIDE DEF T
<1>5. \A k \in 1..n : k \in T
  BY <1>1, <1>3, <1>4, CountUp, 1 \in Nat
<1>6. \A k \in 1..n : s[k] = t[k]
  BY <1>5 DEF T
<1>7. QED
  BY <1>1, <1>6

LEMMA LinearPath ==
  ASSUME NEW g, Sound(g), Linear(g)
  PROVE  Path(g, LinearOrder(g))
<1> DEFINE s == LinearOrder(g)
           n == Cardinality(Ids(g))
           I == Ids(g)
<1>0. Graph(g) /\ Follows(g, s)
  BY OrderFollows DEF Sound
<1>1. /\ n \in Nat /\ s \in Seq(I \cup {Nothing}) /\ Len(s) = n /\ s[1] = "Input"
      /\ \A k \in 1..n - 1 : s[k + 1] = Successor(g, s[k])
  BY <1>0, IdsFacts DEF Follows
<1>2. s[n] = "Output" /\ \A k \in 1..n - 1 : s[k] # "Output"
  BY <1>1 DEF Linear, Last
<1>3. \A x, y, z : <<x, y>> \in Links(g) /\ <<x, z>> \in Links(g) => y = z
  <2> DEFINE L == Links(g)
  <2>1. Cardinality({l[1] : l \in L}) = Cardinality(L)
    BY 1 \in {1, 2} DEF Linear
  <2>2. \A l, m \in L : l[1] = m[1] => l = m
    BY <1>0, <2>1, CountsMeanOne, 1 \in {1, 2}
  <2>3. ASSUME NEW x, NEW y, NEW z, <<x, y>> \in L, <<x, z>> \in L PROVE y = z
    <3>1. <<x, y>>[1] = <<x, z>>[1]
      OBVIOUS
    <3>2. <<x, y>> = <<x, z>>
      BY <2>2, <2>3, <3>1
    <3>3. QED
      BY <3>2
  <2>4. QED
    BY <2>3
<1>4. n >= 2
  <2>1. n # 0
    BY <1>0, IdsFacts, FS_EmptySet
  <2>2. n # 1
    BY <1>1, <1>2
  <2>3. QED
    BY <1>1, <2>1, <2>2
<1> HIDE DEF s, n, I
<1>5. Nothing \notin I /\ Successor(g, Nothing) = Nothing
  <2>1. Nothing \notin I
    BY <1>0, IdsFacts DEF I
  <2>2. QED
    BY <1>0, <2>1, SuccessorIs, LinksIn DEF I
<1>6. ASSUME NEW k \in 1..n PROVE s[k] \in I
  <2>1. SUFFICES ASSUME s[k] = Nothing PROVE FALSE
    BY <1>1
  <2> DEFINE T == {j \in Nat : s[j] = Nothing}
  <2>2. k \in T
    BY <1>1, <2>1
  <2>3. \A j \in k..n - 1 : j \in T => j + 1 \in T
    BY <1>1, <1>5
  <2> HIDE DEF T
  <2>4. \A j \in k..n : j \in T
    <3>1. k \in Nat
      BY <1>1
    <3>2. QED
      BY <1>1, <2>2, <2>3, <3>1, CountUp
  <2>5. n \in T
    BY <1>1, <2>4
  <2>6. QED
    BY <1>2, <2>5 DEF T, Nothing
<1>7. ASSUME NEW i \in 1..n, NEW j \in 1..n, s[i] = s[j], i < j PROVE FALSE
  <2> DEFINE T == {m \in Nat : s[i + m] = s[j + m]}
  <2>1. 0 \in T
    BY <1>1, <1>7
  <2>2. ASSUME NEW m \in 0..(n - j) - 1, m \in T PROVE m + 1 \in T
    <3>1. i + m \in 1..n - 1 /\ j + m \in 1..n - 1 /\ (i + m) + 1 = i + (m + 1) /\ (j + m) + 1 = j + (m + 1) /\ m \in Nat
      BY <1>1, <1>7
    <3>2. s[(i + m) + 1] = Successor(g, s[i + m]) /\ s[(j + m) + 1] = Successor(g, s[j + m])
      BY <1>1, <3>1
    <3>3. QED
      BY <2>2, <3>1, <3>2
  <2> HIDE DEF T
  <2>3. n - j \in Nat /\ n - j \in 0..n - j /\ i + (n - j) \in 1..n - 1 /\ j + (n - j) = n
    BY <1>1, <1>7
  <2>4. n - j \in T
    <3>1. \A m \in 0..n - j : m \in T
      BY <2>1, <2>2, <2>3, CountUp, 0 \in Nat
    <3>2. QED
      BY <2>3, <3>1
  <2>5. s[i + (n - j)] = s[j + (n - j)]
    BY <2>4 DEF T
  <2>6. QED
    BY <1>2, <2>3, <2>5
<1>8. \A i, j \in 1..n : s[i] = s[j] => i = j
  BY <1>1, <1>7
<1>9. s \in Seq(I)
  <2>1. s = [k \in 1..n |-> s[k]]
    BY <1>1
  <2>2. QED
    BY <1>1, <1>6, <2>1
<1>10. \A id \in I : \E k \in 1..n : s[k] = id
  <2>1. s \in [1..n -> I]
    BY <1>1, <1>9
  <2>2. s \in Injection(1..n, I)
    BY <1>8, <2>1 DEF Injection, IsInjective
  <2>3. IsFiniteSet(I) /\ Cardinality(I) = n
    BY <1>0, IdsFacts DEF I, n
  <2>4. Cardinality(1..n) = n
    <3>1. 1 \in Int /\ n \in Int
      BY <1>1
    <3>2. Cardinality(1..n) = IF 1 > n THEN 0 ELSE n - 1 + 1
      BY <3>1, FS_Interval
    <3>3. QED
      BY <1>1, <1>4, <3>2
  <2>5. s \in Surjection(1..n, I)
    BY <2>2, <2>3, <2>4, FS_Injection
  <2>6. QED
    BY <2>5 DEF Surjection
<1>11. ASSUME NEW x, NEW y, <<x, y>> \in Links(g) PROVE \E k \in 1..n - 1 : x = s[k] /\ y = s[k + 1]
  <2>1. x \in I /\ x # "Output"
    <3>1. PICK w \in g.wires : <<x, y>> = <<w[1], w[3]>>
      BY <1>11 DEF Links
    <3>2. QED
      BY <1>0, <1>11, <3>1, LinksIn DEF I, Sound, Steady
  <2>2. PICK k \in 1..n : s[k] = x
    BY <1>10, <2>1
  <2>3. k \in 1..n - 1
    BY <1>1, <1>2, <2>1, <2>2
  <2>4. y = Successor(g, x)
    BY <1>0, <1>3, <1>11, SuccessorIs
  <2>5. QED
    BY <1>1, <2>2, <2>3, <2>4
<1>12. ASSUME NEW k \in 1..n - 1 PROVE <<s[k], s[k + 1]>> \in Links(g)
  <2>1. s[k + 1] = Successor(g, s[k]) /\ s[k + 1] # Nothing
    BY <1>1, <1>5, <1>6, k + 1 \in 1..n
  <2>2. QED
    BY <1>0, <2>1, SuccessorIs
<1>13. QED
  <2>1. \A x, y : <<x, y>> \in Links(g) <=> \E k \in 1..n - 1 : x = s[k] /\ y = s[k + 1]
    <3>1. ASSUME NEW k \in 1..n - 1, NEW x, NEW y, x = s[k], y = s[k + 1] PROVE <<x, y>> \in Links(g)
      BY <1>12, <3>1
    <3>2. ASSUME NEW x, NEW y PROVE <<x, y>> \in Links(g) <=> \E k \in 1..n - 1 : x = s[k] /\ y = s[k + 1]
      <4>1. CASE <<x, y>> \in Links(g)
        BY <1>11, <4>1
      <4>2. CASE \E k \in 1..n - 1 : x = s[k] /\ y = s[k + 1]
        BY <3>1, <4>2
      <4>3. QED
        BY <4>1, <4>2
    <3>3. QED
      BY <3>2
  <2>2. Path(g, s)
    BY <1>1, <1>2, <1>4, <1>8, <1>9, <1>10, <2>1 DEF Path, I, n
  <2>3. QED
    BY <2>2 DEF s

LEMMA PathLinear ==
  ASSUME NEW g, Graph(g), NEW s, Path(g, s)
  PROVE  Linear(g) /\ LinearOrder(g) = s
<1> DEFINE n == Cardinality(Ids(g))
           L == Links(g)
<1>1. /\ n \in Nat /\ n >= 2 /\ s \in Seq(Ids(g)) /\ Len(s) = n /\ s[1] = "Input" /\ s[n] = "Output"
      /\ \A j, k \in 1..n : s[j] = s[k] => j = k
      /\ \A x, y : <<x, y>> \in L <=> \E k \in 1..n - 1 : x = s[k] /\ y = s[k + 1]
  BY IdsFacts DEF Path
<1>2. \A l \in L : l = <<l[1], l[2]>>
  BY LinksIn
<1> HIDE DEF n, L
<1>3. ASSUME NEW l \in L, NEW m \in L, l[1] = m[1] \/ l[2] = m[2] PROVE l = m
  <2>0. <<l[1], l[2]>> \in L /\ <<m[1], m[2]>> \in L
    BY <1>2, Zenon
  <2>1. PICK j \in 1..n - 1 : l[1] = s[j] /\ l[2] = s[j + 1]
    BY <1>1, <2>0
  <2>2. PICK k \in 1..n - 1 : m[1] = s[k] /\ m[2] = s[k + 1]
    BY <1>1, <2>0
  <2>3. j = k
    BY <1>1, <1>3, <2>1, <2>2
  <2>4. QED
    BY <1>2, <2>1, <2>2, <2>3
<1>4. ASSUME NEW k \in 1..n - 1 PROVE s[k + 1] = Successor(g, s[k])
  <2>1. <<s[k], s[k + 1]>> \in L
    BY <1>1
  <2>2. ASSUME NEW z, <<s[k], z>> \in L PROVE z = s[k + 1]
    <3>1. PICK j \in 1..n - 1 : s[k] = s[j] /\ z = s[j + 1]
      BY <1>1, <2>2
    <3>2. j = k
      BY <1>1, <3>1
    <3>3. QED
      BY <3>1, <3>2
  <2>3. QED
    BY <2>1, <2>2, SuccessorOnly DEF L
<1>5. Follows(g, s)
  <2>1. s \in Seq(Ids(g) \cup {Nothing})
    <3>1. s = [k \in 1..n |-> s[k]] /\ \A k \in 1..n : s[k] \in Ids(g)
      BY <1>1
    <3>2. QED
      BY <1>1, <3>1
  <2>2. QED
    BY <1>1, <1>4, <2>1 DEF Follows, n
<1>6. LinearOrder(g) = s
  BY <1>5, OrderFollows, FollowsOnly
<1>7. \A side \in {1, 2} : Cardinality({l[side] : l \in L}) = Cardinality(L)
  BY <1>3, CountsMeanOne DEF L
<1>8. Last(s) = "Output" /\ \A k \in 1..Len(s) - 1 : s[k] # "Output"
  BY <1>1 DEF Last
<1>9. QED
  BY <1>6, <1>7, <1>8 DEF Linear, L

-----------------------------------------------------------------------------
(* A path has no cycle, and what can be reached stays in any set that is   *)
(* closed under the links.                                                 *)
Spreads(g, id, f) ==
  f = [k \in 0..Cardinality(Ids(g)) |->
        IF k = 0 THEN {id} ELSE f[k - 1] \cup {l[2] : l \in {m \in Links(g) : m[1] \in f[k - 1]}}]

LEMMA ReachIs ==
  ASSUME NEW g, Graph(g), NEW id
  PROVE  \E f : Spreads(g, id, f) /\ ReachedFrom(g, id) = f[Cardinality(Ids(g))]
<1> DEFINE n == Cardinality(Ids(g))
           S == SUBSET (Ids(g) \cup {id})
           More(x) == x \cup {l[2] : l \in {m \in Links(g) : m[1] \in x}}
           F == [x \in Nat \X S |-> More(x[2])]
<1>1. {id} \in S /\ n \in Nat
  BY IdsFacts
<1>2. ASSUME NEW x \in S PROVE More(x) \in S
  <2>1. \A l \in Links(g) : l[2] \in Ids(g)
    BY LinksIn
  <2>2. QED
    BY <2>1
<1> HIDE DEF n, S, More
<1>3. F \in [Nat \X S -> S]
  BY <1>2
<1>4. \A k \in Nat, x \in S : F[<<k, x>>] = More(x)
  <2>1. ASSUME NEW k \in Nat, NEW x \in S PROVE F[<<k, x>>] = More(<<k, x>>[2])
    BY <<k, x>> \in Nat \X S
  <2>2. QED
    BY <2>1
<1> HIDE DEF F
<1> DEFINE a == {id}
<1> HIDE DEF a
<1>5. PICK f : Recursion(f, 0, n, S, a, F)
  BY <1>1, <1>3, Recursive DEF a
<1>6. ASSUME NEW k \in 0..n PROVE f[k] = IF k = 0 THEN a ELSE More(f[k - 1])
  <2>1. CASE k = 0
    BY <1>5, <2>1 DEF Recursion
  <2>2. CASE k # 0
    <3>1. k \in Nat /\ k - 1 \in 0..n
      BY <1>1, <2>2
    <3>2. F[<<k, f[k - 1]>>] = More(f[k - 1])
      BY <1>4, <1>5, <3>1 DEF Recursion
    <3>3. QED
      BY <1>5, <2>2, <3>2 DEF Recursion
  <2>3. QED
    BY <2>1, <2>2
<1>7. Spreads(g, id, f)
  <2>1. f = [k \in 0..n |-> f[k]]
    BY <1>5 DEF Recursion
  <2>2. f = [k \in 0..n |-> IF k = 0 THEN a ELSE More(f[k - 1])]
    BY <1>6, <2>1
  <2>3. QED
    BY <2>2 DEF Spreads, n, a, More
<1> DEFINE h == CHOOSE h : Spreads(g, id, h)
<1>8. Spreads(g, id, h)
  BY <1>7
<1>9. ReachedFrom(g, id) = h[Cardinality(Ids(g))]
  BY DEF ReachedFrom, Spreads
<1>10. QED
  BY <1>8, <1>9

LEMMA ReachBounded ==
  ASSUME NEW g, Graph(g), NEW id, NEW C, id \in C, \A x, y : <<x, y>> \in Links(g) /\ x \in C => y \in C
  PROVE  ReachedFrom(g, id) \subseteq C
<1> DEFINE n == Cardinality(Ids(g))
<1>1. PICK f : Spreads(g, id, f) /\ ReachedFrom(g, id) = f[n]
  BY ReachIs
<1>2. n \in Nat
  BY IdsFacts
<1> HIDE DEF n
<1> DEFINE More(x) == x \cup {l[2] : l \in {m \in Links(g) : m[1] \in x}}
           T == {k \in Nat : f[k] \subseteq C}
<1>3. f[0] = {id} /\ \A k \in 1..n : f[k] = More(f[k - 1])
  <2>1. \A k \in 0..n : f[k] = IF k = 0 THEN {id} ELSE More(f[k - 1])
    BY <1>1, Zenon DEF Spreads, n
  <2> HIDE DEF More
  <2>2. 0 \in 0..n /\ \A k \in 1..n : k \in 0..n /\ k # 0
    BY <1>2
  <2>3. QED
    BY <2>1, <2>2
<1>4. ASSUME NEW x, x \subseteq C PROVE More(x) \subseteq C
  <2>1. ASSUME NEW m \in Links(g), m[1] \in x PROVE m[2] \in C
    <3>1. <<m[1], m[2]>> \in Links(g)
      BY LinksIn
    <3>2. QED
      BY <1>4, <2>1, <3>1
  <2>2. QED
    BY <1>4, <2>1
<1> HIDE DEF More
<1>5. 0 \in T
  BY <1>3
<1>6. ASSUME NEW k \in 0..n - 1, k \in T PROVE k + 1 \in T
  <2>1. k + 1 \in 1..n /\ (k + 1) - 1 = k /\ k \in Nat
    BY <1>2
  <2>2. f[k + 1] = More(f[k])
    BY <1>3, <2>1
  <2>3. QED
    BY <1>4, <1>6, <2>1, <2>2
<1> HIDE DEF T
<1>7. \A k \in 0..n : k \in T
  BY <1>2, <1>5, <1>6, CountUp, 0 \in Nat
<1>8. n \in T
  BY <1>2, <1>7
<1>9. QED
  BY <1>1, <1>8 DEF T

Dwindles(g, f) ==
  f = [k \in 0..Cardinality(Ids(g)) |->
        IF k = 0 THEN Ids(g) ELSE {id \in f[k - 1] : \E l \in Links(g) : l[2] = id /\ l[1] \in f[k - 1]}]

LEMMA LeftIs ==
  ASSUME NEW g, Graph(g)
  PROVE  \E f : Dwindles(g, f) /\ (Cyclic(g) <=> f[Cardinality(Ids(g))] # {})
<1> DEFINE n == Cardinality(Ids(g))
           I == Ids(g)
           S == SUBSET I
           Fewer(x) == {id \in x : \E l \in Links(g) : l[2] = id /\ l[1] \in x}
           F == [x \in Nat \X S |-> Fewer(x[2])]
<1>1. I \in S /\ n \in Nat
  BY IdsFacts
<1>2. \A x \in S : Fewer(x) \in S
  OBVIOUS
<1> HIDE DEF n, S, Fewer
<1>3. F \in [Nat \X S -> S]
  BY <1>2
<1>4. \A k \in Nat, x \in S : F[<<k, x>>] = Fewer(x)
  <2>1. ASSUME NEW k \in Nat, NEW x \in S PROVE F[<<k, x>>] = Fewer(<<k, x>>[2])
    BY <<k, x>> \in Nat \X S
  <2>2. QED
    BY <2>1
<1> HIDE DEF F, I
<1>5. PICK f : Recursion(f, 0, n, S, I, F)
  BY <1>1, <1>3, Recursive
<1>6. ASSUME NEW k \in 0..n PROVE f[k] = IF k = 0 THEN I ELSE Fewer(f[k - 1])
  <2>1. CASE k = 0
    BY <1>5, <2>1 DEF Recursion
  <2>2. CASE k # 0
    <3>1. k \in Nat /\ k - 1 \in 0..n
      BY <1>1, <2>2
    <3>2. F[<<k, f[k - 1]>>] = Fewer(f[k - 1])
      BY <1>4, <1>5, <3>1 DEF Recursion
    <3>3. QED
      BY <1>5, <2>2, <3>2 DEF Recursion
  <2>3. QED
    BY <2>1, <2>2
<1>7. Dwindles(g, f)
  <2>1. f = [k \in 0..n |-> f[k]]
    BY <1>5 DEF Recursion
  <2>2. f = [k \in 0..n |-> IF k = 0 THEN I ELSE Fewer(f[k - 1])]
    BY <1>6, <2>1
  <2>3. QED
    BY <2>2 DEF Dwindles, n, I, Fewer
<1> DEFINE h == CHOOSE h : Dwindles(g, h)
<1>8. Dwindles(g, h)
  BY <1>7
<1>9. Cyclic(g) <=> h[Cardinality(Ids(g))] # {}
  BY DEF Cyclic, Dwindles
<1>10. QED
  BY <1>8, <1>9

LEMMA PathAcyclic ==
  ASSUME NEW g, Graph(g), NEW s, Path(g, s)
  PROVE  ~Cyclic(g)
<1> DEFINE n == Cardinality(Ids(g))
           I == Ids(g)
<1>1. PICK f : Dwindles(g, f) /\ (Cyclic(g) <=> f[n] # {})
  BY LeftIs
<1>2. /\ n \in Nat
      /\ \A j, k \in 1..n : s[j] = s[k] => j = k
      /\ \A id \in I : \E k \in 1..n : s[k] = id
      /\ \A x, y : <<x, y>> \in Links(g) <=> \E k \in 1..n - 1 : x = s[k] /\ y = s[k + 1]
  BY IdsFacts DEF Path
<1> DEFINE Fewer(x) == {id \in x : \E l \in Links(g) : l[2] = id /\ l[1] \in x}
           After(k) == {s[j] : j \in k + 1..n}
           T == {k \in Nat : f[k] \subseteq After(k)}
<1>3. f[0] = I /\ \A k \in 1..n : f[k] = Fewer(f[k - 1])
  <2> HIDE DEF n, I
  <2>1. \A k \in 0..n : f[k] = IF k = 0 THEN I ELSE Fewer(f[k - 1])
    BY <1>1, Zenon DEF Dwindles, n, I
  <2> HIDE DEF Fewer
  <2>2. 0 \in 0..n /\ \A k \in 1..n : k \in 0..n /\ k # 0
    BY <1>2
  <2>3. QED
    BY <2>1, <2>2
<1> HIDE DEF n, I
<1>4. 0 \in T
  BY <1>2, <1>3
<1>5. ASSUME NEW k \in 0..n - 1, f[k] \subseteq After(k) PROVE f[k + 1] \subseteq After(k + 1)
  <2>1. k + 1 \in 1..n /\ (k + 1) - 1 = k /\ k \in Nat
    BY <1>2
  <2>2. f[k + 1] = Fewer(f[k])
    BY <1>3, <2>1
  <2>3. ASSUME NEW id \in f[k + 1] PROVE id \in After(k + 1)
    <3>1. PICK l \in Links(g) : l[2] = id /\ l[1] \in f[k]
      BY <2>2
    <3>2. <<l[1], l[2]>> \in Links(g)
      BY LinksIn
    <3>3. PICK j \in 1..n - 1 : l[1] = s[j] /\ l[2] = s[j + 1]
      BY <1>2, <3>2
    <3>4. PICK i \in k + 1..n : l[1] = s[i]
      <4>1. l[1] \in After(k)
        BY <1>5, <3>1
      <4>2. QED
        BY <4>1
    <3>5. i = j
      <4>1. i \in 1..n /\ j \in 1..n /\ s[i] = s[j]
        BY <1>2, <2>1, <3>3, <3>4
      <4>2. QED
        BY <1>2, <4>1
    <3>6. j + 1 \in (k + 1) + 1..n
      BY <1>2, <2>1, <3>4, <3>5
    <3>7. QED
      BY <3>1, <3>3, <3>6
  <2>4. QED
    BY <2>3
<1> HIDE DEF After, Fewer
<1>6. \A k \in 0..n - 1 : k \in T => k + 1 \in T
  BY <1>2, <1>5
<1> HIDE DEF T
<1>7. n \in T
  <2>1. \A k \in 0..n : k \in T
    BY <1>2, <1>4, <1>6, CountUp, 0 \in Nat
  <2>2. QED
    BY <1>2, <2>1
<1>8. f[n] = {}
  <2>1. n + 1..n = {}
    BY <1>2
  <2>2. QED
    BY <1>7, <2>1 DEF T, After
<1>9. QED
  BY <1>1, <1>8


-----------------------------------------------------------------------------
(* Paths by their places. *)

(* A path visits every node once, so it is as long as there are nodes. *)
Visits(g, s) ==
  /\ s \in Seq(Ids(g)) /\ Len(s) >= 2 /\ s[1] = "Input" /\ s[Len(s)] = "Output"
  /\ \A j, k \in 1..Len(s) : s[j] = s[k] => j = k
  /\ \A id \in Ids(g) : \E k \in 1..Len(s) : s[k] = id
  /\ \A x, y : <<x, y>> \in Links(g) <=> \E k \in 1..Len(s) - 1 : x = s[k] /\ y = s[k + 1]

LEMMA PathBy ==
  ASSUME NEW g, Graph(g), NEW s, Visits(g, s)
  PROVE  Path(g, s)
<1> DEFINE n == Len(s)
           I == Ids(g)
<1>1. n \in Nat /\ n >= 2 /\ s \in [1..n -> I]
  BY DEF Visits
<1>2. s \in Surjection(1..n, I) /\ s \in Injection(1..n, I)
  BY <1>1 DEF Visits, Surjection, Injection, IsInjective
<1> HIDE DEF n, I
<1>3. 1 \in Int /\ n \in Int
  BY <1>1
<1>4. IsFiniteSet(1..n) /\ Cardinality(1..n) = n
  BY <1>1, <1>3, FS_Interval
<1>5. Cardinality(I) = n
  BY <1>2, <1>4, FS_Surjection
<1>6. QED
  BY <1>5 DEF Visits, Path, n, I

LEMMA PathSame ==
  ASSUME NEW g, NEW h, Ids(h) = Ids(g), Links(h) = Links(g), NEW s, Path(g, s)
  PROVE  Path(h, s)
BY DEF Path

(* The places of a path between its ends are those of the rack. *)
Places(g, s) ==
  /\ Path(g, s) /\ Len(s) \in Nat /\ Len(s) >= 2 /\ Len(s) - 2 \in Nat
  /\ Rack(g) \in Seq(DOMAIN g.nodes) /\ Len(Rack(g)) = Len(s) - 2
  /\ \A k \in 1..Len(s) - 2 : Rack(g)[k] = s[k + 1] /\ s[k + 1] \in DOMAIN g.nodes
  /\ \A id \in DOMAIN g.nodes : \E k \in 1..Len(s) - 2 : Rack(g)[k] = id
  /\ \A j, k \in 1..Len(s) - 2 : Rack(g)[j] = Rack(g)[k] => j = k

LEMMA PathPlaces ==
  ASSUME NEW g, Graph(g), NEW s, Path(g, s)
  PROVE  Places(g, s)
<1> DEFINE n == Len(s)
           r == SubSeq(s, 2, n - 1)
<1>1. /\ s \in Seq(Ids(g)) /\ n \in Nat /\ n >= 2 /\ s[1] = "Input" /\ s[n] = "Output"
      /\ n = Cardinality(Ids(g)) /\ n - 2 \in Nat
      /\ \A j, k \in 1..n : s[j] = s[k] => j = k
      /\ \A id \in Ids(g) : \E k \in 1..n : s[k] = id
  BY DEF Path
<1>2. Rack(g) = r
  BY <1>1, PathLinear DEF Rack
<1>3. \A id \in Ids(g) : id \in DOMAIN g.nodes <=> id # "Input" /\ id # "Output"
  BY IdsFacts
<1> HIDE DEF n
<1>0. n \in Nat /\ n >= 2
  BY <1>1
<1>4. ASSUME NEW k \in 2..n - 1 PROVE s[k] \in DOMAIN g.nodes
  <2>1. k \in 1..n /\ 1 \in 1..n /\ n \in 1..n /\ k # 1 /\ k # n
    BY <1>0
  <2>2. s[k] \in Ids(g) /\ s[k] # "Input" /\ s[k] # "Output"
    BY <1>1, <2>1 DEF n
  <2>3. QED
    BY <1>3, <2>2
<1>5. /\ r \in Seq(DOMAIN g.nodes)
      /\ Len(r) = n - 2
      /\ \A k \in 1..n - 2 : r[k] = s[k + 1]
  <2>1. 2 \in Int /\ n - 1 \in Int
    BY <1>1
  <2>0. \A k \in 2..n - 1 : s[k] \in DOMAIN g.nodes
    BY <1>4
  <2> DEFINE D == DOMAIN g.nodes
             m == n - 1
  <2> HIDE DEF D, m
  <2>5. /\ SubSeq(s, 2, m) \in Seq(D)
        /\ Len(SubSeq(s, 2, m)) = IF 2 <= m THEN m - 2 + 1 ELSE 0
        /\ \A k \in 1..m - 2 + 1 : SubSeq(s, 2, m)[k] = s[2 + k - 1]
    <3>1. \A k \in 2..m : s[k] \in D
      BY <2>0 DEF D, m
    <3>2. 2 \in Int /\ m \in Int
      BY <2>1 DEF m
    <3>3. QED
      BY <3>1, <3>2, SubSeqProperties
  <2>2. /\ r \in Seq(DOMAIN g.nodes)
        /\ Len(r) = IF 2 <= n - 1 THEN (n - 1) - 2 + 1 ELSE 0
        /\ \A k \in 1..(n - 1) - 2 + 1 : r[k] = s[2 + k - 1]
    BY <2>5 DEF D, m
  <2> HIDE DEF r
  <2>3. \A k \in 1..n - 2 : k \in 1..(n - 1) - 2 + 1 /\ 2 + k - 1 = k + 1
    BY <1>0
  <2>4. QED
    BY <1>0, <2>2, <2>3
<1> HIDE DEF r
<1>6. ASSUME NEW id \in DOMAIN g.nodes PROVE \E k \in 1..n - 2 : r[k] = id
  <2>1. id \in Ids(g) /\ id # "Input" /\ id # "Output"
    BY <1>3 DEF Ids
  <2>2. PICK j \in 1..n : s[j] = id
    BY <1>1, <2>1
  <2>3. j # 1 /\ j # n
    BY <1>1, <2>1, <2>2
  <2>4. j - 1 \in 1..n - 2 /\ (j - 1) + 1 = j
    BY <1>1, <2>3
  <2>5. r[j - 1] = id
    BY <1>5, <2>2, <2>4
  <2>6. QED
    BY <2>4, <2>5
<1>7. ASSUME NEW j \in 1..n - 2, NEW k \in 1..n - 2, r[j] = r[k] PROVE j = k
  <2>0. j + 1 \in 1..n /\ k + 1 \in 1..n
    BY <1>0
  <2>1. j + 1 \in 1..n /\ k + 1 \in 1..n /\ s[j + 1] = s[k + 1]
    BY <1>5, <1>7, <2>0
  <2>2. j + 1 = k + 1
    BY <1>1, <2>1
  <2>3. QED
    BY <1>1, <2>2
<1>8. ASSUME NEW k \in 1..n - 2 PROVE s[k + 1] \in DOMAIN g.nodes
  BY <1>1, <1>4, k + 1 \in 2..n - 1
<1>9. QED
  BY <1>1, <1>2, <1>5, <1>6, <1>7, <1>8 DEF Places, n

LEMMA PathNext ==
  ASSUME NEW g, Graph(g), NEW s, Path(g, s), NEW k \in 1..Len(s) - 1
  PROVE  Successor(g, s[k]) = s[k + 1] /\ Before(g, s[k + 1]) = s[k]
<1> DEFINE n == Len(s)
<1>1. /\ n \in Nat /\ n >= 2 /\ s \in Seq(Ids(g))
      /\ \A i, j \in 1..n : s[i] = s[j] => i = j
      /\ \A x, y : <<x, y>> \in Links(g) <=> \E i \in 1..n - 1 : x = s[i] /\ y = s[i + 1]
  BY DEF Path
<1> HIDE DEF n
<1>2. k \in 1..n /\ k + 1 \in 1..n /\ k \in 1..n - 1
  BY <1>1 DEF n
<1>3. Successor(g, s[k]) = s[k + 1]
  <2>1. <<s[k], s[k + 1]>> \in Links(g)
    BY <1>1, <1>2
  <2>2. ASSUME NEW z, <<s[k], z>> \in Links(g) PROVE z = s[k + 1]
    <3>1. PICK j \in 1..n - 1 : s[k] = s[j] /\ z = s[j + 1]
      BY <1>1, <2>2
    <3>2. j = k
      BY <1>1, <1>2, <3>1
    <3>3. QED
      BY <3>1, <3>2
  <2>3. QED
    BY <2>1, <2>2, SuccessorOnly
<1>4. ASSUME NEW m \in Ids(g), Successor(g, m) = s[k + 1] PROVE m = s[k]
  <2>1. s[k + 1] # Nothing
    BY <1>1, <1>2, IdsFacts DEF n
  <2>2. <<m, s[k + 1]>> \in Links(g)
    BY <1>4, <2>1, SuccessorIs
  <2>3. PICK j \in 1..n - 1 : m = s[j] /\ s[k + 1] = s[j + 1]
    BY <1>1, <2>2
  <2>4. j + 1 = k + 1
    BY <1>1, <1>2, <2>3, j + 1 \in 1..n
  <2>5. j = k
    BY <1>2, <2>4
  <2>6. QED
    BY <2>3, <2>5
<1>5. s[k] \in Ids(g)
  BY <1>1, <1>2 DEF n
<1>6. Before(g, s[k + 1]) = s[k]
  <2>1. \E m \in Ids(g) : Successor(g, m) = s[k + 1]
    BY <1>3, <1>5
  <2> DEFINE m == CHOOSE m \in Ids(g) : Successor(g, m) = s[k + 1]
  <2>2. m \in Ids(g) /\ Successor(g, m) = s[k + 1]
    BY <2>1
  <2> HIDE DEF m
  <2>3. m = s[k]
    BY <1>4, <2>2
  <2>4. QED
    BY <2>3 DEF Before, m
<1>7. QED
  BY <1>3, <1>6

-----------------------------------------------------------------------------
(* Edits keep a graph sound. *)

LEMMA Ports ==
  ASSUME NEW g, Graph(g)
  PROVE  /\ \A id : Ins(g, id) \in Nat /\ Outs(g, id) \in Nat
         /\ Outs(g, "Output") = 0 /\ Ins(g, "Input") = 0
         /\ Outs(g, "Input") = g.inputs /\ Ins(g, "Output") = g.outputs
         /\ \A id \in DOMAIN g.nodes : Ins(g, id) = g.nodes[id].ins /\ Outs(g, id) = g.nodes[id].outs
<1>1. \A id \in DOMAIN g.nodes : g.nodes[id].ins \in Nat /\ g.nodes[id].outs \in Nat
  BY DEF Graph, GraphsOn, Node
<1>2. g.inputs \in Nat /\ g.outputs \in Nat
  BY DEF Graph, GraphsOn
<1>3. "Input" \notin DOMAIN g.nodes /\ "Output" \notin DOMAIN g.nodes
  BY IdsFacts
<1>4. ASSUME NEW id PROVE Ins(g, id) \in Nat /\ Outs(g, id) \in Nat
  BY <1>1, <1>2 DEF Ins, Outs
<1>5. Outs(g, "Output") = 0 /\ Ins(g, "Input") = 0 /\ Outs(g, "Input") = g.inputs /\ Ins(g, "Output") = g.outputs
  BY <1>3 DEF Ins, Outs
<1>6. ASSUME NEW id \in DOMAIN g.nodes PROVE Ins(g, id) = g.nodes[id].ins /\ Outs(g, id) = g.nodes[id].outs
  <2>1. id # "Input" /\ id # "Output"
    BY <1>3
  <2>2. QED
    BY <2>1 DEF Ins, Outs
<1>7. QED
  BY <1>4, <1>5, <1>6

(* Other wires. *)
LEMMA Rewiring ==
  ASSUME NEW g, Sound(g), NEW W, W \subseteq Wire,
         \A w \in W : w[1] \in Ids(g) /\ w[3] \in Ids(g) /\ w[1] # "Output"
  PROVE  LET h == [g EXCEPT !.wires = W]
         IN Sound(h) /\ h.nodes = g.nodes /\ h.inputs = g.inputs /\ h.outputs = g.outputs
            /\ h.wires = W /\ Ids(h) = Ids(g)
<1> DEFINE h == [g EXCEPT !.wires = W]
           D == DOMAIN g.nodes
<1>1. g \in GraphsOn(D) /\ D \subseteq Plugins
  BY DEF Sound, Graph
<1>2. h \in GraphsOn(D) /\ h.nodes = g.nodes /\ h.inputs = g.inputs /\ h.outputs = g.outputs /\ h.wires = W
  <2> HIDE DEF D
  <2>1. QED
    BY <1>1 DEF GraphsOn
<1> HIDE DEF h
<1>3. DOMAIN h.nodes = D /\ Ids(h) = Ids(g)
  BY <1>2 DEF Ids
<1>4. Graph(h)
  BY <1>1, <1>2, <1>3 DEF Graph
<1>5. Steady(h)
  BY <1>2, <1>3 DEF Steady, Sound
<1>6. QED
  BY <1>2, <1>3, <1>4, <1>5 DEF Sound, h

(* Other plugins in the same places. *)
Steadies(N) ==
  /\ \A id \in DOMAIN N : N[id].kind = "pass" => N[id].ins = N[id].outs
  /\ "ReplayGain" \in DOMAIN N => N["ReplayGain"].kind = "pass"

Refit(g, N, i, o) == [[[g EXCEPT !.nodes = N] EXCEPT !.inputs = i] EXCEPT !.outputs = o]

LEMMA Refitting ==
  ASSUME NEW g, Sound(g), NEW N \in [DOMAIN g.nodes -> Node], Steadies(N), NEW i \in Nat \ {0}, NEW o \in Nat
  PROVE  LET h == Refit(g, N, i, o)
         IN Sound(h) /\ h.nodes = N /\ h.inputs = i /\ h.outputs = o /\ h.wires = g.wires /\ Ids(h) = Ids(g)
<1> DEFINE h == Refit(g, N, i, o)
           D == DOMAIN g.nodes
<1>1. g \in GraphsOn(D) /\ D \subseteq Plugins /\ DOMAIN N = D /\ N \in [D -> Node]
  BY DEF Sound, Graph
<1>2. h \in GraphsOn(D) /\ h.nodes = N /\ h.inputs = i /\ h.outputs = o /\ h.wires = g.wires
  <2> HIDE DEF D
  <2>1. QED
    BY <1>1 DEF GraphsOn, Refit
<1> HIDE DEF h
<1>3. DOMAIN h.nodes = D /\ Ids(h) = Ids(g)
  BY <1>1, <1>2 DEF Ids
<1>4. Graph(h)
  BY <1>1, <1>2, <1>3 DEF Graph, Sound
<1>5. Steady(h)
  BY <1>1, <1>2, <1>3 DEF Steady, Sound, Steadies
<1>6. QED
  BY <1>2, <1>3, <1>4, <1>5 DEF Sound, h

LEMMA RefitNodes ==
  ASSUME NEW g, Sound(g), NEW N \in [DOMAIN g.nodes -> Node], Steadies(N)
  PROVE  LET h == [g EXCEPT !.nodes = N]
         IN Sound(h) /\ h.nodes = N /\ h.inputs = g.inputs /\ h.wires = g.wires /\ Ids(h) = Ids(g)
<1> DEFINE h == [g EXCEPT !.nodes = N]
           k == Refit(g, N, g.inputs, g.outputs)
<1>1. g.inputs \in Nat \ {0} /\ g.outputs \in Nat /\ g \in GraphsOn(DOMAIN g.nodes)
  BY DEF Sound, Graph, GraphsOn
<1>2. h = k
  BY <1>1 DEF GraphsOn, Refit
<1>3. Sound(k) /\ k.nodes = N /\ k.inputs = g.inputs /\ k.wires = g.wires /\ Ids(k) = Ids(g)
  BY <1>1, Refitting
<1> HIDE DEF h, k
<1>4. QED
  BY <1>2, <1>3 DEF h

(* A node with changed fields: what the edits make of one. *)
LEMMA Switching ==
  ASSUME NEW node \in Node, NEW b \in BOOLEAN
  PROVE  /\ [node EXCEPT !.on = b] \in Node /\ [node EXCEPT !.suspended = b] \in Node
         /\ [node EXCEPT !.on = b].kind = node.kind /\ [node EXCEPT !.suspended = b].kind = node.kind
         /\ [node EXCEPT !.on = b].ins = node.ins /\ [node EXCEPT !.suspended = b].ins = node.ins
         /\ [node EXCEPT !.on = b].outs = node.outs /\ [node EXCEPT !.suspended = b].outs = node.outs
         /\ [node EXCEPT !.suspended = b].on = node.on /\ [node EXCEPT !.suspended = b].suspended = b
BY DEF Node

LEMMA Straights ==
  ASSUME NEW x \in Plugins \cup Special, NEW y \in Plugins \cup Special, NEW c \in Nat
  PROVE  /\ Straight(x, y, c) \subseteq Wire
         /\ \A w \in Straight(x, y, c) : w[1] = x /\ w[3] = y /\ w[2] = w[4] /\ w[2] \in 0..c - 1
         /\ \A p \in 0..c - 1 : <<x, p, y, p>> \in Straight(x, y, c)
<1>1. ASSUME NEW p \in 0..c - 1 PROVE <<x, p, y, p>> \in Wire
  BY DEF Wire
<1>2. QED
  BY <1>1 DEF Straight

LEMMA PlugIds ==
  ASSUME NEW g, Graph(g)
  PROVE  Ids(g) \subseteq Plugins \cup Special
BY DEF Graph, Ids

LEMMA JoinedSound ==
  ASSUME NEW g, Sound(g), NEW x \in Ids(g), NEW y \in Ids(g), x # "Output"
  PROVE  /\ Sound(Joined(g, x, y)) /\ Joined(g, x, y).nodes = g.nodes
         /\ Ids(Joined(g, x, y)) = Ids(g)
         /\ ~MakesCycle(g, x, y) => Links(Joined(g, x, y)) = Links(g) \cup {<<x, y>>}
<1> DEFINE c == Larger(Smaller(Outs(g, x), Ins(g, y)), 1)
           W == g.wires \cup Straight(x, y, c)
           h == [g EXCEPT !.wires = W]
<1>1. c \in Nat /\ c >= 1
  BY Ports DEF Larger, Smaller, Sound
<1> HIDE DEF c
<1>2. x \in Plugins \cup Special /\ y \in Plugins \cup Special
  BY PlugIds DEF Sound
<1>3. W \subseteq Wire /\ \A w \in W : w[1] \in Ids(g) /\ w[3] \in Ids(g) /\ w[1] # "Output"
  <2>1. g.wires \subseteq Wire /\ \A w \in g.wires : w[1] \in Ids(g) /\ w[3] \in Ids(g) /\ w[1] # "Output"
    BY DEF Sound, Graph, GraphsOn, Steady
  <2>2. QED
    BY <1>1, <1>2, <2>1, Straights
<1> HIDE DEF W
<1>4. Sound(h) /\ h.nodes = g.nodes /\ h.wires = W /\ Ids(h) = Ids(g)
  BY <1>3, Rewiring
<1>5. Links(h) = Links(g) \cup {<<x, y>>}
  <2>1. {<<w[1], w[3]>> : w \in Straight(x, y, c)} = {<<x, y>>}
    <3>1. \A w \in Straight(x, y, c) : <<w[1], w[3]>> = <<x, y>>
      BY <1>1, <1>2, Straights
    <3>2. <<x, 0, y, 0>> \in Straight(x, y, c)
      BY <1>1, <1>2, Straights, 0 \in 0..c - 1
    <3>3. QED
      BY <3>1, <3>2
  <2>2. Links(h) = {<<w[1], w[3]>> : w \in g.wires} \cup {<<w[1], w[3]>> : w \in Straight(x, y, c)}
    BY <1>4 DEF Links, W
  <2>3. QED
    BY <2>1, <2>2 DEF Links
<1>6. CASE MakesCycle(g, x, y)
  BY <1>6 DEF Joined
<1>7. CASE ~MakesCycle(g, x, y)
  <2>1. Joined(g, x, y) = h
    BY <1>7 DEF Joined, W, c
  <2>2. QED
    BY <1>4, <1>5, <2>1
<1>8. QED
  BY <1>6, <1>7

LEMMA PartedSound ==
  ASSUME NEW g, Sound(g), NEW P
  PROVE  /\ Sound(Parted(g, P)) /\ Parted(g, P).nodes = g.nodes /\ Ids(Parted(g, P)) = Ids(g)
         /\ Links(Parted(g, P)) = Links(g) \ P
<1> DEFINE W == {w \in g.wires : <<w[1], w[3]>> \notin P}
           h == [g EXCEPT !.wires = W]
<1>1. W \subseteq Wire /\ \A w \in W : w[1] \in Ids(g) /\ w[3] \in Ids(g) /\ w[1] # "Output"
  BY DEF Sound, Graph, GraphsOn, Steady
<1>2. {<<w[1], w[3]>> : w \in W} = Links(g) \ P
  BY DEF Links
<1>3. Parted(g, P) = h
  BY DEF Parted
<1> HIDE DEF W
<1>4. Sound(h) /\ h.nodes = g.nodes /\ h.wires = W /\ Ids(h) = Ids(g)
  BY <1>1, Rewiring
<1>5. QED
  BY <1>2, <1>3, <1>4 DEF Links

LEMMA ConnectedSound ==
  ASSUME NEW g, Sound(g), NEW wire \in Wire, Drawable(g, wire)
  PROVE  Sound(Connected(g, wire))
<1> DEFINE W == g.wires \cup {wire}
<1>1. wire[1] \in Ids(g) /\ wire[3] \in Ids(g) /\ wire[2] \in Nat /\ wire[2] < Outs(g, wire[1])
  BY DEF Drawable, CanConnect, Wire
<1>2. wire[1] # "Output"
  <2>1. Outs(g, "Output") = 0
    BY Ports DEF Sound
  <2>2. QED
    BY <1>1, <2>1
<1>3. W \subseteq Wire /\ \A w \in W : w[1] \in Ids(g) /\ w[3] \in Ids(g) /\ w[1] # "Output"
  BY <1>1, <1>2 DEF Sound, Graph, GraphsOn, Steady
<1>4. Connected(g, wire) = [g EXCEPT !.wires = W]
  BY DEF Connected
<1> HIDE DEF W
<1>5. QED
  BY <1>3, <1>4, Rewiring

LEMMA DisconnectedSound ==
  ASSUME NEW g, Sound(g), NEW wire
  PROVE  Sound([g EXCEPT !.wires = @ \ {wire}])
<1> DEFINE W == g.wires \ {wire}
<1>1. W \subseteq Wire /\ \A w \in W : w[1] \in Ids(g) /\ w[3] \in Ids(g) /\ w[1] # "Output"
  BY DEF Sound, Graph, GraphsOn, Steady
<1> HIDE DEF W
<1>2. Sound([g EXCEPT !.wires = W])
  BY <1>1, Rewiring
<1>3. QED
  BY <1>2 DEF W

-----------------------------------------------------------------------------
LEMMA WithoutSound ==
  ASSUME NEW g, Sound(g), NEW X, "Input" \notin X, "Output" \notin X
  PROVE  /\ Sound(Without(g, X)) /\ DOMAIN Without(g, X).nodes = DOMAIN g.nodes \ X
         /\ Ids(Without(g, X)) = Ids(g) \ X
         /\ \A x, y : <<x, y>> \in Links(Without(g, X)) <=> <<x, y>> \in Links(g) /\ x \notin X /\ y \notin X
<1> DEFINE D == DOMAIN g.nodes
           N == [id \in D \ X |-> g.nodes[id]]
           W == {w \in g.wires : w[1] \notin X /\ w[3] \notin X}
           h == [[g EXCEPT !.nodes = N] EXCEPT !.wires = W]
<1>1. g \in GraphsOn(D) /\ D \subseteq Plugins
  BY DEF Sound, Graph
<1>2. Without(g, X) = h
  BY DEF Without
<1>3. N \in [D \ X -> Node] /\ DOMAIN N = D \ X /\ W \subseteq Wire /\ \A id \in D \ X : N[id] = g.nodes[id]
  BY <1>1 DEF GraphsOn
<1>4. W \subseteq g.wires /\ \A w \in W : w[1] \notin X /\ w[3] \notin X
  OBVIOUS
<1>5. {<<w[1], w[3]>> : w \in W} \subseteq Links(g)
      /\ \A x, y : <<x, y>> \in {<<w[1], w[3]>> : w \in W} <=> <<x, y>> \in Links(g) /\ x \notin X /\ y \notin X
  BY DEF Links
<1> HIDE DEF N, W
<1>6. h \in GraphsOn(D \ X) /\ h.nodes = N /\ h.inputs = g.inputs /\ h.outputs = g.outputs /\ h.wires = W
  <2> HIDE DEF D
  <2>1. QED
    BY <1>1, <1>3 DEF GraphsOn
<1> HIDE DEF h
<1>7. Ids(h) = Ids(g) \ X
  BY <1>3, <1>6 DEF Ids, Special
<1>8. Graph(h)
  <2>1. \A w \in W : w[1] \in Ids(h) /\ w[3] \in Ids(h)
    BY <1>4, <1>7 DEF Sound, Graph
  <2>2. QED
    BY <1>1, <1>3, <1>6, <2>1 DEF Graph
<1>9. Steady(h)
  BY <1>3, <1>4, <1>6 DEF Sound, Steady
<1>10. QED
  BY <1>2, <1>3, <1>5, <1>6, <1>7, <1>8, <1>9 DEF Sound, Links

LEMMA FreshNode ==
  ASSUME NEW kind \in Kinds
  PROVE  Fresh(kind) \in Node /\ Fresh(kind).kind = kind
         /\ (kind = "pass" => Fresh(kind).ins = Fresh(kind).outs)
<1>1. Wide \in Nat
  BY PluginGraphAssumption
<1>2. <<2, 2>> \in (Nat \ {0}) \X (Nat \ {0})
  OBVIOUS
<1> DEFINE size == <<2, 2>>
           o == IF kind = "upmix" THEN Wide ELSE 2
<1>3. o \in Nat
  BY <1>1
<1>4. Fresh(kind) = [kind |-> kind, on |-> TRUE, suspended |-> FALSE, size |-> size, ins |-> 2, outs |-> o]
  BY DEF Fresh
<1>5. kind = "pass" => o = 2
  OBVIOUS
<1> HIDE DEF size, o
<1>6. QED
  BY <1>2, <1>3, <1>4, <1>5 DEF Node, size

LEMMA PlacedSound ==
  ASSUME NEW g, Sound(g), NEW id \in Users, NEW kind \in Kinds
  PROVE  Sound(Placed(g, id, kind)) /\ DOMAIN Placed(g, id, kind).nodes = DOMAIN g.nodes \cup {id}
         /\ Ids(Placed(g, id, kind)) = Ids(g) \cup {id}
<1> DEFINE D == DOMAIN g.nodes
           E == D \cup {id}
           new == Fresh(kind)
           N == [n \in E |-> IF n = id THEN new ELSE g.nodes[n]]
           h == [g EXCEPT !.nodes = N]
<1>1. g \in GraphsOn(D) /\ D \subseteq Plugins
  BY DEF Sound, Graph
<1>2. Placed(g, id, kind) = h
  BY DEF Placed
<1>3. new \in Node /\ new.kind = kind /\ (kind = "pass" => new.ins = new.outs)
  BY FreshNode
<1> HIDE DEF new
<1>4. /\ N \in [E -> Node] /\ DOMAIN N = E
      /\ \A n \in E : N[n] = IF n = id THEN new ELSE g.nodes[n]
  BY <1>1, <1>3 DEF GraphsOn
<1> HIDE DEF N
<1>5. h \in GraphsOn(E) /\ h.nodes = N /\ h.inputs = g.inputs /\ h.outputs = g.outputs /\ h.wires = g.wires
  <2> HIDE DEF D, E
  <2>1. QED
    BY <1>1, <1>4 DEF GraphsOn
<1> HIDE DEF h
<1>6. Ids(h) = Ids(g) \cup {id}
  BY <1>4, <1>5 DEF Ids
<1>7. id \in Plugins /\ id # "ReplayGain"
  BY PluginGraphAssumption DEF Plugins, Permanent
<1>8. Graph(h)
  <2>1. \A w \in h.wires : {w[1], w[3]} \subseteq Ids(h)
    BY <1>5, <1>6 DEF Sound, Graph
  <2>2. DOMAIN h.nodes = E /\ E \subseteq Plugins
    BY <1>1, <1>4, <1>5, <1>7
  <2> HIDE DEF E
  <2>3. QED
    BY <1>5, <2>1, <2>2 DEF Graph
<1>9. Steady(h)
  <2>1. \A w \in h.wires : w[1] # "Output"
    BY <1>5 DEF Sound, Steady
  <2>2. ASSUME NEW n \in E, N[n].kind = "pass" PROVE N[n].ins = N[n].outs
    <3>1. CASE n = id
      BY <1>3, <1>4, <2>2, <3>1
    <3>2. CASE n # id
      <4>1. N[n] = g.nodes[n] /\ n \in D
        BY <1>4, <3>2
      <4>2. QED
        BY <2>2, <4>1 DEF Sound, Steady
    <3>3. QED
      BY <3>1, <3>2
  <2>3. ASSUME "ReplayGain" \in E PROVE N["ReplayGain"].kind = "pass"
    <3>1. "ReplayGain" \in D /\ N["ReplayGain"] = g.nodes["ReplayGain"]
      BY <1>4, <1>7, <2>3
    <3>2. QED
      BY <3>1 DEF Sound, Steady
  <2>4. QED
    BY <1>4, <1>5, <2>1, <2>2, <2>3 DEF Steady
<1>10. QED
  BY <1>2, <1>4, <1>5, <1>6, <1>8, <1>9 DEF Sound

(* Switches: on, suspended. *)
(* What a switch leaves as it was. *)
Alike(g, h) ==
  /\ Ids(h) = Ids(g) /\ h.wires = g.wires /\ DOMAIN h.nodes = DOMAIN g.nodes
  /\ h.inputs = g.inputs
  /\ \A id : Ins(h, id) = Ins(g, id) /\ Outs(h, id) = Outs(g, id)

On(g, id, b) == [g EXCEPT !.nodes[id].on = b]

LEMMA OnSound ==
  ASSUME NEW g, Sound(g), NEW id \in DOMAIN g.nodes, NEW b \in BOOLEAN
  PROVE  /\ Sound(On(g, id, b)) /\ Alike(g, On(g, id, b))
         /\ \A n \in DOMAIN g.nodes : n # id => On(g, id, b).nodes[n] = g.nodes[n]
         /\ On(g, id, b).nodes[id].kind = g.nodes[id].kind
         /\ On(g, id, b).nodes[id].suspended = g.nodes[id].suspended
<1> DEFINE D == DOMAIN g.nodes
           new == [g.nodes[id] EXCEPT !.on = b]
           N == [g.nodes EXCEPT ![id] = new]
           h == On(g, id, b)
<1>1. g.nodes \in [D -> Node] /\ g \in GraphsOn(D)
  BY DEF Sound, Graph, GraphsOn
<1>2. /\ new \in Node /\ new.kind = g.nodes[id].kind /\ new.ins = g.nodes[id].ins /\ new.outs = g.nodes[id].outs
      /\ new.suspended = g.nodes[id].suspended
  <2>1. g.nodes[id] \in Node
    BY <1>1
  <2>2. QED
    BY <2>1, Switching DEF Node
<1>3. h = [g EXCEPT !.nodes = N]
  BY DEF On
<1> HIDE DEF new, h
<1>4. N \in [D -> Node] /\ DOMAIN N = D /\ \A n \in D : N[n] = IF n = id THEN new ELSE g.nodes[n]
  BY <1>1, <1>2
<1> HIDE DEF N
<1>5. Steadies(N)
  BY <1>2, <1>4 DEF Steadies, Sound, Steady
<1>6. Sound(h) /\ h.nodes = N /\ h.inputs = g.inputs /\ h.wires = g.wires /\ Ids(h) = Ids(g) /\ h.outputs = g.outputs
  <2>1. LET k == [g EXCEPT !.nodes = N]
        IN Sound(k) /\ k.nodes = N /\ k.inputs = g.inputs /\ k.wires = g.wires /\ Ids(k) = Ids(g)
    BY <1>4, <1>5, RefitNodes
  <2>2. h.outputs = g.outputs
    BY <1>1, <1>3 DEF GraphsOn
  <2>3. QED
    BY <1>3, <2>1, <2>2
<1>7. ASSUME NEW n PROVE Ins(h, n) = Ins(g, n) /\ Outs(h, n) = Outs(g, n)
  <2>1. CASE n \in D
    <3>1. Ins(h, n) = h.nodes[n].ins /\ Outs(h, n) = h.nodes[n].outs
      BY <1>4, <1>6, <2>1, Ports DEF Sound
    <3>2. Ins(g, n) = g.nodes[n].ins /\ Outs(g, n) = g.nodes[n].outs
      BY <2>1, Ports DEF Sound
    <3>3. QED
      BY <1>2, <1>4, <1>6, <2>1, <3>1, <3>2
  <2>2. CASE n \notin D
    BY <1>4, <1>6, <2>2 DEF Ins, Outs
  <2>3. QED
    BY <2>1, <2>2
<1>8. Alike(g, h)
  BY <1>4, <1>6, <1>7 DEF Alike
<1>9. QED
  BY <1>2, <1>4, <1>6, <1>8 DEF h

LEMMA ToggledOn ==
  ASSUME NEW g, Sound(g), NEW id \in DOMAIN g.nodes
  PROVE  Toggled(g, id) = On(g, id, ~g.nodes[id].on) /\ (~g.nodes[id].on) \in BOOLEAN
BY DEF Toggled, On

LEMMA ToggledSound ==
  ASSUME NEW g, Sound(g), NEW id \in DOMAIN g.nodes
  PROVE  Sound(Toggled(g, id)) /\ Alike(g, Toggled(g, id))
<1> DEFINE b == ~g.nodes[id].on
<1>1. Toggled(g, id) = On(g, id, b) /\ b \in BOOLEAN
  BY ToggledOn
<1> HIDE DEF b
<1>2. Sound(On(g, id, b)) /\ Alike(g, On(g, id, b))
  BY <1>1, OnSound
<1>3. QED
  BY <1>1, <1>2

Slept(g, F) ==
  [g EXCEPT !.nodes = [id \in DOMAIN g.nodes |-> [g.nodes[id] EXCEPT !.suspended = F[id]]]]

LEMMA SleptSound ==
  ASSUME NEW g, Sound(g), NEW F \in [DOMAIN g.nodes -> BOOLEAN]
  PROVE  /\ Sound(Slept(g, F)) /\ Alike(g, Slept(g, F))
         /\ \A id \in DOMAIN g.nodes : /\ Slept(g, F).nodes[id].ins = g.nodes[id].ins
                                       /\ Slept(g, F).nodes[id].outs = g.nodes[id].outs
                                       /\ Slept(g, F).nodes[id].on = g.nodes[id].on
                                       /\ Slept(g, F).nodes[id].suspended = F[id]
                                       /\ Slept(g, F).nodes[id].kind = g.nodes[id].kind
<1> DEFINE D == DOMAIN g.nodes
           new(id) == [g.nodes[id] EXCEPT !.suspended = F[id]]
           N == [id \in D |-> new(id)]
           h == Slept(g, F)
<1>1. g.nodes \in [D -> Node]
  BY DEF Sound, Graph, GraphsOn
<1>2. ASSUME NEW id \in D
      PROVE  /\ new(id) \in Node /\ new(id).kind = g.nodes[id].kind
             /\ new(id).ins = g.nodes[id].ins /\ new(id).outs = g.nodes[id].outs
             /\ new(id).on = g.nodes[id].on /\ new(id).suspended = F[id]
  <2>1. g.nodes[id] \in Node /\ F[id] \in BOOLEAN
    BY <1>1
  <2>2. QED
    BY <2>1, Switching
<1>0. h = [g EXCEPT !.nodes = N]
  BY DEF Slept
<1> HIDE DEF new
<1>3. N \in [D -> Node] /\ DOMAIN N = D /\ \A id \in D : N[id] = new(id)
  BY <1>2
<1> HIDE DEF N, h
<1>4. Steadies(N)
  BY <1>2, <1>3 DEF Steadies, Sound, Steady
<1>5. Sound(h) /\ h.nodes = N /\ Ids(h) = Ids(g) /\ h.wires = g.wires /\ h.inputs = g.inputs /\ h.outputs = g.outputs
  <2>1. LET k == [g EXCEPT !.nodes = N]
        IN Sound(k) /\ k.nodes = N /\ k.inputs = g.inputs /\ k.wires = g.wires /\ Ids(k) = Ids(g)
    BY <1>3, <1>4, RefitNodes
  <2>2. h.outputs = g.outputs
    BY <1>0 DEF Sound, Graph, GraphsOn
  <2>3. QED
    BY <1>0, <2>1, <2>2
<1>6. ASSUME NEW id PROVE Ins(h, id) = Ins(g, id) /\ Outs(h, id) = Outs(g, id)
  <2>1. CASE id \in D
    <3>1. Ins(h, id) = h.nodes[id].ins /\ Outs(h, id) = h.nodes[id].outs
      BY <1>3, <1>5, <2>1, Ports DEF Sound
    <3>2. Ins(g, id) = g.nodes[id].ins /\ Outs(g, id) = g.nodes[id].outs
      BY <2>1, Ports DEF Sound
    <3>3. QED
      BY <1>2, <1>3, <1>5, <2>1, <3>1, <3>2
  <2>2. CASE id \notin D
    BY <1>3, <1>5, <2>2 DEF Ins, Outs
  <2>3. QED
    BY <2>1, <2>2
<1>7. Alike(g, h)
  BY <1>3, <1>5, <1>6 DEF Alike
<1>8. QED
  BY <1>2, <1>3, <1>5, <1>7 DEF h

LEMMA Woken ==
  ASSUME NEW g, Sound(g)
  PROVE  LET F == [id \in DOMAIN g.nodes |-> FALSE]
         IN F \in [DOMAIN g.nodes -> BOOLEAN] /\ Resumed(g) = Slept(g, F)
<1> DEFINE F == [id \in DOMAIN g.nodes |-> FALSE]
<1>1. F \in [DOMAIN g.nodes -> BOOLEAN] /\ \A id \in DOMAIN g.nodes : F[id] = FALSE
  OBVIOUS
<1> HIDE DEF F
<1>2. Slept(g, F) = Resumed(g)
  BY <1>1 DEF Slept, Resumed
<1>3. QED
  BY <1>1, <1>2 DEF F

LEMMA PutToSleep ==
  ASSUME NEW g, Sound(g), Linear(g), NEW X
  PROVE  LET F == [id \in DOMAIN g.nodes |-> g.nodes[id].suspended \/ id \in X]
         IN F \in [DOMAIN g.nodes -> BOOLEAN] /\ Suspended(g, X) = Slept(g, F)
<1> DEFINE b(id) == g.nodes[id].suspended \/ id \in X
           F == [id \in DOMAIN g.nodes |-> b(id)]
<1>1. \A id \in DOMAIN g.nodes : b(id) \in BOOLEAN
  BY DEF Sound, Graph, GraphsOn, Node
<1>2. Suspended(g, X) = [g EXCEPT !.nodes = [id \in DOMAIN g.nodes |-> [g.nodes[id] EXCEPT !.suspended = b(id)]]]
  BY DEF Suspended
<1> HIDE DEF b
<1>3. F \in [DOMAIN g.nodes -> BOOLEAN] /\ \A id \in DOMAIN g.nodes : F[id] = b(id)
  BY <1>1
<1> HIDE DEF F
<1>4. [id \in DOMAIN g.nodes |-> [g.nodes[id] EXCEPT !.suspended = b(id)]]
        = [id \in DOMAIN g.nodes |-> [g.nodes[id] EXCEPT !.suspended = F[id]]]
  BY <1>3
<1>5. Slept(g, F) = Suspended(g, X)
  BY <1>2, <1>4 DEF Slept
<1>6. QED
  BY <1>3, <1>5 DEF F, b

(* Both of them keep a rack. *)
LEMMA AlikeLinear ==
  ASSUME NEW g, NEW h, Sound(g), Sound(h), Alike(g, h), Linear(g)
  PROVE  Linear(h) /\ LinearOrder(h) = LinearOrder(g)
<1>1. Ids(h) = Ids(g) /\ Links(h) = Links(g)
  BY DEF Alike, Links
<1>2. Path(h, LinearOrder(g))
  BY <1>1, LinearPath, PathSame
<1>3. QED
  BY <1>2, PathLinear DEF Sound

CyclicOf(ids, links) ==
  LET left[k \in 0..Cardinality(ids)] ==
        IF k = 0 THEN ids
        ELSE LET some == left[k - 1] IN {id \in some : \E l \in links : l[2] = id /\ l[1] \in some}
  IN left[Cardinality(ids)] # {}

(* A routing is valid by its wires and channels, and by what is not active. *)
LEMMA AlikeValid ==
  ASSUME NEW g, NEW h, Sound(g), Sound(h), Alike(g, h), ValidRouting(g),
         \A id \in DOMAIN h.nodes : ~Active(h.nodes[id]) => Ins(h, id) = Outs(h, id)
  PROVE  ValidRouting(h)
<1>1. Ids(h) = Ids(g) /\ Links(h) = Links(g) /\ h.wires = g.wires
  BY DEF Alike, Links
<1>2. (Cyclic(g) <=> CyclicOf(Ids(g), Links(g))) /\ (Cyclic(h) <=> CyclicOf(Ids(h), Links(h)))
  BY DEF Cyclic, CyclicOf
<1>3. ~Cyclic(h)
  BY <1>1, <1>2 DEF ValidRouting
<1>4. \A id : Ins(h, id) = Ins(g, id) /\ Outs(h, id) = Outs(g, id) /\ Fed(h, id) = Fed(g, id)
  BY <1>1 DEF Alike, Fed
<1>5. \A id \in DOMAIN h.nodes : ~Active(h.nodes[id]) => h.nodes[id].ins = h.nodes[id].outs
  BY Ports DEF Sound
<1>6. \A w \in h.wires : /\ {w[1], w[3]} \subseteq Ids(h) /\ w[2] < Outs(h, w[1]) /\ w[4] < Ins(h, w[3])
  BY <1>1, <1>4 DEF ValidRouting
<1>7. \A id \in Ids(h) : 0..Ins(h, id) - 1 \subseteq Fed(h, id)
  BY <1>1, <1>4 DEF ValidRouting
<1>8. QED
  BY <1>3, <1>5, <1>6, <1>7 DEF ValidRouting

-----------------------------------------------------------------------------
(* The channels along a rack. *)
Some == Nat \ {0}

LEMMA Resizing ==
  ASSUME NEW node \in Node, NEW c \in Some
  PROVE  /\ Resized(node, c) \in Node /\ Resized(node, c).kind = node.kind
         /\ Resized(node, c).on = node.on /\ Resized(node, c).suspended = node.suspended
         /\ Resized(node, c).ins = node.ins /\ Resized(node, c).outs = node.outs
<1> DEFINE size == <<c, c>>
<1>1. size \in (Nat \ {0}) \X (Nat \ {0})
  BY DEF Some
<1> HIDE DEF size
<1>2. Resized(node, c) = node \/ Resized(node, c) = [node EXCEPT !.size = size]
  BY DEF Resized, size
<1>3. QED
  BY <1>1, <1>2 DEF Node

LEMMA Passing ==
  ASSUME NEW node \in Node, NEW c \in Some
  PROVE  /\ Passed(node, c) \in Some
         /\ node.kind = "pass" => Passed(node, c) = c
         /\ ~Active(node) => Passed(node, c) = c
<1>1. Wide \in Some
  BY PluginGraphAssumption DEF Some
<1>2. node.size[2] \in Some /\ node.kind \in Kinds
  BY DEF Node, Some
<1>3. OutputChannels(node, c) \in Some
  BY <1>1, <1>2 DEF OutputChannels
<1>4. node.kind = "pass" => OutputChannels(node, c) = c
  BY DEF OutputChannels
<1>5. QED
  BY <1>3, <1>4 DEF Passed

Leaving(node, c) == Passed(Resized(node, c), c)

LEMMA Leaves ==
  ASSUME NEW node \in Node, NEW c \in Some
  PROVE  /\ Leaving(node, c) \in Some
         /\ node.kind = "pass" => Leaving(node, c) = c
         /\ ~Active(node) => Leaving(node, c) = c
<1> DEFINE m == Resized(node, c)
<1>1. m \in Node /\ m.kind = node.kind /\ m.on = node.on /\ m.suspended = node.suspended
  BY Resizing
<1> HIDE DEF m
<1>2. Passed(m, c) \in Some /\ (m.kind = "pass" => Passed(m, c) = c) /\ (~Active(m) => Passed(m, c) = c)
  BY <1>1, Passing
<1>3. Active(m) <=> Active(node)
  BY <1>1 DEF Active
<1>4. QED
  BY <1>1, <1>2, <1>3 DEF Leaving, m

(* A flow: what arrives at each place, and behind the last; as it is, with *)
(* the matrices resized on the way, or past the plugins that refuse it.    *)
Onward(way, node, c) ==
  IF way = "fitted" THEN Leaving(node, c)
  ELSE IF way = "asking" /\ Refuses(node, c) THEN c ELSE Passed(node, c)
Flow(f, way, r, nodes, c) ==
  f = [k \in 1..Len(r) + 1 |-> IF k = 1 THEN c ELSE Onward(way, nodes[r[k - 1]], f[k - 1])]

(* As a recursion over a function: a table of what each plugin makes of what it is given. *)
Tabled(f, r, F, c) ==
  f = [k \in 1..Len(r) + 1 |-> IF k = 1 THEN c ELSE F[<<r[k - 1], f[k - 1]>>]]

LEMMA TabledExists ==
  ASSUME NEW D, NEW r \in Seq(D), NEW F \in [D \X Some -> Some], NEW c \in Some
  PROVE  \E f \in [1..Len(r) + 1 -> Some] : Tabled(f, r, F, c)
<1> DEFINE n == Len(r) + 1
           H == [x \in Nat \X Some |-> IF x[1] \in 2..n THEN F[<<r[x[1] - 1], x[2]>>] ELSE c]
<1>1. n \in Nat /\ n >= 1 /\ \A k \in 2..n : r[k - 1] \in D
  <2>1. \A k \in 2..n : k - 1 \in 1..Len(r)
    OBVIOUS
  <2>2. QED
    BY <2>1
<1> HIDE DEF n
<1>2. H \in [Nat \X Some -> Some]
  <2>1. ASSUME NEW x \in Nat \X Some PROVE (IF x[1] \in 2..n THEN F[<<r[x[1] - 1], x[2]>>] ELSE c) \in Some
    <3>1. CASE x[1] \in 2..n
      <4>1. <<r[x[1] - 1], x[2]>> \in D \X Some
        BY <1>1, <3>1
      <4>2. QED
        BY <3>1, <4>1
    <3>2. CASE x[1] \notin 2..n
      BY <3>2
    <3>3. QED
      BY <3>1, <3>2
  <2>2. QED
    BY <2>1
<1>3. ASSUME NEW k \in 2..n, NEW x \in Some PROVE H[<<k, x>>] = F[<<r[k - 1], x>>]
  <2>1. <<k, x>> \in Nat \X Some
    BY <1>1
  <2>2. H[<<k, x>>] = IF <<k, x>>[1] \in 2..n THEN F[<<r[<<k, x>>[1] - 1], <<k, x>>[2]>>] ELSE c
    BY <2>1
  <2>3. QED
    BY <2>2
<1> HIDE DEF H
<1>4. PICK f : Recursion(f, 1, n, Some, c, H)
  BY <1>1, <1>2, Recursive
<1>5. f \in [1..n -> Some]
  BY <1>4 DEF Recursion
<1>6. ASSUME NEW k \in 1..n PROVE f[k] = IF k = 1 THEN c ELSE F[<<r[k - 1], f[k - 1]>>]
  <2>1. CASE k = 1
    BY <1>4, <2>1 DEF Recursion
  <2>2. CASE k # 1
    <3>1. k \in 2..n /\ k - 1 \in 1..n
      BY <1>1, <2>2
    <3>2. H[<<k, f[k - 1]>>] = F[<<r[k - 1], f[k - 1]>>]
      BY <1>3, <1>5, <3>1
    <3>3. QED
      BY <1>4, <2>2, <3>2 DEF Recursion
  <2>3. QED
    BY <2>1, <2>2
<1>7. Tabled(f, r, F, c)
  <2>1. f = [k \in 1..n |-> f[k]]
    BY <1>5
  <2>2. f = [k \in 1..n |-> IF k = 1 THEN c ELSE F[<<r[k - 1], f[k - 1]>>]]
    BY <1>6, <2>1
  <2>3. QED
    BY <2>2 DEF Tabled, n
<1>8. QED
  BY <1>5, <1>7 DEF n

(* Whatever function the definition chooses has the channels of a flow. *)
Channels(f, way, r, nodes, c) ==
  /\ f \in [1..Len(r) + 1 -> Some] /\ f[1] = c
  /\ \A k \in 1..Len(r) : f[k + 1] = Onward(way, nodes[r[k]], f[k])

LEMMA FlowIs ==
  ASSUME NEW way, NEW D, NEW r \in Seq(D), NEW nodes \in [D -> Node], NEW c \in Some
  PROVE  /\ \E f : Flow(f, way, r, nodes, c)
         /\ \A f : Flow(f, way, r, nodes, c) => Channels(f, way, r, nodes, c)
<1> DEFINE n == Len(r) + 1
           F == [x \in D \X Some |-> Onward(way, nodes[x[1]], x[2])]
<1>1. n \in Nat /\ n >= 1 /\ Len(r) = n - 1 /\ \A k \in 1..n - 1 : r[k] \in D
  OBVIOUS
<1>2. F \in [D \X Some -> Some]
  <2>1. ASSUME NEW x \in D \X Some PROVE Onward(way, nodes[x[1]], x[2]) \in Some
    BY Passing, Leaves DEF Onward
  <2>2. QED
    BY <2>1
<1>3. ASSUME NEW id \in D, NEW x \in Some PROVE F[<<id, x>>] = Onward(way, nodes[id], x)
  <2>1. F[<<id, x>>] = Onward(way, nodes[<<id, x>>[1]], <<id, x>>[2])
    BY <<id, x>> \in D \X Some
  <2>2. QED
    BY <2>1
<1> HIDE DEF F
<1>4. PICK t \in [1..Len(r) + 1 -> Some] : Tabled(t, r, F, c)
  BY <1>2, TabledExists
<1> HIDE DEF n
<1>5. Flow(t, way, r, nodes, c)
  <2>1. ASSUME NEW k \in 1..n, k # 1 PROVE F[<<r[k - 1], t[k - 1]>>] = Onward(way, nodes[r[k - 1]], t[k - 1])
    <3>1. k - 1 \in 1..n - 1 /\ k - 1 \in 1..n
      BY <1>1, <2>1
    <3>2. r[k - 1] \in D /\ t[k - 1] \in Some
      BY <1>1, <3>1 DEF n
    <3>3. QED
      BY <1>3, <3>2
  <2>2. t = [k \in 1..n |-> IF k = 1 THEN c ELSE F[<<r[k - 1], t[k - 1]>>]]
    BY <1>4 DEF Tabled, n
  <2>3. t = [k \in 1..n |-> IF k = 1 THEN c ELSE Onward(way, nodes[r[k - 1]], t[k - 1])]
    <3>1. \A k \in 1..n : (IF k = 1 THEN c ELSE F[<<r[k - 1], t[k - 1]>>])
                            = (IF k = 1 THEN c ELSE Onward(way, nodes[r[k - 1]], t[k - 1]))
      BY <2>1
    <3>2. QED
      BY <2>2, <3>1
  <2>4. QED
    BY <2>3 DEF Flow, n
<1>6. ASSUME NEW f, Flow(f, way, r, nodes, c)
      PROVE  /\ f \in [1..n -> Some] /\ f[1] = c
             /\ \A k \in 1..n - 1 : f[k + 1] = Onward(way, nodes[r[k]], f[k])
  <2>1. f = [k \in 1..n |-> IF k = 1 THEN c ELSE Onward(way, nodes[r[k - 1]], f[k - 1])]
    BY <1>6 DEF Flow, n
  <2>2. \A k \in 1..n : f[k] = IF k = 1 THEN c ELSE Onward(way, nodes[r[k - 1]], f[k - 1])
    BY <2>1, Zenon
  <2>3. f[1] = c /\ \A k \in 1..n - 1 : f[k + 1] = Onward(way, nodes[r[k]], f[k])
    <3>1. 1 \in 1..n /\ \A k \in 1..n - 1 : k + 1 \in 1..n /\ k + 1 # 1 /\ (k + 1) - 1 = k
      BY <1>1
    <3>2. QED
      BY <2>2, <3>1
  <2> DEFINE T == {k \in Nat : f[k] \in Some}
  <2>4. 1 \in T
    BY <2>3
  <2>5. ASSUME NEW k \in 1..n - 1, k \in T PROVE k + 1 \in T
    <3>1. nodes[r[k]] \in Node /\ k \in Nat /\ f[k] \in Some
      BY <1>1, <2>5
    <3>2. Onward(way, nodes[r[k]], f[k]) \in Some
      BY <3>1, Passing, Leaves DEF Onward
    <3>3. QED
      BY <2>3, <3>1, <3>2
  <2> HIDE DEF T
  <2>6. \A k \in 1..n : k \in T
    BY <1>1, <2>4, <2>5, CountUp, 1 \in Nat
  <2>7. f \in [1..n -> Some]
    <3>1. \A k \in 1..n : f[k] \in Some
      BY <2>6 DEF T
    <3>2. f = [k \in 1..n |-> f[k]]
      BY <2>1
    <3>3. QED
      BY <3>1, <3>2
  <2>8. QED
    BY <2>3, <2>7
<1>7. QED
  BY <1>1, <1>5, <1>6 DEF n, Channels

-----------------------------------------------------------------------------
(* update_channel_dependent_plugins: the counts agree along the rack. *)
Counts(h, s, f) ==
  /\ f \in [1..Len(s) - 1 -> Some]
  /\ \A k \in 1..Len(s) - 1 : Outs(h, s[k]) = f[k] /\ Ins(h, s[k + 1]) = f[k]
  /\ \A id \in DOMAIN h.nodes : ~Active(h.nodes[id]) => h.nodes[id].ins = h.nodes[id].outs

RecountFlow(g) ==
  CHOOSE f : f = [k \in 1..Len(Rack(g)) + 1 |->
                   IF k = 1 THEN Larger(g.inputs, 1)
                   ELSE Passed(Resized(g.nodes[Rack(g)[k - 1]], f[k - 1]), f[k - 1])]
CountedAt(g, f, k) == [Resized(g.nodes[Rack(g)[k]], f[k]) EXCEPT !.ins = f[k], !.outs = f[k + 1]]
PlaceOf(r, id) == CHOOSE k \in DOMAIN r : r[k] = id

LEMMA RecountedBy ==
  ASSUME NEW g, Sound(g), NEW s, Path(g, s)
  PROVE  /\ Flow(RecountFlow(g), "fitted", Rack(g), g.nodes, g.inputs)
         /\ Recounted(g) = [g EXCEPT !.nodes = [id \in DOMAIN g.nodes |->
                                                 CountedAt(g, RecountFlow(g), PlaceOf(Rack(g), id))],
                                     !.outputs = Larger(RecountFlow(g)[Len(Rack(g)) + 1], 1)]
<1> DEFINE r == Rack(g)
           c == g.inputs
           D == DOMAIN g.nodes
           nodes == g.nodes
           Eq(f) == f = [k \in 1..Len(r) + 1 |->
                          IF k = 1 THEN Larger(c, 1) ELSE Passed(Resized(nodes[r[k - 1]], f[k - 1]), f[k - 1])]
<1>1. r \in Seq(D) /\ nodes \in [D -> Node] /\ c \in Some
  BY PathPlaces DEF Places, Sound, Graph, GraphsOn, Some
<1>2. Larger(c, 1) = c
  BY <1>1 DEF Larger, Some
<1> HIDE DEF r, c, D, nodes
<1>3. \A f : Flow(f, "fitted", r, nodes, c) <=> Eq(f)
  <2>1. \A f, k : Onward("fitted", nodes[r[k - 1]], f[k - 1]) = Passed(Resized(nodes[r[k - 1]], f[k - 1]), f[k - 1])
    BY DEF Onward, Leaving
  <2>2. ASSUME NEW f
        PROVE  [k \in 1..Len(r) + 1 |-> IF k = 1 THEN c ELSE Onward("fitted", nodes[r[k - 1]], f[k - 1])]
                 = [k \in 1..Len(r) + 1 |->
                     IF k = 1 THEN Larger(c, 1) ELSE Passed(Resized(nodes[r[k - 1]], f[k - 1]), f[k - 1])]
    BY <1>2, <2>1, Zenon
  <2>3. QED
    BY <2>2, Zenon DEF Flow
<1>4. \E f : Flow(f, "fitted", r, nodes, c)
  BY <1>1, FlowIs
<1>5. Eq(CHOOSE f : Eq(f))
  <2> HIDE DEF Eq
  <2>1. QED
    BY <1>3, <1>4
<1>6. RecountFlow(g) = CHOOSE f : Eq(f)
  BY DEF RecountFlow, r, c, nodes
<1>7. Flow(RecountFlow(g), "fitted", r, nodes, c)
  <2> HIDE DEF Eq
  <2>1. QED
    BY <1>3, <1>5, <1>6
<1>8. Recounted(g) = [g EXCEPT !.nodes = [id \in DOMAIN g.nodes |->
                                                 CountedAt(g, RecountFlow(g), PlaceOf(Rack(g), id))],
                                     !.outputs = Larger(RecountFlow(g)[Len(Rack(g)) + 1], 1)]
  BY DEF Recounted, RecountFlow, CountedAt, PlaceOf
<1>9. QED
  BY <1>7, <1>8 DEF r, c, nodes

(* The same plugins, switched as they were. *)
Switches(g, h) ==
  /\ DOMAIN h.nodes = DOMAIN g.nodes
  /\ \A id \in DOMAIN g.nodes : /\ h.nodes[id].kind = g.nodes[id].kind /\ h.nodes[id].on = g.nodes[id].on
                                /\ h.nodes[id].suspended = g.nodes[id].suspended

LEMMA RecountedIs ==
  ASSUME NEW g, Sound(g), NEW s, Path(g, s)
  PROVE  /\ Sound(Recounted(g)) /\ Path(Recounted(g), s) /\ DOMAIN Recounted(g).nodes = DOMAIN g.nodes
         /\ Switches(g, Recounted(g))
         /\ \E f : Counts(Recounted(g), s, f)
<1> DEFINE f == RecountFlow(g)
           r == Rack(g)
           D == DOMAIN g.nodes
           m == Len(r)
           at(id) == PlaceOf(r, id)
           new(id) == CountedAt(g, f, at(id))
           N == [id \in D |-> new(id)]
           o == Larger(f[m + 1], 1)
           h == Recounted(g)
<1>0. g \in GraphsOn(D) /\ g.nodes \in [D -> Node] /\ g.inputs \in Some
  BY DEF Sound, Graph, GraphsOn, Some
<1>1. /\ r \in Seq(D) /\ m \in Nat /\ Len(s) - 2 = m /\ Len(s) - 1 = m + 1 /\ DOMAIN r = 1..m
      /\ s[1] = "Input" /\ s[m + 2] = "Output"
      /\ \A k \in 1..m : r[k] = s[k + 1] /\ r[k] \in D
      /\ \A id \in D : \E k \in 1..m : r[k] = id
      /\ \A j, k \in 1..m : r[j] = r[k] => j = k
  <2>1. Places(g, s)
    BY PathPlaces DEF Sound
  <2>2. s[1] = "Input" /\ s[Len(s)] = "Output"
    BY DEF Path
  <2>3. Len(s) = m + 2 /\ m \in Nat /\ r \in Seq(D)
    BY <2>1 DEF Places
  <2>4. \A k \in 1..m : r[k] = s[k + 1] /\ r[k] \in D
    BY <2>1, <2>3 DEF Places
  <2>5. \A id \in D : \E k \in 1..m : r[k] = id
    BY <2>1, <2>3 DEF Places
  <2>6. \A j, k \in 1..m : r[j] = r[k] => j = k
    BY <2>1, <2>3 DEF Places
  <2>7. QED
    BY <2>2, <2>3, <2>4, <2>5, <2>6
<1>2. /\ Flow(f, "fitted", r, g.nodes, g.inputs)
      /\ h = [g EXCEPT !.nodes = N, !.outputs = o]
  BY RecountedBy
<1> HIDE DEF f, r, h
<1>3. /\ f \in [1..m + 1 -> Some] /\ f[1] = g.inputs
      /\ \A k \in 1..m : f[k + 1] = Leaving(g.nodes[r[k]], f[k])
  <2>1. /\ f \in [1..Len(r) + 1 -> Some] /\ f[1] = g.inputs
        /\ \A k \in 1..Len(r) : f[k + 1] = Onward("fitted", g.nodes[r[k]], f[k])
    <3> DEFINE nodes == g.nodes
               c == g.inputs
    <3>1. r \in Seq(D) /\ nodes \in [D -> Node] /\ c \in Some /\ Flow(f, "fitted", r, nodes, c)
      BY <1>0, <1>1, <1>2
    <3> HIDE DEF nodes, c, D
    <3>2. QED
      <4>1. /\ \E e : Flow(e, "fitted", r, nodes, c)
            /\ \A e : Flow(e, "fitted", r, nodes, c) => Channels(e, "fitted", r, nodes, c)
        BY <3>1, FlowIs
      <4>2. Channels(f, "fitted", r, nodes, c)
        BY <3>1, <4>1
      <4>3. QED
        BY <4>2 DEF Channels, nodes, c
  <2>2. QED
    BY <2>1 DEF Onward
<1> HIDE DEF m
<1>4. ASSUME NEW id \in D PROVE at(id) \in 1..m /\ r[at(id)] = id
  <2>1. \E k \in DOMAIN r : r[k] = id
    BY <1>1
  <2>2. QED
    BY <1>1, <2>1 DEF PlaceOf
<1> HIDE DEF at
<1>5. ASSUME NEW k \in 1..m
      PROVE  /\ CountedAt(g, f, k) \in Node
             /\ CountedAt(g, f, k).ins = f[k] /\ CountedAt(g, f, k).outs = f[k + 1]
             /\ CountedAt(g, f, k).kind = g.nodes[r[k]].kind
             /\ CountedAt(g, f, k).on = g.nodes[r[k]].on
             /\ CountedAt(g, f, k).suspended = g.nodes[r[k]].suspended
             /\ g.nodes[r[k]].kind = "pass" => f[k] = f[k + 1]
             /\ ~Active(CountedAt(g, f, k)) => f[k] = f[k + 1]
  <2> DEFINE node == g.nodes[r[k]]
             c == f[k]
             e == f[k + 1]
             fit == Resized(node, c)
             mm == [fit EXCEPT !.ins = c, !.outs = e]
  <2>1. node \in Node /\ c \in Some /\ e \in Some /\ e = Leaving(node, c)
    <3>1. k \in 1..m + 1 /\ k + 1 \in 1..m + 1
      BY <1>1
    <3>2. QED
      BY <1>0, <1>1, <1>3, <3>1
  <2>2. CountedAt(g, f, k) = mm
    BY DEF CountedAt, r
  <2> HIDE DEF node, c, e
  <2>3. fit \in Node /\ fit.kind = node.kind /\ fit.on = node.on /\ fit.suspended = node.suspended
    BY <2>1, Resizing
  <2>4. (node.kind = "pass" => e = c) /\ (~Active(node) => e = c)
    BY <2>1, Leaves
  <2> HIDE DEF fit
  <2>5. /\ mm \in Node /\ mm.ins = c /\ mm.outs = e /\ mm.kind = fit.kind
        /\ mm.on = fit.on /\ mm.suspended = fit.suspended
    BY <2>1, <2>3 DEF Node, Some
  <2> HIDE DEF mm
  <2>6. Active(mm) <=> Active(node)
    BY <2>3, <2>5 DEF Active
  <2>7. QED
    BY <2>2, <2>3, <2>4, <2>5, <2>6 DEF node, c, e
<1>6. N \in [D -> Node] /\ DOMAIN N = D /\ \A id \in D : N[id] = new(id)
  BY <1>4, <1>5
<1> HIDE DEF N
<1>7. Steadies(N)
  <2>1. ASSUME NEW id \in D, N[id].kind = "pass" PROVE N[id].ins = N[id].outs
    <3>1. N[id].ins = f[at(id)] /\ N[id].outs = f[at(id) + 1] /\ N[id].kind = g.nodes[id].kind
      BY <1>4, <1>5, <1>6
    <3>2. QED
      BY <1>4, <1>5, <2>1, <3>1
  <2>2. ASSUME "ReplayGain" \in D PROVE N["ReplayGain"].kind = "pass"
    <3>1. N["ReplayGain"].kind = g.nodes["ReplayGain"].kind
      BY <1>4, <1>5, <1>6, <2>2
    <3>2. QED
      BY <2>2, <3>1 DEF Sound, Steady
  <2>3. QED
    BY <1>6, <2>1, <2>2 DEF Steadies
<1>8. o \in Nat /\ o = f[m + 1]
  <2>1. f[m + 1] \in Some
    BY <1>1, <1>3
  <2>2. QED
    BY <2>1 DEF Larger, Some, m
<1> HIDE DEF o
<1>9. h = Refit(g, N, g.inputs, o)
  BY <1>0, <1>2 DEF GraphsOn, Refit
<1>10. Sound(h) /\ h.nodes = N /\ h.inputs = g.inputs /\ h.outputs = o /\ h.wires = g.wires /\ Ids(h) = Ids(g)
  <2>1. g.inputs \in Nat \ {0}
    BY <1>0 DEF Some
  <2>2. LET k == Refit(g, N, g.inputs, o)
        IN Sound(k) /\ k.nodes = N /\ k.inputs = g.inputs /\ k.outputs = o /\ k.wires = g.wires /\ Ids(k) = Ids(g)
    BY <1>6, <1>7, <1>8, <2>1, Refitting
  <2>3. QED
    BY <1>9, <2>2
<1>11. Path(h, s)
  BY <1>10, PathSame DEF Links
<1>12. ASSUME NEW k \in 1..m PROVE Ins(h, r[k]) = f[k] /\ Outs(h, r[k]) = f[k + 1]
  <2>1. at(r[k]) = k
    BY <1>1, <1>4
  <2>2. N[r[k]] = CountedAt(g, f, k)
    BY <1>1, <1>6, <2>1
  <2>3. r[k] \in DOMAIN h.nodes
    BY <1>1, <1>6, <1>10
  <2>4. Graph(h)
    BY <1>10 DEF Sound
  <2>5. Ins(h, r[k]) = h.nodes[r[k]].ins /\ Outs(h, r[k]) = h.nodes[r[k]].outs
    BY <2>3, <2>4, Ports
  <2>6. QED
    BY <1>5, <1>10, <2>2, <2>5
<1>13. ASSUME NEW k \in 1..m + 1 PROVE Outs(h, s[k]) = f[k] /\ Ins(h, s[k + 1]) = f[k]
  <2>1. Outs(h, s[k]) = f[k]
    <3>1. CASE k = 1
      BY <1>1, <1>3, <1>10, <3>1, Ports DEF Sound
    <3>2. CASE k # 1
      <4>1. k - 1 \in 1..m /\ (k - 1) + 1 = k
        BY <1>1, <3>2
      <4>2. Outs(h, r[k - 1]) = f[(k - 1) + 1] /\ r[k - 1] = s[(k - 1) + 1]
        BY <1>1, <1>12, <4>1
      <4>3. QED
        BY <4>1, <4>2
    <3>3. QED
      BY <3>1, <3>2
  <2>2. Ins(h, s[k + 1]) = f[k]
    <3>1. CASE k = m + 1
      <4>1. s[k + 1] = "Output"
        BY <1>1, <3>1
      <4>2. QED
        BY <1>8, <1>10, <3>1, <4>1, Ports DEF Sound
    <3>2. CASE k # m + 1
      <4>1. k \in 1..m
        BY <1>1, <3>2
      <4>2. QED
        BY <1>1, <1>12, <4>1
    <3>3. QED
      BY <3>1, <3>2
  <2>3. QED
    BY <2>1, <2>2
<1>14. ASSUME NEW id \in DOMAIN h.nodes, ~Active(h.nodes[id]) PROVE h.nodes[id].ins = h.nodes[id].outs
  <2>1. id \in D /\ h.nodes[id] = CountedAt(g, f, at(id)) /\ at(id) \in 1..m
    BY <1>4, <1>6, <1>10
  <2>2. QED
    BY <1>5, <1>14, <2>1
<1>15. Counts(h, s, f)
  BY <1>1, <1>3, <1>13, <1>14 DEF Counts
<1>16. ASSUME NEW id \in D
       PROVE  /\ h.nodes[id].kind = g.nodes[id].kind /\ h.nodes[id].on = g.nodes[id].on
              /\ h.nodes[id].suspended = g.nodes[id].suspended
  <2>1. h.nodes[id] = CountedAt(g, f, at(id)) /\ at(id) \in 1..m /\ r[at(id)] = id
    BY <1>4, <1>6, <1>10
  <2>2. QED
    BY <1>5, <2>1
<1>17. Switches(g, h)
  BY <1>6, <1>10, <1>16 DEF Switches
<1>18. QED
  BY <1>6, <1>10, <1>11, <1>15, <1>17 DEF h

(* rewire_linear_chain_per_channel: port by port along the rack. *)
PortsBetween(g, x, y) == Smaller(Outs(g, x), Ins(g, y))

LEMMA RewiredIs ==
  ASSUME NEW g, Sound(g), NEW s, Path(g, s), NEW f, Counts(g, s, f)
  PROVE  /\ Sound(Rewired(g)) /\ Path(Rewired(g), s) /\ ValidRouting(Rewired(g))
         /\ Rewired(g).nodes = g.nodes
<1> DEFINE n == Len(s)
           ports(x, y) == PortsBetween(g, x, y)
           Kept == {w \in g.wires : w[2] < ports(w[1], w[3]) /\ w[4] < ports(w[1], w[3])}
           Row(k) == Straight(s[k], s[k + 1], ports(s[k], s[k + 1]))
           W == Kept \cup UNION {Row(k) : k \in 1..n - 1}
           h == [g EXCEPT !.wires = W]
<1>0. Graph(g) /\ LinearOrder(g) = s
  BY PathLinear DEF Sound
<1>1. /\ n \in Nat /\ n >= 2 /\ s \in Seq(Ids(g)) /\ s[1] = "Input" /\ s[n] = "Output"
      /\ \A j, k \in 1..n : s[j] = s[k] => j = k
      /\ \A id \in Ids(g) : \E k \in 1..n : s[k] = id
      /\ \A x, y : <<x, y>> \in Links(g) <=> \E k \in 1..n - 1 : x = s[k] /\ y = s[k + 1]
  BY DEF Path
<1>14. \A x, y : <<x, y>> \in Links(g) => \E k \in 1..n - 1 : x = s[k] /\ y = s[k + 1]
  <2>1. \A x, y : <<x, y>> \in Links(g) <=> \E k \in 1..n - 1 : x = s[k] /\ y = s[k + 1]
    BY DEF Path
  <2>2. ASSUME NEW x, NEW y, <<x, y>> \in Links(g) PROVE \E k \in 1..n - 1 : x = s[k] /\ y = s[k + 1]
    BY <2>1, <2>2
  <2>3. QED
    BY <2>2
<1>15. n \in Nat /\ n >= 2 /\ s[n] = "Output"
  BY <1>1
<1>16. \A k \in 1..n : s[k] \in Ids(g)
  <2>1. s \in Seq(Ids(g))
    BY DEF Path
  <2>2. QED
    BY <2>1
<1>17. \A j, k \in 1..n : s[j] = s[k] => j = k
  BY <1>1
<1>2. Rewired(g) = h
  BY <1>0 DEF Rewired, PortsBetween
<1>3. ASSUME NEW k \in 1..n - 1
      PROVE  /\ f[k] \in Some /\ ports(s[k], s[k + 1]) = f[k]
             /\ Outs(g, s[k]) = f[k] /\ Ins(g, s[k + 1]) = f[k]
             /\ s[k] \in Ids(g) /\ s[k + 1] \in Ids(g) /\ s[k] # "Output"
  <2>1. f[k] \in Some /\ Outs(g, s[k]) = f[k] /\ Ins(g, s[k + 1]) = f[k]
    BY DEF Counts
  <2>2. ports(s[k], s[k + 1]) = f[k]
    BY <2>1 DEF PortsBetween, Smaller
  <2>3. k \in 1..n /\ k + 1 \in 1..n /\ n \in 1..n /\ k # n
    BY <1>15
  <2> HIDE DEF n
  <2>4. s[k] \in Ids(g) /\ s[k + 1] \in Ids(g)
    BY <1>16, <2>3
  <2>5. s[k] # "Output"
    BY <1>15, <1>17, <2>3
  <2>6. QED
    BY <2>1, <2>2, <2>4, <2>5
<1> HIDE DEF n, ports
<1>4. ASSUME NEW k \in 1..n - 1
      PROVE  /\ Row(k) \subseteq Wire
             /\ \A w \in Row(k) : w[1] = s[k] /\ w[3] = s[k + 1] /\ w[2] < f[k] /\ w[4] < f[k]
             /\ \A p \in 0..f[k] - 1 : <<s[k], p, s[k + 1], p>> \in Row(k)
  <2>1. s[k] \in Plugins \cup Special /\ s[k + 1] \in Plugins \cup Special /\ f[k] \in Nat
    BY <1>0, <1>3, PlugIds DEF Some
  <2>2. Row(k) = Straight(s[k], s[k + 1], f[k])
    BY <1>3
  <2>3. /\ Straight(s[k], s[k + 1], f[k]) \subseteq Wire
        /\ \A w \in Straight(s[k], s[k + 1], f[k]) :
             w[1] = s[k] /\ w[3] = s[k + 1] /\ w[2] = w[4] /\ w[2] \in 0..f[k] - 1
        /\ \A p \in 0..f[k] - 1 : <<s[k], p, s[k + 1], p>> \in Straight(s[k], s[k + 1], f[k])
    BY <2>1, Straights
  <2> HIDE DEF Row
  <2>4. QED
    BY <2>1, <2>2, <2>3
<1> HIDE DEF Row
<1>5. ASSUME NEW w \in Kept
      PROVE  w \in g.wires /\ \E k \in 1..n - 1 : w[1] = s[k] /\ w[3] = s[k + 1] /\ w[2] < f[k] /\ w[4] < f[k]
  <2>1. w \in g.wires /\ w[2] < ports(w[1], w[3]) /\ w[4] < ports(w[1], w[3])
    OBVIOUS
  <2>2. <<w[1], w[3]>> \in Links(g)
    BY <2>1 DEF Links
  <2>3. PICK k \in 1..n - 1 : w[1] = s[k] /\ w[3] = s[k + 1]
    <3> DEFINE x == w[1]
               y == w[3]
    <3>1. <<x, y>> \in Links(g)
      BY <2>2
    <3> HIDE DEF x, y
    <3>2. \E k \in 1..n - 1 : x = s[k] /\ y = s[k + 1]
      BY <1>14, <3>1
    <3>3. QED
      BY <3>2 DEF x, y
  <2>4. QED
    BY <1>3, <2>1, <2>3
<1> HIDE DEF Kept
<1>6. ASSUME NEW w \in W
      PROVE  /\ w \in Wire
             /\ \E k \in 1..n - 1 : w[1] = s[k] /\ w[3] = s[k + 1] /\ w[2] < f[k] /\ w[4] < f[k]
  <2>1. CASE w \in Kept
    BY <1>5, <2>1 DEF Sound, Graph, GraphsOn
  <2>2. CASE w \notin Kept
    <3>1. PICK k \in 1..n - 1 : w \in Row(k)
      BY <2>2
    <3>2. QED
      BY <1>4, <3>1
  <2>3. QED
    BY <2>1, <2>2
<1>7. ASSUME NEW k \in 1..n - 1, NEW p \in 0..f[k] - 1 PROVE <<s[k], p, s[k + 1], p>> \in W
  BY <1>4
<1> HIDE DEF W
<1>8. Sound(h) /\ h.nodes = g.nodes /\ h.inputs = g.inputs /\ h.outputs = g.outputs /\ h.wires = W /\ Ids(h) = Ids(g)
  <2>1. W \subseteq Wire /\ \A w \in W : w[1] \in Ids(g) /\ w[3] \in Ids(g) /\ w[1] # "Output"
    BY <1>3, <1>6
  <2>2. QED
    BY <2>1, Rewiring
<1> HIDE DEF h
<1>9. \A x, y : <<x, y>> \in Links(h) <=> <<x, y>> \in Links(g)
  <2>1. ASSUME NEW x, NEW y, <<x, y>> \in Links(h) PROVE <<x, y>> \in Links(g)
    <3>0. Links(h) = {<<w[1], w[3]>> : w \in W}
      BY <1>8 DEF Links
    <3>1. PICK w \in W : <<x, y>> = <<w[1], w[3]>>
      BY <2>1, <3>0
    <3>2. PICK k \in 1..n - 1 : w[1] = s[k] /\ w[3] = s[k + 1]
      BY <1>6, Zenon
    <3>3. x = s[k] /\ y = s[k + 1]
      BY <3>1, <3>2
    <3>4. <<s[k], s[k + 1]>> \in Links(g)
      BY <1>1, Zenon
    <3>5. QED
      BY <3>3, <3>4
  <2>2. ASSUME NEW x, NEW y, <<x, y>> \in Links(g) PROVE <<x, y>> \in Links(h)
    <3>1. PICK k \in 1..n - 1 : x = s[k] /\ y = s[k + 1]
      BY <1>1, <2>2
    <3> DEFINE v == <<x, 0, y, 0>>
    <3>2. v \in W
      BY <1>3, <1>7, <3>1, 0 \in 0..f[k] - 1 DEF Some
    <3>3. <<x, y>> = <<v[1], v[3]>>
      OBVIOUS
    <3> HIDE DEF v
    <3>4. QED
      BY <1>8, <3>2, <3>3 DEF Links
  <2>3. QED
    BY <2>1, <2>2
<1>10. Path(h, s)
  BY <1>8, <1>9 DEF Path
<1>11. \A id : Ins(h, id) = Ins(g, id) /\ Outs(h, id) = Outs(g, id)
  BY <1>8 DEF Ins, Outs
<1>12. ValidRouting(h)
  <2>1. ASSUME NEW w \in h.wires
        PROVE  {w[1], w[3]} \subseteq Ids(h) /\ w[2] < Outs(h, w[1]) /\ w[4] < Ins(h, w[3])
    <3>1. PICK k \in 1..n - 1 : w[1] = s[k] /\ w[3] = s[k + 1] /\ w[2] < f[k] /\ w[4] < f[k]
      BY <1>6, <1>8
    <3>2. QED
      BY <1>3, <1>8, <1>11, <3>1
  <2>2. ~Cyclic(h)
    BY <1>8, <1>10, PathAcyclic DEF Sound
  <2>3. \A id \in DOMAIN h.nodes : ~Active(h.nodes[id]) => h.nodes[id].ins = h.nodes[id].outs
    BY <1>8 DEF Counts
  <2>4. ASSUME NEW id \in Ids(h) PROVE 0..Ins(h, id) - 1 \subseteq Fed(h, id)
    <3>1. PICK j \in 1..n : s[j] = id
      BY <1>1, <1>8
    <3>2. CASE j = 1
      <4>1. Ins(h, id) = 0
        BY <1>0, <1>1, <1>11, <3>1, <3>2, Ports
      <4>2. QED
        BY <4>1
    <3>3. CASE j # 1
      <4> DEFINE k == j - 1
      <4>1. k \in 1..n - 1 /\ k + 1 = j
        BY <1>1, <3>3
      <4> HIDE DEF k
      <4>2. Ins(h, id) = f[k] /\ s[k + 1] = id
        BY <1>3, <1>11, <3>1, <4>1
      <4>3. ASSUME NEW p \in 0..f[k] - 1 PROVE p \in Fed(h, id)
        <5> DEFINE v == <<s[k], p, s[k + 1], p>>
        <5>1. v \in h.wires
          BY <1>7, <1>8, <4>1
        <5>2. v[3] = id /\ v[4] = p
          BY <4>2
        <5> HIDE DEF v
        <5>3. QED
          BY <5>1, <5>2 DEF Fed
      <4>4. QED
        BY <4>2, <4>3
    <3>4. QED
      BY <3>2, <3>3
  <2>5. QED
    BY <2>1, <2>2, <2>3, <2>4 DEF ValidRouting
<1>13. QED
  BY <1>2, <1>8, <1>10, <1>12

(* What may be played: sound, and valid as a routing. *)
Routed(g) == Sound(g) /\ ValidRouting(g)

LEMMA UpdatedLinear ==
  ASSUME NEW g, Sound(g), Linear(g)
  PROVE  /\ Routed(Updated(g)) /\ Linear(Updated(g)) /\ LinearOrder(Updated(g)) = LinearOrder(g)
         /\ DOMAIN Updated(g).nodes = DOMAIN g.nodes /\ Switches(g, Updated(g))
<1> DEFINE s == LinearOrder(g)
           h == Recounted(g)
<1>1. Path(g, s)
  BY LinearPath
<1> HIDE DEF s, h
<1>2. Sound(h) /\ Path(h, s) /\ DOMAIN h.nodes = DOMAIN g.nodes /\ Switches(g, h) /\ \E f : Counts(h, s, f)
  BY <1>1, RecountedIs DEF h
<1>3. PICK f : Counts(h, s, f)
  BY <1>2
<1>4. Sound(Rewired(h)) /\ Path(Rewired(h), s) /\ ValidRouting(Rewired(h)) /\ Rewired(h).nodes = h.nodes
  BY <1>2, <1>3, RewiredIs
<1>5. Updated(g) = Rewired(h)
  BY DEF Updated, h
<1>6. Linear(Rewired(h)) /\ LinearOrder(Rewired(h)) = s
  BY <1>4, PathLinear DEF Sound
<1>7. Switches(g, Rewired(h))
  BY <1>2, <1>4 DEF Switches
<1>8. QED
  BY <1>2, <1>4, <1>5, <1>6, <1>7 DEF Routed, s

LEMMA UpdatedSound ==
  ASSUME NEW g, Sound(g)
  PROVE  /\ Sound(Updated(g)) /\ DOMAIN Updated(g).nodes = DOMAIN g.nodes
         /\ Switches(g, Updated(g)) /\ Rack(Updated(g)) = Rack(g)
         /\ Linear(Updated(g)) => Linear(g) /\ Routed(Updated(g))
         /\ Routed(g) => Routed(Updated(g))
<1>1. CASE Linear(g)
  <2>1. /\ Routed(Updated(g)) /\ Linear(Updated(g)) /\ LinearOrder(Updated(g)) = LinearOrder(g)
        /\ DOMAIN Updated(g).nodes = DOMAIN g.nodes /\ Switches(g, Updated(g))
    BY <1>1, UpdatedLinear
  <2>2. Rack(Updated(g)) = Rack(g)
    BY <1>1, <2>1 DEF Rack, Ids
  <2>3. QED
    BY <1>1, <2>1, <2>2 DEF Routed
<1>2. CASE ~Linear(g)
  <2>1. Updated(g) = g
    BY <1>2 DEF Updated
  <2>2. Switches(g, g)
    BY DEF Switches
  <2>3. QED
    BY <1>2, <2>1, <2>2
<1>3. QED
  BY <1>1, <1>2

-----------------------------------------------------------------------------
(* What is read off a sound graph. *)
LEMMA RackTyped ==
  ASSUME NEW g, Sound(g)
  PROVE  Rack(g) \in Seq(DOMAIN g.nodes) /\ Rack(g) \in Seq(Plugins)
<1>1. Rack(g) \in Seq(DOMAIN g.nodes)
  <2>1. CASE Linear(g)
    BY <2>1, LinearPath, PathPlaces DEF Places, Sound
  <2>2. CASE ~Linear(g)
    BY <2>2 DEF Rack
  <2>3. QED
    BY <2>1, <2>2
<1>2. DOMAIN g.nodes \subseteq Plugins
  BY DEF Sound, Graph
<1>3. QED
  BY <1>1, <1>2

LEMMA ConflictsTyped ==
  ASSUME NEW g, Sound(g), NEW c
  PROVE  Conflicts(g, c) \subseteq Plugins
<1> DEFINE r == Rack(g)
<1>1. \A k \in DOMAIN r : r[k] \in Plugins
  BY RackTyped
<1>2. \A id \in Conflicts(g, c) : \E k \in DOMAIN r : id = r[k]
  BY DEF Conflicts
<1>3. QED
  BY <1>1, <1>2

LEMMA ChainTyped ==
  ASSUME NEW g, Sound(g)
  PROVE  Chain(g) \in Seq(Stage)
<1> DEFINE r == Rack(g)
           D == DOMAIN g.nodes
           stage(node) == IF Active(node) THEN [kind |-> node.kind, size |-> node.size] ELSE LeftOut
           t == [k \in DOMAIN r |-> stage(g.nodes[r[k]])]
<1>1. g.nodes \in [D -> Node] /\ r \in Seq(D)
  BY RackTyped DEF Sound, Graph, GraphsOn
<1> HIDE DEF r, D
<1>2. ASSUME NEW node \in Node PROVE stage(node) \in Stage
  <2>1. LeftOut \in Stage
    BY DEF LeftOut, Stage, Kinds
  <2>2. QED
    BY <2>1 DEF Node, Stage
<1>3. \A k \in 1..Len(r) : g.nodes[r[k]] \in Node
  BY <1>1
<1> HIDE DEF stage
<1>4. t \in Seq(Stage)
  <2>1. Len(r) \in Nat /\ DOMAIN r = 1..Len(r)
    BY <1>1
  <2>2. t \in [1..Len(r) -> Stage]
    BY <1>2, <1>3, <2>1
  <2>3. QED
    BY <2>1, <2>2
<1>5. Chain(g) = t
  BY DEF Chain, r, stage
<1>6. QED
  BY <1>4, <1>5

-----------------------------------------------------------------------------
(* Playing a track keeps the graph sound and routed. *)
AdaptFlow(g, c) ==
  CHOOSE f : f = [k \in 1..Len(Rack(g)) + 1 |->
                   IF k = 1 THEN c ELSE Passed(g.nodes[Rack(g)[k - 1]], f[k - 1])]
Misfits(g, c) ==
  {k \in DOMAIN Rack(g) : Active(g.nodes[Rack(g)[k]])
                          /\ Resized(g.nodes[Rack(g)[k]], AdaptFlow(g, c)[k]) # g.nodes[Rack(g)[k]]}
FirstMisfit(g, c) == CHOOSE k \in Misfits(g, c) : \A j \in Misfits(g, c) : k <= j

LEMMA AdaptFlowIs ==
  ASSUME NEW g, Sound(g), NEW c \in Some
  PROVE  Channels(AdaptFlow(g, c), "plain", Rack(g), g.nodes, c)
<1> DEFINE r == Rack(g)
           D == DOMAIN g.nodes
           nodes == g.nodes
           Eq(f) == f = [k \in 1..Len(r) + 1 |-> IF k = 1 THEN c ELSE Passed(nodes[r[k - 1]], f[k - 1])]
<1>1. r \in Seq(D) /\ nodes \in [D -> Node]
  BY RackTyped DEF Sound, Graph, GraphsOn
<1> HIDE DEF r, D, nodes
<1>2. \A f : Flow(f, "plain", r, nodes, c) <=> Eq(f)
  <2>1. \A f, k : Onward("plain", nodes[r[k - 1]], f[k - 1]) = Passed(nodes[r[k - 1]], f[k - 1])
    BY DEF Onward
  <2>2. ASSUME NEW f
        PROVE  [k \in 1..Len(r) + 1 |-> IF k = 1 THEN c ELSE Onward("plain", nodes[r[k - 1]], f[k - 1])]
                 = [k \in 1..Len(r) + 1 |-> IF k = 1 THEN c ELSE Passed(nodes[r[k - 1]], f[k - 1])]
    BY <2>1, Zenon
  <2>3. QED
    BY <2>2, Zenon DEF Flow
<1>3. /\ \E f : Flow(f, "plain", r, nodes, c)
      /\ \A f : Flow(f, "plain", r, nodes, c) => Channels(f, "plain", r, nodes, c)
  BY <1>1, FlowIs
<1> HIDE DEF Eq
<1>4. Eq(CHOOSE f : Eq(f))
  BY <1>2, <1>3
<1>5. AdaptFlow(g, c) = CHOOSE f : Eq(f)
  BY DEF AdaptFlow, r, nodes, Eq
<1>6. Channels(AdaptFlow(g, c), "plain", r, nodes, c)
  BY <1>2, <1>3, <1>4, <1>5
<1>7. QED
  BY <1>6 DEF r, nodes

LEMMA SameLinear ==
  ASSUME NEW g, Sound(g), Linear(g), NEW h, Sound(h), Ids(h) = Ids(g), h.wires = g.wires
  PROVE  Linear(h) /\ LinearOrder(h) = LinearOrder(g) /\ Rack(h) = Rack(g)
<1>1. Path(h, LinearOrder(g))
  BY LinearPath, PathSame DEF Links
<1>2. Linear(h) /\ LinearOrder(h) = LinearOrder(g)
  BY <1>1, PathLinear DEF Sound
<1>3. QED
  BY <1>2 DEF Rack

LEMMA AdaptedRouted ==
  ASSUME NEW g, Routed(g), NEW c \in Some
  PROVE  /\ Routed(AdaptedTo(g, c)) /\ DOMAIN AdaptedTo(g, c).nodes = DOMAIN g.nodes
         /\ Switches(g, AdaptedTo(g, c)) /\ Rack(AdaptedTo(g, c)) = Rack(g)
<1> DEFINE D == DOMAIN g.nodes
           i == FirstMisfit(g, c)
           x == AdaptFlow(g, c)[i]
           id == Rack(g)[i]
           N == [g.nodes EXCEPT ![id] = Resized(g.nodes[id], x)]
           fed == [g EXCEPT !.inputs = c]
           fit == [fed EXCEPT !.nodes = N]
           done == IF Misfits(g, c) = {} THEN fed ELSE fit
<1>0. Sound(g) /\ c \in Nat \ {0}
  BY Zenon DEF Routed, Some
<1>1. CASE ~Linear(g)
  <2>1. AdaptedTo(g, c) = g
    BY <1>1, Zenon DEF AdaptedTo
  <2>2. Switches(g, g)
    BY DEF Switches
  <2>3. QED
    BY <2>1, <2>2
<1>2. CASE Linear(g)
  <2>1. AdaptedTo(g, c) = Updated(done)
    BY <1>2 DEF AdaptedTo, AdaptFlow, Misfits, FirstMisfit
  <2>2. g \in GraphsOn(D) /\ g.nodes \in [D -> Node] /\ g.outputs \in Nat
    BY <1>0 DEF Sound, Graph, GraphsOn
  <2>3. Steadies(g.nodes)
    BY <1>0 DEF Sound, Steady, Steadies
  <2>4. Sound(fed) /\ fed.nodes = g.nodes /\ fed.wires = g.wires /\ Ids(fed) = Ids(g)
    <3>1. fed = Refit(g, g.nodes, c, g.outputs)
      BY <1>0, <2>2 DEF GraphsOn, Refit
    <3>2. LET h == Refit(g, g.nodes, c, g.outputs)
          IN Sound(h) /\ h.nodes = g.nodes /\ h.inputs = c /\ h.outputs = g.outputs /\ h.wires = g.wires /\ Ids(h) = Ids(g)
      BY <1>0, <2>2, <2>3, Refitting
    <3>3. QED
      BY <3>1, <3>2
  <2>5. ASSUME Misfits(g, c) # {}
        PROVE  /\ Sound(fit) /\ DOMAIN fit.nodes = D /\ fit.wires = g.wires /\ Ids(fit) = Ids(g)
               /\ Switches(g, fit)
    <3>1. i \in DOMAIN Rack(g)
      <4>1. DOMAIN Rack(g) \subseteq Nat
        BY <1>0, RackTyped
      <4>2. Misfits(g, c) \subseteq DOMAIN Rack(g)
        BY DEF Misfits
      <4>3. \E k \in Misfits(g, c) : \A j \in Misfits(g, c) : k <= j
        BY <2>5, <4>1, <4>2, Least
      <4>4. QED
        BY <4>2, <4>3 DEF FirstMisfit
    <3> HIDE DEF i
    <3>2. id \in D /\ x \in Some
      <4>1. Channels(AdaptFlow(g, c), "plain", Rack(g), g.nodes, c)
        BY <1>0, AdaptFlowIs
      <4>2. Rack(g) \in Seq(D)
        BY <1>0, RackTyped
      <4>3. i \in 1..Len(Rack(g)) /\ i \in 1..Len(Rack(g)) + 1
        BY <3>1, <4>2
      <4>4. QED
        BY <4>1, <4>2, <4>3 DEF Channels
    <3> DEFINE new == Resized(g.nodes[id], x)
    <3>3. /\ new \in Node /\ new.kind = g.nodes[id].kind /\ new.ins = g.nodes[id].ins /\ new.outs = g.nodes[id].outs
          /\ new.on = g.nodes[id].on /\ new.suspended = g.nodes[id].suspended
      <4>1. g.nodes[id] \in Node
        BY <2>2, <3>2
      <4>2. QED
        BY <3>2, <4>1, Resizing
    <3> HIDE DEF new, id, x
    <3>4. N \in [D -> Node] /\ DOMAIN N = D /\ \A n \in D : N[n] = IF n = id THEN new ELSE g.nodes[n]
      BY <2>2, <3>2, <3>3 DEF new
    <3> HIDE DEF N
    <3>5. Steadies(N)
      BY <2>3, <3>2, <3>3, <3>4 DEF Steadies
    <3>6. fit = Refit(g, N, c, g.outputs)
      BY <1>0, <2>2 DEF GraphsOn, Refit
    <3>7. LET h == Refit(g, N, c, g.outputs)
          IN Sound(h) /\ h.nodes = N /\ h.inputs = c /\ h.outputs = g.outputs /\ h.wires = g.wires /\ Ids(h) = Ids(g)
      BY <1>0, <2>2, <3>4, <3>5, Refitting
    <3> HIDE DEF fit
    <3>8. Switches(g, fit)
      BY <3>3, <3>4, <3>6, <3>7 DEF Switches
    <3>9. QED
      BY <3>4, <3>6, <3>7, <3>8
  <2>6. /\ Sound(done) /\ DOMAIN done.nodes = D /\ done.wires = g.wires /\ Ids(done) = Ids(g)
        /\ Switches(g, done)
    <3>1. Switches(g, fed)
      BY <2>4 DEF Switches
    <3>2. QED
      BY <2>4, <2>5, <3>1
  <2> HIDE DEF done
  <2>7. Linear(done) /\ Rack(done) = Rack(g)
    BY <1>0, <1>2, <2>6, SameLinear
  <2>8. Routed(Updated(done)) /\ DOMAIN Updated(done).nodes = DOMAIN done.nodes
    BY <2>6, <2>7, UpdatedLinear
  <2>9. Switches(done, Updated(done)) /\ Rack(Updated(done)) = Rack(done)
    BY <2>6, UpdatedSound
  <2>10. Switches(g, Updated(done))
    BY <2>6, <2>9 DEF Switches
  <2>11. QED
    BY <2>1, <2>6, <2>7, <2>8, <2>9, <2>10
<1>3. QED
  BY <1>1, <1>2

LEMMA GainRouted ==
  ASSUME NEW g, Routed(g), "ReplayGain" \in DOMAIN g.nodes, NEW b \in BOOLEAN
  PROVE  Routed(On(g, "ReplayGain", b))
<1> DEFINE h == On(g, "ReplayGain", b)
<1>0. Sound(g) /\ ValidRouting(g)
  BY DEF Routed
<1>1. /\ Sound(h) /\ Alike(g, h)
      /\ \A n \in DOMAIN g.nodes : n # "ReplayGain" => h.nodes[n] = g.nodes[n]
  BY <1>0, OnSound
<1> HIDE DEF h
<1>2. ASSUME NEW id \in DOMAIN h.nodes, ~Active(h.nodes[id]) PROVE Ins(h, id) = Outs(h, id)
  <2>1. id \in DOMAIN g.nodes
    BY <1>1 DEF Alike
  <2>2. h.nodes[id].ins = h.nodes[id].outs
    <3>1. CASE id = "ReplayGain"
      BY <1>1, <1>2, <3>1 DEF Sound, Steady
    <3>2. CASE id # "ReplayGain"
      BY <1>0, <1>1, <1>2, <2>1, <3>2 DEF ValidRouting
    <3>3. QED
      BY <3>1, <3>2
  <2>3. QED
    BY <1>1, <2>2, Ports DEF Sound
<1>3. ValidRouting(h)
  BY <1>0, <1>1, <1>2, AlikeValid
<1>4. QED
  BY <1>1, <1>3 DEF Routed, h

(* play_track_at_inner. *)
LEMMA LoadedRouted ==
  ASSUME NEW g, Routed(g), NEW s \in Tracks, NEW c \in Tracks, Loaded(g, s, c)
  PROVE  Routed(live') /\ engine' \in Played
<1> DEFINE fitted == AdaptedTo(g, c)
           b == track' \in Gained
<1>1. c \in Some
  BY PluginRackAssumption DEF Some
<1>2. Routed(fitted)
  BY <1>1, AdaptedRouted
<1> HIDE DEF fitted
<1>3. live' = IF "ReplayGain" \in DOMAIN fitted.nodes THEN On(fitted, "ReplayGain", b) ELSE fitted
  BY DEF Loaded, On, fitted
<1>4. b \in BOOLEAN
  OBVIOUS
<1> HIDE DEF b
<1>5. Routed(live')
  BY <1>2, <1>3, <1>4, GainRouted
<1>6. engine' = [source |-> s, channels |-> c, chain |-> Chain(live')]
  BY DEF Loaded
<1>7. Chain(live') \in Seq(Stage)
  BY <1>5, ChainTyped DEF Routed
<1>8. QED
  BY <1>5, <1>6, <1>7 DEF Played

LEMMA ResumedRouted ==
  ASSUME NEW g, Routed(g)
  PROVE  Routed(Updated(Resumed(g)))
<1> DEFINE F == [id \in DOMAIN g.nodes |-> FALSE]
           h == Resumed(g)
<1>0. Sound(g) /\ ValidRouting(g)
  BY DEF Routed
<1>1. F \in [DOMAIN g.nodes -> BOOLEAN] /\ Resumed(g) = Slept(g, F)
  BY <1>0, Woken
<1>2. \A id \in DOMAIN g.nodes : F[id] = FALSE
  OBVIOUS
<1> HIDE DEF F, h
<1>3. Sound(h) /\ Alike(g, h)
  BY <1>0, <1>1, SleptSound DEF h
<1>4. \A id \in DOMAIN g.nodes : h.nodes[id].on = g.nodes[id].on /\ h.nodes[id].suspended = F[id]
  BY <1>0, <1>1, SleptSound DEF h
<1>5. ASSUME NEW id \in DOMAIN h.nodes, ~Active(h.nodes[id]) PROVE Ins(h, id) = Outs(h, id)
  <2>1. id \in DOMAIN g.nodes
    BY <1>3 DEF Alike
  <2>2. ~Active(g.nodes[id])
    BY <1>2, <1>4, <1>5, <2>1 DEF Active
  <2>3. g.nodes[id].ins = g.nodes[id].outs
    BY <1>0, <2>1, <2>2 DEF ValidRouting
  <2>4. Ins(g, id) = Outs(g, id)
    BY <1>0, <2>1, <2>3, Ports DEF Sound
  <2>5. QED
    BY <1>3, <2>4 DEF Alike
<1>6. ValidRouting(h)
  BY <1>0, <1>3, <1>5, AlikeValid
<1>7. QED
  BY <1>3, <1>6, UpdatedSound DEF Routed, h

LEMMA SuspendedRouted ==
  ASSUME NEW g, Routed(g), NEW X
  PROVE  Routed(Updated(Suspended(g, X)))
<1>0. Sound(g)
  BY DEF Routed
<1>1. CASE Linear(g)
  <2> DEFINE F == [id \in DOMAIN g.nodes |-> g.nodes[id].suspended \/ id \in X]
             h == Suspended(g, X)
  <2>1. F \in [DOMAIN g.nodes -> BOOLEAN] /\ h = Slept(g, F)
    BY <1>0, <1>1, PutToSleep
  <2> HIDE DEF F, h
  <2>2. Sound(h) /\ Alike(g, h)
    BY <1>0, <2>1, SleptSound
  <2>3. Linear(h)
    BY <1>0, <1>1, <2>2, AlikeLinear
  <2>4. QED
    BY <2>2, <2>3, UpdatedLinear DEF h
<1>2. CASE ~Linear(g)
  <2>1. Suspended(g, X) = g
    BY <1>2, Zenon DEF Suspended
  <2>2. QED
    BY <1>0, <2>1, UpdatedSound
<1>3. QED
  BY <1>1, <1>2

(* play_track_at_with_mode. *)
LEMMA AskedRouted ==
  ASSUME NEW g, Routed(g), NEW s \in Tracks, NEW c \in Tracks, Asked(g, s, c)
  PROVE  /\ Routed(live')
         /\ dialog' = Idle \/ dialog' \in Conflict
         /\ engine' \in Played \/ UNCHANGED engine
<1> DEFINE fresh == Updated(Resumed(g))
           refused == Conflicts(fresh, c)
<1>1. Routed(fresh)
  BY ResumedRouted
<1> HIDE DEF fresh
<1>2. refused \subseteq Plugins
  BY <1>1, ConflictsTyped DEF Routed
<1>3. \/ Loaded(fresh, s, c) /\ dialog' = Idle
      \/ live' = fresh /\ dialog' = [source |-> s, channels |-> c, refused |-> refused] /\ UNCHANGED engine
  BY DEF Asked, fresh
<1> HIDE DEF refused
<1>4. CASE Loaded(fresh, s, c) /\ dialog' = Idle
  BY <1>1, <1>4, LoadedRouted
<1>5. CASE live' = fresh /\ dialog' = [source |-> s, channels |-> c, refused |-> refused] /\ UNCHANGED engine
  BY <1>1, <1>2, <1>5 DEF Conflict
<1>6. QED
  BY <1>3, <1>4, <1>5

-----------------------------------------------------------------------------
(* Edits of a rack. *)
LEMMA BeforeIn ==
  ASSUME NEW g, Sound(g), Linear(g), NEW id \in Ids(g), id # "Input"
  PROVE  /\ Before(g, id) \in Ids(g) /\ Before(g, id) # "Output"
         /\ <<Before(g, id), id>> \in Links(g)
<1> DEFINE s == LinearOrder(g)
           n == Len(s)
<1>1. Path(g, s)
  BY LinearPath
<1> HIDE DEF s
<1>2. /\ n \in Nat /\ s[1] = "Input" /\ s[n] = "Output" /\ s \in Seq(Ids(g))
      /\ \E k \in 1..n : s[k] = id
      /\ \A j, k \in 1..n : s[j] = s[k] => j = k
  BY <1>1 DEF Path
<1>3. PICK k \in 1..n : s[k] = id
  BY <1>2
<1> HIDE DEF n
<1> DEFINE j == k - 1
<1>4. j \in 1..n - 1 /\ j + 1 = k /\ j \in 1..n /\ n \in 1..n /\ j # n
  BY <1>2, <1>3
<1> HIDE DEF j
<1>5. Before(g, s[j + 1]) = s[j]
  BY <1>1, <1>4, PathNext DEF Sound, n
<1>6. s[j] \in Ids(g) /\ s[j] # "Output"
  BY <1>2, <1>4 DEF n
<1>7. <<s[j], s[j + 1]>> \in Links(g)
  BY <1>1, <1>4 DEF Path, n
<1>8. QED
  BY <1>3, <1>4, <1>5, <1>6, <1>7

LEMMA InsertedSound ==
  ASSUME NEW g, Sound(g), Linear(g), NEW id \in Users \ DOMAIN g.nodes, NEW kind \in Kinds,
         NEW to \in Ids(g), to # "Input"
  PROVE  Sound(Inserted(g, id, kind, Before(g, to), to))
<1> DEFINE from == Before(g, to)
           a == Parted(g, {<<from, to>>})
           b == Placed(a, id, kind)
           c == Joined(b, from, id)
<1>1. from \in Ids(g) /\ from # "Output"
  BY BeforeIn
<1> HIDE DEF from
<1>2. Sound(a) /\ Ids(a) = Ids(g)
  BY PartedSound
<1> HIDE DEF a
<1>3. Sound(b) /\ Ids(b) = Ids(g) \cup {id}
  BY <1>2, PlacedSound
<1> HIDE DEF b
<1>4. Sound(c) /\ Ids(c) = Ids(b)
  BY <1>1, <1>3, JoinedSound
<1> HIDE DEF c
<1>5. id # "Output"
  BY PluginGraphAssumption DEF Special
<1>6. Sound(Joined(c, id, to))
  BY <1>3, <1>4, <1>5, JoinedSound
<1>7. Inserted(g, id, kind, from, to) = Joined(c, id, to)
  BY DEF Inserted, a, b, c
<1>8. QED
  BY <1>6, <1>7 DEF from

LEMMA OnPath ==
  ASSUME NEW g, NEW s, Path(g, s)
  PROVE  /\ Len(s) \in Nat /\ Len(s) >= 2 /\ s[1] = "Input" /\ s[Len(s)] = "Output"
         /\ \A k \in 1..Len(s) : s[k] \in Ids(g)
         /\ \A j, k \in 1..Len(s) : s[j] = s[k] => j = k
         /\ \A id \in Ids(g) : \E k \in 1..Len(s) : s[k] = id
         /\ \A x, y : <<x, y>> \in Links(g) => \E k \in 1..Len(s) - 1 : x = s[k] /\ y = s[k + 1]
         /\ \A k \in 1..Len(s) - 1 : <<s[k], s[k + 1]>> \in Links(g)
<1>1. s \in Seq(Ids(g)) /\ Len(s) >= 2 /\ s[1] = "Input" /\ s[Len(s)] = "Output"
  BY DEF Path
<1>2. Len(s) \in Nat /\ \A k \in 1..Len(s) : s[k] \in Ids(g)
  BY <1>1
<1>3. \A j, k \in 1..Len(s) : s[j] = s[k] => j = k
  BY DEF Path
<1>4. \A id \in Ids(g) : \E k \in 1..Len(s) : s[k] = id
  BY DEF Path
<1>5. \A x, y : <<x, y>> \in Links(g) <=> \E k \in 1..Len(s) - 1 : x = s[k] /\ y = s[k + 1]
  BY DEF Path
<1>6. ASSUME NEW x, NEW y, <<x, y>> \in Links(g) PROVE \E k \in 1..Len(s) - 1 : x = s[k] /\ y = s[k + 1]
  BY <1>5, <1>6
<1>7. ASSUME NEW k \in 1..Len(s) - 1 PROVE <<s[k], s[k + 1]>> \in Links(g)
  BY <1>5
<1>8. QED
  BY <1>1, <1>2, <1>3, <1>4, <1>6, <1>7

(* A way along the path only leads on. *)
LEMMA Ahead ==
  ASSUME NEW g, NEW s, Path(g, s), NEW h, Graph(h), NEW j \in 1..Len(s),
         \A x, y, i : i \in j..Len(s) /\ x = s[i] /\ <<x, y>> \in Links(h) => <<x, y>> \in Links(g)
  PROVE  \A i \in 1..j - 1 : s[i] \notin ReachedFrom(h, s[j])
<1> DEFINE n == Len(s)
           C == {s[i] : i \in j..n}
<1>1. /\ n \in Nat
      /\ \A i, k \in 1..n : s[i] = s[k] => i = k
      /\ \A x, y : <<x, y>> \in Links(g) => \E k \in 1..n - 1 : x = s[k] /\ y = s[k + 1]
  BY OnPath
<1> HIDE DEF n
<1>2. s[j] \in C
  <2>1. j \in j..n
    BY <1>1 DEF n
  <2>2. QED
    BY <2>1
<1>3. ASSUME NEW x, NEW y, <<x, y>> \in Links(h), x \in C PROVE y \in C
  <2>1. PICK i \in j..n : x = s[i]
    BY <1>3
  <2>2. <<x, y>> \in Links(g)
    BY <1>3, <2>1 DEF n
  <2>3. PICK k \in 1..n - 1 : x = s[k] /\ y = s[k + 1]
    BY <1>1, <2>2
  <2>4. i \in 1..n /\ k \in 1..n
    BY <1>1 DEF n
  <2>5. k = i
    BY <1>1, <2>1, <2>3, <2>4
  <2>6. k + 1 \in j..n
    BY <1>1, <2>3, <2>5 DEF n
  <2>7. QED
    BY <2>3, <2>6
<1> HIDE DEF C
<1>4. ReachedFrom(h, s[j]) \subseteq C
  BY <1>2, <1>3, ReachBounded
<1>5. ASSUME NEW i \in 1..j - 1, s[i] \in C PROVE FALSE
  <2>1. PICK k \in j..n : s[i] = s[k]
    BY <1>5 DEF C
  <2>2. i \in 1..n /\ k \in 1..n /\ i # k
    BY <1>1 DEF n
  <2>3. QED
    BY <1>1, <2>1, <2>2
<1>6. QED
  BY <1>4, <1>5

(* Without its place j a path is a path. *)
Dropped(s, j) == [i \in 1..Len(s) - 1 |-> IF i < j THEN s[i] ELSE s[i + 1]]

LEMMA RemovedIs ==
  ASSUME NEW g, Sound(g), NEW s, Path(g, s), NEW j \in 2..Len(s) - 1
  PROVE  /\ Sound(Removed(g, s[j])) /\ Path(Removed(g, s[j]), Dropped(s, j))
         /\ DOMAIN Removed(g, s[j]).nodes = DOMAIN g.nodes \ {s[j]}
<1> DEFINE n == Len(s)
           id == s[j]
           from == s[j - 1]
           to == s[j + 1]
           a == Without(g, {id})
           b == Joined(a, from, to)
           t == Dropped(s, j)
<1>1. n \in Nat /\ n >= 2 /\ s[1] = "Input" /\ s[n] = "Output"
  BY OnPath
<1>2. \A k \in 1..n : s[k] \in Ids(g)
  BY OnPath
<1>3. \A i, k \in 1..n : s[i] = s[k] => i = k
  BY OnPath
<1>4. \A x \in Ids(g) : \E k \in 1..n : s[k] = x
  BY OnPath
<1>5. \A x, y : <<x, y>> \in Links(g) => \E k \in 1..n - 1 : x = s[k] /\ y = s[k + 1]
  BY OnPath
<1>6. \A k \in 1..n - 1 : <<s[k], s[k + 1]>> \in Links(g)
  BY OnPath
<1>7. /\ j - 1 \in 1..n - 1 /\ (j - 1) + 1 = j /\ j \in 1..n - 1 /\ 1 \in 1..n /\ n \in 1..n
      /\ j \in 1..n /\ j - 1 \in 1..n /\ j + 1 \in 1..n /\ j # 1 /\ j # n /\ j - 1 # j /\ j + 1 # j
      /\ j - 1 # n /\ j - 1 # j + 1 /\ n - 1 \in Nat
  BY <1>1
<1>8. Successor(g, id) = to /\ Before(g, id) = from
  <2>1. Successor(g, s[j]) = s[j + 1]
    BY <1>7, PathNext DEF Sound
  <2>2. Before(g, s[(j - 1) + 1]) = s[j - 1]
    BY <1>7, PathNext DEF Sound
  <2>3. QED
    BY <1>7, <2>1, <2>2
<1>9. Removed(g, id) = b
  BY <1>8 DEF Removed
<1> HIDE DEF n
<1>10. /\ id # "Input" /\ id # "Output" /\ from # id /\ to # id /\ from # "Output"
       /\ id \in Ids(g) /\ from \in Ids(g) /\ to \in Ids(g)
  BY <1>1, <1>2, <1>3, <1>7
<1>11. /\ Sound(a) /\ DOMAIN a.nodes = DOMAIN g.nodes \ {id} /\ Ids(a) = Ids(g) \ {id}
       /\ \A x, y : <<x, y>> \in Links(a) <=> <<x, y>> \in Links(g) /\ x # id /\ y # id
  BY <1>10, WithoutSound
<1> HIDE DEF a
<1>12. ~MakesCycle(a, from, to)
  <2>1. \A i \in 1..(j + 1) - 1 : s[i] \notin ReachedFrom(a, s[j + 1])
    BY <1>7, <1>11, Ahead DEF Sound, n
  <2>2. j - 1 \in 1..(j + 1) - 1
    BY <1>7
  <2>3. QED
    BY <2>1, <2>2 DEF MakesCycle
<1>13. Sound(b) /\ b.nodes = a.nodes /\ Ids(b) = Ids(a) /\ Links(b) = Links(a) \cup {<<from, to>>}
  BY <1>10, <1>11, <1>12, JoinedSound
<1> HIDE DEF b
<1>14. ASSUME NEW i \in 1..n - 1
       PROVE  t[i] = IF i < j THEN s[i] ELSE s[i + 1]
  BY DEF Dropped, n
<1>15. t \in Seq(Ids(b)) /\ Len(t) = n - 1
  <2>1. ASSUME NEW i \in 1..n - 1 PROVE t[i] \in Ids(b)
    <3>1. i \in 1..n /\ i + 1 \in 1..n /\ (i < j => i # j) /\ (~(i < j) => i + 1 # j)
      BY <1>1, <1>7
    <3>2. QED
      BY <1>2, <1>3, <1>7, <1>11, <1>13, <1>14, <3>1
  <2>2. t \in [1..n - 1 -> Ids(b)]
    BY <2>1 DEF Dropped, n
  <2> HIDE DEF t
  <2>3. QED
    BY <1>7, <2>2
<1> HIDE DEF t, id, from, to
<1>16. ASSUME NEW i \in 1..n - 1, NEW k \in 1..n - 1, t[i] = t[k] PROVE i = k
  <2>1. i \in 1..n /\ i + 1 \in 1..n /\ k \in 1..n /\ k + 1 \in 1..n
    BY <1>1
  <2>2. CASE i < j /\ k < j
    BY <1>3, <1>14, <1>16, <2>1, <2>2
  <2>3. CASE i < j /\ ~(k < j)
    <3>1. i = k + 1
      BY <1>3, <1>14, <1>16, <2>1, <2>3
    <3>2. QED
      BY <1>7, <2>1, <2>3, <3>1
  <2>4. CASE ~(i < j) /\ k < j
    <3>1. i + 1 = k
      BY <1>3, <1>14, <1>16, <2>1, <2>4
    <3>2. QED
      BY <1>7, <2>1, <2>4, <3>1
  <2>5. CASE ~(i < j) /\ ~(k < j)
    <3>1. i + 1 = k + 1
      BY <1>3, <1>14, <1>16, <2>1, <2>5
    <3>2. QED
      BY <2>1, <3>1
  <2>6. QED
    BY <2>2, <2>3, <2>4, <2>5
<1>17. ASSUME NEW x \in Ids(b) PROVE \E i \in 1..n - 1 : t[i] = x
  <2>1. x \in Ids(g) /\ x # id
    BY <1>11, <1>13
  <2>2. PICK k \in 1..n : s[k] = x
    BY <1>4, <2>1
  <2>3. k # j
    BY <2>1, <2>2 DEF id
  <2>4. CASE k < j
    <3>1. k \in 1..n - 1
      BY <1>7, <2>4
    <3>2. QED
      BY <1>14, <2>2, <2>4, <3>1
  <2>5. CASE ~(k < j)
    <3>1. k - 1 \in 1..n - 1 /\ ~(k - 1 < j) /\ (k - 1) + 1 = k
      BY <1>1, <1>7, <2>3, <2>5
    <3>2. QED
      BY <1>14, <2>2, <3>1
  <2>6. QED
    BY <2>4, <2>5
<1>18. ASSUME NEW x, NEW y, <<x, y>> \in Links(b) PROVE \E i \in 1..(n - 1) - 1 : x = t[i] /\ y = t[i + 1]
  <2>1. CASE <<x, y>> = <<from, to>>
    <3>1. j - 1 \in 1..(n - 1) - 1 /\ j - 1 < j /\ ~(j < j) /\ j - 1 \in 1..n - 1 /\ j \in 1..n - 1
      BY <1>1, <1>7
    <3>2. t[j - 1] = from /\ t[(j - 1) + 1] = to
      BY <1>7, <1>14, <3>1 DEF from, to
    <3>3. QED
      BY <2>1, <3>1, <3>2
  <2>2. CASE <<x, y>> \in Links(a)
    <3>1. <<x, y>> \in Links(g) /\ x # id /\ y # id
      BY <1>11, <2>2
    <3>2. PICK k \in 1..n - 1 : x = s[k] /\ y = s[k + 1]
      BY <1>5, <3>1
    <3>3. k # j /\ k + 1 # j
      BY <3>1, <3>2 DEF id
    <3>4. CASE k < j
      <4>1. k \in 1..(n - 1) - 1 /\ k + 1 \in 1..n - 1 /\ k + 1 < j
        BY <1>1, <1>7, <3>3, <3>4
      <4>2. t[k] = s[k] /\ t[k + 1] = s[k + 1]
        BY <1>14, <3>4, <4>1
      <4>3. QED
        BY <3>2, <4>1, <4>2
    <3>5. CASE ~(k < j)
      <4>1. /\ k - 1 \in 1..(n - 1) - 1 /\ (k - 1) + 1 = k /\ k - 1 \in 1..n - 1
            /\ ~(k - 1 < j) /\ k \in 1..n - 1
        BY <1>1, <1>7, <3>3, <3>5
      <4>2. t[k - 1] = s[k] /\ t[(k - 1) + 1] = s[k + 1]
        BY <1>14, <3>5, <4>1
      <4>3. QED
        BY <3>2, <4>1, <4>2
    <3>6. QED
      BY <3>4, <3>5
  <2>3. QED
    BY <1>13, <1>18, <2>1, <2>2
<1>19. ASSUME NEW i \in 1..(n - 1) - 1 PROVE <<t[i], t[i + 1]>> \in Links(b)
  <2>1. i \in 1..n - 1 /\ i + 1 \in 1..n - 1 /\ i \in 1..n /\ i + 1 \in 1..n
    BY <1>1
  <2>2. CASE i + 1 < j
    <3>1. t[i] = s[i] /\ t[i + 1] = s[i + 1]
      BY <1>14, <2>1, <2>2
    <3>2. s[i] # id /\ s[i + 1] # id
      BY <1>3, <1>7, <2>1, <2>2 DEF id
    <3>3. <<s[i], s[i + 1]>> \in Links(a)
      BY <1>6, <1>11, <2>1, <3>2
    <3>4. QED
      BY <1>13, <3>1, <3>3
  <2>3. CASE i + 1 = j
    <3>1. i < j /\ ~(i + 1 < j) /\ i = j - 1
      BY <1>7, <2>1, <2>3
    <3>2. t[i] = from /\ t[i + 1] = to
      BY <1>14, <2>1, <2>3, <3>1 DEF from, to
    <3>3. QED
      BY <1>13, <3>2
  <2>4. CASE i + 1 > j
    <3>1. /\ ~(i < j) /\ ~(i + 1 < j) /\ i + 1 # j /\ (i + 1) + 1 # j
          /\ (i + 1) + 1 \in 1..n
      BY <1>1, <1>7, <2>1, <2>4
    <3>2. t[i] = s[i + 1] /\ t[i + 1] = s[(i + 1) + 1]
      BY <1>14, <2>1, <3>1
    <3>3. s[i + 1] # id /\ s[(i + 1) + 1] # id
      BY <1>3, <1>7, <2>1, <3>1 DEF id
    <3>4. <<s[i + 1], s[(i + 1) + 1]>> \in Links(a)
      BY <1>6, <1>11, <2>1, <3>3
    <3>5. QED
      BY <1>13, <3>2, <3>4
  <2>5. QED
    BY <1>7, <2>1, <2>2, <2>3, <2>4
<1>20. t[1] = "Input" /\ t[n - 1] = "Output" /\ n - 1 >= 2
  <2>1. /\ 1 < j /\ 1 \in 1..n - 1 /\ n - 1 \in 1..n - 1 /\ ~(n - 1 < j) /\ (n - 1) + 1 = n /\ n - 1 >= 2
    BY <1>1, <1>7
  <2>2. QED
    BY <1>1, <1>14, <2>1
<1>21. Path(b, t)
  <2> DEFINE m == Len(t)
  <2>0. m = n - 1
    BY <1>15
  <2> HIDE DEF m
  <2>1. t \in Seq(Ids(b)) /\ m >= 2 /\ t[1] = "Input" /\ t[m] = "Output"
    BY <1>15, <1>20, <2>0
  <2>2. \A i, k \in 1..m : t[i] = t[k] => i = k
    BY <1>16, <2>0
  <2>3. \A x \in Ids(b) : \E i \in 1..m : t[i] = x
    BY <1>17, <2>0
  <2>4. ASSUME NEW x, NEW y PROVE <<x, y>> \in Links(b) <=> \E i \in 1..m - 1 : x = t[i] /\ y = t[i + 1]
    <3>1. CASE <<x, y>> \in Links(b)
      BY <1>18, <2>0, <3>1
    <3>2. ASSUME NEW i \in 1..m - 1, x = t[i], y = t[i + 1] PROVE <<x, y>> \in Links(b)
      BY <1>19, <2>0, <3>2
    <3>3. QED
      BY <3>1, <3>2
  <2>5. \A x, y : <<x, y>> \in Links(b) <=> \E i \in 1..m - 1 : x = t[i] /\ y = t[i + 1]
    BY <2>4
  <2>6. Graph(b)
    BY <1>13 DEF Sound
  <2>7. QED
    <3>1. Visits(b, t)
      BY <2>1, <2>2, <2>3, <2>5 DEF Visits, m
    <3>2. QED
      BY <2>6, <3>1, PathBy
<1>22. Removed(g, s[j]) = b
  BY <1>9 DEF id
<1>23. DOMAIN b.nodes = DOMAIN g.nodes \ {s[j]}
  BY <1>11, <1>13 DEF id
<1>24. Path(b, Dropped(s, j))
  BY <1>21 DEF t
<1>25. QED
  BY <1>13, <1>22, <1>23, <1>24

(* With two neighbours exchanged a path is a path. *)
Exchanged(s, j) == [i \in 1..Len(s) |-> IF i = j THEN s[j + 1] ELSE IF i = j + 1 THEN s[j] ELSE s[i]]

LEMMA SwappedIs ==
  ASSUME NEW g, Sound(g), NEW s, Path(g, s), NEW j \in 2..Len(s) - 2
  PROVE  /\ Sound(Swapped(g, s[j])) /\ Path(Swapped(g, s[j]), Exchanged(s, j))
         /\ DOMAIN Swapped(g, s[j]).nodes = DOMAIN g.nodes
<1> DEFINE n == Len(s)
           id == s[j]
           from == s[j - 1]
           next == s[j + 1]
           to == s[(j + 1) + 1]
           Cut == {<<from, id>>, <<id, next>>, <<next, to>>}
           a == Parted(g, Cut)
           b == Joined(a, from, next)
           c == Joined(b, next, id)
           d == Joined(c, id, to)
           t == Exchanged(s, j)
<1>1. n \in Nat /\ n >= 2 /\ s[1] = "Input" /\ s[n] = "Output"
  BY OnPath
<1>2. \A k \in 1..n : s[k] \in Ids(g)
  BY OnPath
<1>3. \A i, k \in 1..n : s[i] = s[k] => i = k
  BY OnPath
<1>4. \A x \in Ids(g) : \E k \in 1..n : s[k] = x
  BY OnPath
<1>5. \A x, y : <<x, y>> \in Links(g) => \E k \in 1..n - 1 : x = s[k] /\ y = s[k + 1]
  BY OnPath
<1>6. \A k \in 1..n - 1 : <<s[k], s[k + 1]>> \in Links(g)
  BY OnPath
<1>7. /\ j - 1 \in 1..n - 1 /\ (j - 1) + 1 = j /\ j \in 1..n - 1 /\ j + 1 \in 1..n - 1
      /\ 1 \in 1..n /\ n \in 1..n /\ j \in 1..n /\ j - 1 \in 1..n /\ j + 1 \in 1..n /\ (j + 1) + 1 \in 1..n
      /\ j # 1 /\ j # n /\ j + 1 # 1 /\ j + 1 # n /\ j - 1 # j /\ j + 1 # j /\ j - 1 # n /\ j - 1 # j + 1
      /\ (j + 1) + 1 # j /\ (j + 1) + 1 # j + 1 /\ (j + 1) + 1 # j - 1
  BY <1>1
<1>8. Successor(g, id) = next /\ Before(g, id) = from /\ Successor(g, next) = to
  <2>1. Successor(g, s[j]) = s[j + 1]
    BY <1>7, PathNext DEF Sound
  <2>2. Before(g, s[(j - 1) + 1]) = s[j - 1]
    BY <1>7, PathNext DEF Sound
  <2>3. Successor(g, s[j + 1]) = s[(j + 1) + 1]
    BY <1>7, PathNext DEF Sound
  <2>4. QED
    BY <1>7, <2>1, <2>2, <2>3
<1>9. Swapped(g, id) = d
  BY <1>8 DEF Swapped
<1> HIDE DEF n
<1>10. /\ id # "Output" /\ from # "Output" /\ next # "Output"
       /\ id \in Ids(g) /\ from \in Ids(g) /\ next \in Ids(g) /\ to \in Ids(g)
       /\ from # id /\ from # next /\ id # next /\ to # id /\ to # next
  BY <1>1, <1>2, <1>3, <1>7
<1>11. Sound(a) /\ a.nodes = g.nodes /\ Ids(a) = Ids(g) /\ Links(a) = Links(g) \ Cut
  BY PartedSound
<1> HIDE DEF a
<1>12. ASSUME NEW y, <<next, y>> \in Links(g) PROVE y = to
  <2>1. PICK k \in 1..n - 1 : next = s[k] /\ y = s[k + 1]
    BY <1>5, <1>12
  <2>2. k = j + 1
    <3>1. k \in 1..n
      BY <1>1
    <3>2. QED
      BY <1>3, <1>7, <2>1, <3>1
  <2>3. QED
    BY <2>1, <2>2
<1>13. ASSUME NEW y, <<id, y>> \in Links(g) PROVE y = next
  <2>1. PICK k \in 1..n - 1 : id = s[k] /\ y = s[k + 1]
    BY <1>5, <1>13
  <2>2. k = j
    <3>1. k \in 1..n
      BY <1>1
    <3>2. QED
      BY <1>3, <1>7, <2>1, <3>1
  <2>3. QED
    BY <2>1, <2>2
<1>14. ASSUME NEW y PROVE <<next, y>> \notin Links(a)
  <2>1. <<next, to>> \in Cut
    OBVIOUS
  <2> HIDE DEF Cut, next, to
  <2>2. QED
    BY <1>11, <1>12, <2>1
<1>15. ASSUME NEW y PROVE <<id, y>> \notin Links(a)
  <2>1. <<id, next>> \in Cut
    OBVIOUS
  <2> HIDE DEF Cut, next, id
  <2>2. QED
    BY <1>11, <1>13, <2>1
<1>16. ~MakesCycle(a, from, next)
  <2> HIDE DEF next, from
  <2>1. \A x, y : <<x, y>> \in Links(a) /\ x \in {next} => y \in {next}
    BY <1>14
  <2>2. Graph(a)
    BY <1>11 DEF Sound
  <2>3. ReachedFrom(a, next) \subseteq {next}
    BY <2>1, <2>2, ReachBounded
  <2>4. QED
    BY <1>10, <2>3 DEF MakesCycle
<1>17. Sound(b) /\ b.nodes = a.nodes /\ Ids(b) = Ids(a) /\ Links(b) = Links(a) \cup {<<from, next>>}
  <2>1. Sound(a) /\ from \in Ids(a) /\ next \in Ids(a) /\ from # "Output"
    BY <1>10, <1>11
  <2> HIDE DEF id, from, next, to, Cut
  <2>2. /\ Sound(Joined(a, from, next)) /\ Joined(a, from, next).nodes = a.nodes
        /\ Ids(Joined(a, from, next)) = Ids(a)
        /\ Links(Joined(a, from, next)) = Links(a) \cup {<<from, next>>}
    BY <1>16, <2>1, JoinedSound
  <2>3. QED
    BY <2>2
<1> HIDE DEF b
<1>18. ~MakesCycle(b, next, id)
  <2> HIDE DEF next, from, id
  <2>1. \A x, y : <<x, y>> \in Links(b) /\ x \in {id} => y \in {id}
    <3>1. ASSUME NEW y PROVE <<id, y>> \notin Links(b)
      <4>1. <<id, y>> # <<from, next>>
        BY <1>10
      <4>2. QED
        BY <1>15, <1>17, <4>1
    <3>2. QED
      BY <3>1
  <2>0. Graph(b)
    BY <1>17 DEF Sound
  <2>2. ReachedFrom(b, id) \subseteq {id}
    BY <2>0, <2>1, ReachBounded
  <2>3. QED
    BY <1>10, <2>2 DEF MakesCycle
<1>19. Sound(c) /\ c.nodes = b.nodes /\ Ids(c) = Ids(b) /\ Links(c) = Links(b) \cup {<<next, id>>}
  <2>1. Sound(b) /\ next \in Ids(b) /\ id \in Ids(b) /\ next # "Output"
    BY <1>10, <1>11, <1>17
  <2> HIDE DEF id, from, next, to, Cut
  <2>2. /\ Sound(Joined(b, next, id)) /\ Joined(b, next, id).nodes = b.nodes
        /\ Ids(Joined(b, next, id)) = Ids(b)
        /\ Links(Joined(b, next, id)) = Links(b) \cup {<<next, id>>}
    BY <1>18, <2>1, JoinedSound
  <2>3. QED
    BY <2>2
<1> HIDE DEF c
<1>20. ~MakesCycle(c, id, to)
  <2>1. ASSUME NEW x, NEW y, NEW i, i \in (j + 1) + 1..n, x = s[i], <<x, y>> \in Links(c)
        PROVE  <<x, y>> \in Links(g)
    <3>1. i \in 1..n /\ i # j + 1 /\ i # j - 1
      BY <1>1, <1>7, <2>1
    <3>2. x # from /\ x # next
      BY <1>3, <1>7, <2>1, <3>1
    <3>3. QED
      BY <1>11, <1>17, <1>19, <2>1, <3>2
  <2> DEFINE e == (j + 1) + 1
  <2>2. e \in 1..Len(s) /\ j \in 1..e - 1
    BY <1>7 DEF n
  <2>3. \A x, y, i : i \in e..Len(s) /\ x = s[i] /\ <<x, y>> \in Links(c) => <<x, y>> \in Links(g)
    BY <2>1 DEF n
  <2>4. Graph(c)
    BY <1>19 DEF Sound
  <2>5. to = s[e]
    OBVIOUS
  <2> HIDE DEF e, to, id
  <2>6. \A i \in 1..e - 1 : s[i] \notin ReachedFrom(c, s[e])
    BY <2>2, <2>3, <2>4, Ahead
  <2>7. QED
    BY <2>2, <2>5, <2>6 DEF MakesCycle, id
<1>21. Sound(d) /\ d.nodes = c.nodes /\ Ids(d) = Ids(c) /\ Links(d) = Links(c) \cup {<<id, to>>}
  <2>1. Sound(c) /\ id \in Ids(c) /\ to \in Ids(c) /\ id # "Output"
    BY <1>10, <1>11, <1>17, <1>19
  <2> HIDE DEF id, from, next, to, Cut
  <2>2. /\ Sound(Joined(c, id, to)) /\ Joined(c, id, to).nodes = c.nodes
        /\ Ids(Joined(c, id, to)) = Ids(c)
        /\ Links(Joined(c, id, to)) = Links(c) \cup {<<id, to>>}
    BY <1>20, <2>1, JoinedSound
  <2>3. QED
    BY <2>2
<1> HIDE DEF d
<1>22. /\ Ids(d) = Ids(g) /\ d.nodes = g.nodes
       /\ Links(d) = (Links(g) \ Cut) \cup {<<from, next>>, <<next, id>>, <<id, to>>}
  BY <1>11, <1>17, <1>19, <1>21
<1>23. ASSUME NEW i \in 1..n PROVE t[i] = IF i = j THEN s[j + 1] ELSE IF i = j + 1 THEN s[j] ELSE s[i]
  BY DEF Exchanged, n
<1>24. t \in Seq(Ids(d)) /\ Len(t) = n
  <2>1. \A i \in 1..n : t[i] \in Ids(d)
    BY <1>2, <1>7, <1>22, <1>23
  <2>2. t \in [1..n -> Ids(d)]
    BY <2>1 DEF Exchanged, n
  <2> HIDE DEF t
  <2>3. QED
    BY <1>1, <2>2
<1> HIDE DEF t
<1>25. t[j] = next /\ t[j + 1] = id /\ t[j - 1] = from /\ t[(j + 1) + 1] = to
  BY <1>7, <1>23
<1> HIDE DEF id, from, next, to, Cut
<1>26. ASSUME NEW i \in 1..n, NEW k \in 1..n, t[i] = t[k] PROVE i = k
  <2> DEFINE w(x) == IF x = j THEN j + 1 ELSE IF x = j + 1 THEN j ELSE x
  <2>1. ASSUME NEW x \in 1..n PROVE t[x] = s[w(x)] /\ w(x) \in 1..n
    BY <1>7, <1>23
  <2>2. w(i) = w(k)
    <3> HIDE DEF w
    <3>1. QED
      BY <1>3, <1>26, <2>1
  <2>3. QED
    BY <1>7, <2>2
<1>27. ASSUME NEW x \in Ids(d) PROVE \E i \in 1..n : t[i] = x
  <2>1. PICK k \in 1..n : s[k] = x
    BY <1>4, <1>22
  <2>2. CASE k = j
    BY <1>7, <1>25, <2>1, <2>2 DEF id
  <2>3. CASE k = j + 1
    BY <1>7, <1>25, <2>1, <2>3 DEF next
  <2>4. CASE k # j /\ k # j + 1
    BY <1>23, <2>1, <2>4
  <2>5. QED
    BY <2>2, <2>3, <2>4
<1>28. ASSUME NEW x, NEW y, <<x, y>> \in Links(d) PROVE \E i \in 1..n - 1 : x = t[i] /\ y = t[i + 1]
  <2>1. CASE <<x, y>> = <<from, next>>
    BY <1>7, <1>25, <2>1
  <2>2. CASE <<x, y>> = <<next, id>>
    BY <1>7, <1>25, <2>2
  <2>3. CASE <<x, y>> = <<id, to>>
    BY <1>7, <1>25, <2>3
  <2>4. CASE <<x, y>> \in Links(g) \ Cut
    <3>1. PICK k \in 1..n - 1 : x = s[k] /\ y = s[k + 1]
      BY <1>5, <2>4
    <3>2. k # j - 1
      BY <1>7, <2>4, <3>1 DEF Cut, from, id
    <3>3. k # j
      BY <2>4, <3>1 DEF Cut, next, id
    <3>4. k # j + 1
      BY <2>4, <3>1 DEF Cut, next, to
    <3>5. /\ k \in 1..n /\ k + 1 \in 1..n /\ k # j /\ k # j + 1 /\ k + 1 # j /\ k + 1 # j + 1
      BY <1>1, <1>7, <3>2, <3>3, <3>4
    <3>6. t[k] = s[k] /\ t[k + 1] = s[k + 1]
      BY <1>23, <3>5
    <3>7. QED
      BY <3>1, <3>6
  <2>5. QED
    BY <1>22, <1>28, <2>1, <2>2, <2>3, <2>4
<1>29. ASSUME NEW i \in 1..n - 1 PROVE <<t[i], t[i + 1]>> \in Links(d)
  <2>1. CASE i = j - 1
    BY <1>7, <1>22, <1>25, <2>1
  <2>2. CASE i = j
    BY <1>22, <1>25, <2>2
  <2>3. CASE i = j + 1
    BY <1>22, <1>25, <2>3
  <2>4. CASE i # j - 1 /\ i # j /\ i # j + 1
    <3>1. i \in 1..n /\ i + 1 \in 1..n /\ i + 1 # j /\ i + 1 # j + 1
      BY <1>1, <1>7, <2>4
    <3>2. t[i] = s[i] /\ t[i + 1] = s[i + 1]
      BY <1>23, <2>4, <3>1
    <3>3. s[i] # from /\ s[i] # id /\ s[i] # next
      BY <1>3, <1>7, <2>4, <3>1 DEF from, id, next
    <3>4. <<s[i], s[i + 1]>> \notin Cut
      BY <3>3 DEF Cut
    <3>5. <<s[i], s[i + 1]>> \in Links(g)
      BY <1>6
    <3>6. QED
      BY <1>22, <3>2, <3>4, <3>5
  <2>5. QED
    BY <2>1, <2>2, <2>3, <2>4
<1>30. t[1] = "Input" /\ t[n] = "Output"
  <2>1. 1 # j /\ 1 # j + 1 /\ n # j /\ n # j + 1
    BY <1>7
  <2>2. QED
    BY <1>1, <1>7, <1>23, <2>1
<1>31. Path(d, t)
  <2> DEFINE m == Len(t)
  <2>0. m = n
    BY <1>24
  <2> HIDE DEF m
  <2>1. t \in Seq(Ids(d)) /\ m >= 2 /\ t[1] = "Input" /\ t[m] = "Output"
    BY <1>1, <1>24, <1>30, <2>0
  <2>2. \A i, k \in 1..m : t[i] = t[k] => i = k
    BY <1>26, <2>0
  <2>3. \A x \in Ids(d) : \E i \in 1..m : t[i] = x
    BY <1>27, <2>0
  <2>4. ASSUME NEW x, NEW y PROVE <<x, y>> \in Links(d) <=> \E i \in 1..m - 1 : x = t[i] /\ y = t[i + 1]
    <3>1. CASE <<x, y>> \in Links(d)
      BY <1>28, <2>0, <3>1
    <3>2. ASSUME NEW i \in 1..m - 1, x = t[i], y = t[i + 1] PROVE <<x, y>> \in Links(d)
      BY <1>29, <2>0, <3>2
    <3>3. QED
      BY <3>1, <3>2
  <2>5. Visits(d, t)
    BY <2>1, <2>2, <2>3, <2>4 DEF Visits, m
  <2>6. QED
    BY <1>21, <2>5, PathBy DEF Sound
<1>32. Swapped(g, s[j]) = d
  BY <1>9 DEF id
<1>33. Path(d, Exchanged(s, j))
  BY <1>31 DEF t
<1>34. QED
  BY <1>21, <1>22, <1>32, <1>33

(* Removing a plugin leaves a chain of the others. *)
LEMMA RemovedLinear ==
  ASSUME NEW g, Sound(g), Linear(g), NEW id \in DOMAIN g.nodes
  PROVE  /\ Sound(Removed(g, id)) /\ Linear(Removed(g, id))
         /\ DOMAIN Removed(g, id).nodes = DOMAIN g.nodes \ {id}
<1> DEFINE s == LinearOrder(g)
           n == Len(s)
<1>1. Path(g, s)
  BY LinearPath
<1> HIDE DEF s
<1>2. n \in Nat /\ n >= 2 /\ s[1] = "Input" /\ s[n] = "Output" /\ \A x \in Ids(g) : \E k \in 1..n : s[k] = x
  BY <1>1, OnPath
<1>3. id \in Ids(g) /\ id # "Input" /\ id # "Output"
  BY IdsFacts DEF Sound, Ids
<1>4. PICK k \in 1..n : s[k] = id
  BY <1>2, <1>3
<1>5. k \in 2..n - 1
  BY <1>2, <1>3, <1>4
<1>6. /\ Sound(Removed(g, s[k])) /\ Path(Removed(g, s[k]), Dropped(s, k))
      /\ DOMAIN Removed(g, s[k]).nodes = DOMAIN g.nodes \ {s[k]}
  BY <1>1, <1>5, RemovedIs DEF n
<1>7. Linear(Removed(g, s[k]))
  BY <1>6, PathLinear DEF Sound
<1>8. QED
  BY <1>4, <1>6, <1>7

(* The graphs there are. *)
AllGraphs == UNION {GraphsOn(ids) : ids \in SUBSET Plugins}

LEMMA SoundGraph ==
  ASSUME NEW g, Sound(g)
  PROVE  g \in AllGraphs
BY DEF Sound, Graph, AllGraphs

(* The plugins of a rack are met once each. *)
LEMMA RackOnce ==
  ASSUME NEW g, Sound(g)
  PROVE  /\ Rack(g) \in Seq(DOMAIN g.nodes) /\ Len(Rack(g)) \in Nat
         /\ \A k \in 1..Len(Rack(g)) : Rack(g)[k] \in DOMAIN g.nodes
         /\ \A j, k \in 1..Len(Rack(g)) : Rack(g)[j] = Rack(g)[k] => j = k
<1>1. Rack(g) \in Seq(DOMAIN g.nodes)
  BY RackTyped DEF Sound
<1>2. CASE Linear(g)
  <2> DEFINE s == LinearOrder(g)
  <2>1. Path(g, s)
    BY <1>2, LinearPath
  <2> HIDE DEF s
  <2>2. Places(g, s)
    BY <2>1, PathPlaces DEF Sound
  <2>3. QED
    BY <1>1, <2>2 DEF Places
<1>3. CASE ~Linear(g)
  BY <1>1, <1>3 DEF Rack
<1>4. QED
  BY <1>2, <1>3
-----------------------------------------------------------------------------
(* Thinned(r, t): what is left when some plugins of the users are taken out *)
(* of r, in the same order.                                                 *)
Heard(r, x, y) == \E a, b \in DOMAIN r : a < b /\ r[a] = x /\ r[b] = y
Thinned(r, t) ==
  /\ t \in Seq(ToSet(r)) /\ ToSet(r) \ ToSet(t) \subseteq Users
  /\ \A j, k \in DOMAIN t : j < k => Heard(r, t[j], t[k])

LEMMA ThinnedSame ==
  ASSUME NEW S, NEW r \in Seq(S)
  PROVE  Thinned(r, r)
<1>1. r \in [1..Len(r) -> S] /\ DOMAIN r = 1..Len(r) /\ Len(r) \in Nat
  BY LenProperties
<1>2. r \in [1..Len(r) -> ToSet(r)]
  BY <1>1 DEF ToSet
<1>3. r \in Seq(ToSet(r))
  BY <1>1, <1>2
<1>4. ASSUME NEW j \in DOMAIN r, NEW k \in DOMAIN r, j < k PROVE Heard(r, r[j], r[k])
  BY <1>4 DEF Heard
<1>5. QED
  BY <1>3, <1>4 DEF Thinned

LEMMA ThinnedOn ==
  ASSUME NEW r, NEW t, NEW u, Thinned(r, t), Thinned(t, u)
  PROVE  Thinned(r, u)
<1>1. t \in Seq(ToSet(r)) /\ u \in Seq(ToSet(t)) /\ ToSet(r) \ ToSet(t) \subseteq Users /\ ToSet(t) \ ToSet(u) \subseteq Users
  BY DEF Thinned
<1>2. ToSet(t) \subseteq ToSet(r)
  <2>1. \A i \in DOMAIN t : t[i] \in ToSet(r)
    BY <1>1, LenProperties, ElementOfSeq
  <2>2. QED
    BY <2>1 DEF ToSet
<1>3. u \in Seq(ToSet(r))
  BY <1>1, <1>2, SeqMonotonic
<1>4. ToSet(r) \ ToSet(u) \subseteq Users
  BY <1>1
<1>5. ASSUME NEW j \in DOMAIN u, NEW k \in DOMAIN u, j < k PROVE Heard(r, u[j], u[k])
  <2>1. PICK a, b \in DOMAIN t : a < b /\ t[a] = u[j] /\ t[b] = u[k]
    BY <1>5 DEF Thinned, Heard
  <2>2. Heard(r, t[a], t[b])
    BY <2>1 DEF Thinned
  <2>3. QED
    BY <2>1, <2>2
<1>6. QED
  BY <1>3, <1>4, <1>5 DEF Thinned

(* A rack holds the plugins of its graph. *)
LEMMA RackHolds ==
  ASSUME NEW g, Sound(g), Linear(g)
  PROVE  ToSet(Rack(g)) = DOMAIN g.nodes
<1> DEFINE s == LinearOrder(g)
           m == Len(s) - 2
<1>1. Places(g, s)
  BY LinearPath, PathPlaces DEF Sound
<1>2. /\ Rack(g) \in Seq(DOMAIN g.nodes) /\ Len(Rack(g)) = m
      /\ \A id \in DOMAIN g.nodes : \E k \in 1..m : Rack(g)[k] = id
  BY <1>1 DEF Places
<1> HIDE DEF m
<1>3. DOMAIN Rack(g) = 1..m /\ \A k \in 1..m : Rack(g)[k] \in DOMAIN g.nodes
  BY <1>2, LenProperties, ElementOfSeq
<1>4. QED
  BY <1>2, <1>3 DEF ToSet

LEMMA RemovedThins ==
  ASSUME NEW g, Sound(g), Linear(g), NEW id \in DOMAIN g.nodes, id \in Users
  PROVE  Thinned(Rack(g), Rack(Removed(g, id)))
<1> DEFINE s == LinearOrder(g)
           n == Len(s)
           h == Removed(g, id)
           r == Rack(g)
           t == Rack(h)
<1>1. Path(g, s)
  BY LinearPath
<1> HIDE DEF s
<1>2. Places(g, s)
  BY <1>1, PathPlaces DEF Sound
<1>3. /\ n \in Nat /\ n >= 2 /\ Len(r) = n - 2 /\ r \in Seq(DOMAIN g.nodes)
      /\ \A k \in 1..n - 2 : r[k] = s[k + 1]
      /\ \E k \in 1..n - 2 : r[k] = id
  BY <1>2 DEF Places
<1> HIDE DEF r
<1>4. PICK p \in 1..n - 2 : r[p] = id
  BY <1>3
<1> DEFINE q == p + 1
<1>5. q \in 2..n - 1 /\ s[q] = id
  BY <1>3, <1>4
<1> HIDE DEF q
<1>6. Sound(h) /\ Path(h, Dropped(s, q)) /\ DOMAIN h.nodes = DOMAIN g.nodes \ {id} /\ Linear(h)
  <2>1. /\ Sound(Removed(g, s[q])) /\ Path(Removed(g, s[q]), Dropped(s, q))
        /\ DOMAIN Removed(g, s[q]).nodes = DOMAIN g.nodes \ {s[q]}
    BY <1>1, <1>5, RemovedIs DEF n
  <2>2. QED
    BY <1>5, <2>1, PathLinear DEF Sound
<1> HIDE DEF h
<1>7. Places(h, Dropped(s, q))
  BY <1>6, PathPlaces DEF Sound
<1>8. /\ Len(Dropped(s, q)) = n - 1
      /\ \A i \in 1..n - 1 : Dropped(s, q)[i] = IF i < q THEN s[i] ELSE s[i + 1]
  <2>1. \A i \in 1..n - 1 : Dropped(s, q)[i] = IF i < q THEN s[i] ELSE s[i + 1]
    BY DEF Dropped, n
  <2>2. n - 1 \in Nat /\ Dropped(s, q) = [i \in 1..n - 1 |-> IF i < q THEN s[i] ELSE s[i + 1]]
    BY <1>3 DEF Dropped, n
  <2> DEFINE N == n - 1
             dropped == [i \in 1..N |-> IF i < q THEN s[i] ELSE s[i + 1]]
  <2>3. Len(dropped) = N
    <3>1. N \in Nat
      BY <2>2
    <3> HIDE DEF N
    <3>2. DOMAIN dropped = 1..N
      OBVIOUS
    <3> HIDE DEF dropped
    <3>3. QED
      BY <3>1, <3>2
  <2>4. QED
    BY <2>1, <2>2, <2>3
<1> DEFINE d == Dropped(s, q)
<1> HIDE DEF d
<1>9. /\ t \in Seq(DOMAIN h.nodes) /\ Len(t) = Len(d) - 2
      /\ \A k \in 1..Len(d) - 2 : t[k] = d[k + 1]
  BY <1>7 DEF Places, d
<1> HIDE DEF t, n
<1>10. Len(d) - 2 = n - 3 /\ \A i \in 1..n - 1 : d[i] = IF i < q THEN s[i] ELSE s[i + 1]
  <2>1. Len(d) = n - 1 /\ \A i \in 1..n - 1 : d[i] = IF i < q THEN s[i] ELSE s[i + 1]
    BY <1>8, Zenon DEF d
  <2>2. Len(d) - 2 = n - 3
    BY <1>3, <2>1
  <2>3. QED
    BY <2>1, <2>2
<1>11. t \in Seq(DOMAIN h.nodes) /\ Len(t) = n - 3 /\ \A k \in 1..n - 3 : t[k] = d[k + 1]
  BY <1>9, <1>10
<1> DEFINE Old(k) == IF k < p THEN k ELSE k + 1
<1>12. ASSUME NEW k \in 1..n - 3 PROVE Old(k) \in 1..n - 2 /\ t[k] = r[Old(k)]
  <2>1. k + 1 \in 1..n - 1 /\ k \in 1..n - 2 /\ k + 1 \in 1..n - 2
    BY <1>3
  <2>2. t[k] = IF k + 1 < q THEN s[k + 1] ELSE s[(k + 1) + 1]
    BY <1>10, <1>11, <2>1
  <2>3. CASE k < p
    <3>1. k + 1 < q
      BY <1>3, <1>4, <2>3 DEF q
    <3>2. QED
      BY <1>3, <2>1, <2>2, <2>3, <3>1
  <2>4. CASE ~(k < p)
    <3>1. ~(k + 1 < q)
      BY <1>3, <1>4, <2>4 DEF q
    <3>2. r[k + 1] = s[(k + 1) + 1]
      BY <1>3, <2>1
    <3>3. QED
      BY <2>1, <2>2, <2>4, <3>1, <3>2
  <2>5. QED
    BY <2>3, <2>4
<1>13. DOMAIN r = 1..n - 2 /\ DOMAIN t = 1..n - 3
  BY <1>3, <1>11, LenProperties
<1>14. ASSUME NEW j \in DOMAIN t, NEW k \in DOMAIN t, j < k PROVE Heard(r, t[j], t[k])
  <2>1. Old(j) < Old(k)
    BY <1>3, <1>4, <1>13, <1>14
  <2> HIDE DEF Old
  <2>2. QED
    BY <1>12, <1>13, <2>1 DEF Heard
<1>15. ToSet(r) = DOMAIN g.nodes /\ ToSet(t) = DOMAIN g.nodes \ {id}
  BY <1>6, RackHolds DEF r, t
<1>16. t \in Seq(ToSet(r)) /\ ToSet(r) \ ToSet(t) \subseteq Users
  BY <1>6, <1>11, <1>15, SeqMonotonic
<1>17. Thinned(r, t)
  BY <1>14, <1>16 DEF Thinned
<1>18. QED
  BY <1>17 DEF r, t, h


-----------------------------------------------------------------------------
(* clear_plugins takes the plugins of a user away, one after another. *)
EmptyingStep(g, k, x) == IF Rack(g)[k] \in Users THEN Removed(x, Rack(g)[k]) ELSE x
Emptying(f, g) == f = [k \in 0..Len(Rack(g)) |-> IF k = 0 THEN g ELSE EmptyingStep(g, k, f[k - 1])]
EmptiedUpTo(g, k, h) ==
  /\ Sound(h) /\ Linear(h) /\ \A j \in k + 1..Len(Rack(g)) : Rack(g)[j] \in DOMAIN h.nodes
  /\ Thinned(Rack(g), Rack(h))

LEMMA EmptyingOn ==
  ASSUME NEW g, Sound(g), NEW k \in 1..Len(Rack(g)), NEW x, EmptiedUpTo(g, k - 1, x)
  PROVE  EmptiedUpTo(g, k, EmptyingStep(g, k, x))
<1> DEFINE n == Len(Rack(g))
           id == Rack(g)[k]
<1>1. n \in Nat /\ \A i, j \in 1..n : Rack(g)[i] = Rack(g)[j] => i = j
  BY RackOnce
<1> HIDE DEF n
<1>2. Sound(x) /\ Linear(x) /\ \A j \in (k - 1) + 1..n : Rack(g)[j] \in DOMAIN x.nodes
  BY DEF EmptiedUpTo, n
<1>3. k \in 1..n /\ k \in (k - 1) + 1..n
  BY <1>1 DEF n
<1>4. id \in DOMAIN x.nodes
  BY <1>2, <1>3
<1>5. ASSUME NEW j \in k + 1..n PROVE Rack(g)[j] \in DOMAIN x.nodes /\ Rack(g)[j] # id
  <2>1. j \in (k - 1) + 1..n /\ j \in 1..n /\ j # k
    BY <1>1, <1>3
  <2>2. QED
    BY <1>1, <1>2, <1>3, <2>1
<1>6. Sound(Removed(x, id)) /\ Linear(Removed(x, id)) /\ DOMAIN Removed(x, id).nodes = DOMAIN x.nodes \ {id}
  BY <1>2, <1>4, RemovedLinear
<1> HIDE DEF id
<1>7. EmptyingStep(g, k, x) = IF id \in Users THEN Removed(x, id) ELSE x
  BY DEF EmptyingStep, id
<1>8. CASE id \in Users
  <2>1. Thinned(Rack(g), Rack(x)) /\ Thinned(Rack(x), Rack(Removed(x, id)))
    BY <1>2, <1>4, <1>8, RemovedThins DEF EmptiedUpTo
  <2>2. Thinned(Rack(g), Rack(Removed(x, id)))
    BY <2>1, ThinnedOn
  <2>3. QED
    BY <1>5, <1>6, <1>7, <1>8, <2>2 DEF EmptiedUpTo, n
<1>9. CASE id \notin Users
  <2>1. Thinned(Rack(g), Rack(x))
    BY DEF EmptiedUpTo
  <2>2. QED
    BY <1>2, <1>5, <1>7, <1>9, <2>1 DEF EmptiedUpTo, n
<1>10. QED
  BY <1>8, <1>9

LEMMA EmptyingExists ==
  ASSUME NEW g, Sound(g), Linear(g)
  PROVE  \E f : Emptying(f, g)
<1> DEFINE n == Len(Rack(g))
           F == [w \in Nat \X AllGraphs |-> EmptyingStep(g, w[1], w[2])]
           R == {w \in Nat \X AllGraphs : EmptiedUpTo(g, w[1], w[2])}
<1>1. n \in Nat /\ \A k \in 1..n : Rack(g)[k] \in DOMAIN g.nodes
  BY RackOnce
<1> HIDE DEF n
<1>2. \A k \in Nat, x \in AllGraphs : F[<<k, x>>] = EmptyingStep(g, k, x)
  <2>1. ASSUME NEW k \in Nat, NEW x \in AllGraphs PROVE F[<<k, x>>] = EmptyingStep(g, k, x)
    <3>1. F[<<k, x>>] = EmptyingStep(g, <<k, x>>[1], <<k, x>>[2])
      BY <<k, x>> \in Nat \X AllGraphs
    <3>2. QED
      BY <3>1
  <2>2. QED
    BY <2>1
<1>3. \A k \in Nat, x \in AllGraphs : <<k, x>> \in R <=> EmptiedUpTo(g, k, x)
  <2>1. ASSUME NEW k \in Nat, NEW x \in AllGraphs PROVE <<k, x>> \in R <=> EmptiedUpTo(g, k, x)
    <3>1. <<k, x>> \in R <=> EmptiedUpTo(g, <<k, x>>[1], <<k, x>>[2])
      BY <<k, x>> \in Nat \X AllGraphs
    <3>2. QED
      BY <3>1
  <2>2. QED
    BY <2>1
<1>4. R \in SUBSET (Nat \X AllGraphs)
  OBVIOUS
<1> HIDE DEF F, R
<1>5. g \in AllGraphs /\ 0 \in Nat /\ <<0, g>> \in R
  <2>1. EmptiedUpTo(g, 0, g)
    BY <1>1, RackOnce, ThinnedSame DEF EmptiedUpTo, n
  <2>2. QED
    BY <1>3, <2>1, SoundGraph
<1>6. ASSUME NEW k \in 0 + 1..n, NEW x \in AllGraphs, <<k - 1, x>> \in R PROVE <<k, F[<<k, x>>]>> \in R
  <2>1. k \in Nat /\ k - 1 \in Nat /\ k \in 1..n
    OBVIOUS
  <2>2. EmptiedUpTo(g, k - 1, x)
    BY <1>3, <1>6, <2>1
  <2>3. EmptiedUpTo(g, k, EmptyingStep(g, k, x))
    BY <2>1, <2>2, EmptyingOn DEF n
  <2>4. EmptyingStep(g, k, x) \in AllGraphs
    BY <2>3, SoundGraph DEF EmptiedUpTo
  <2>5. QED
    BY <1>2, <1>3, <2>1, <2>3, <2>4
<1>7. PICK f : Recursion(f, 0, n, AllGraphs, g, F)
  BY <1>1, <1>4, <1>5, <1>6, Iterated
<1>8. f \in [0..n -> AllGraphs] /\ \A k \in 0..n : f[k] = IF k = 0 THEN g ELSE F[<<k, f[k - 1]>>]
  BY <1>7 DEF Recursion
<1>9. \A k \in 0..n : f[k] = IF k = 0 THEN g ELSE EmptyingStep(g, k, f[k - 1])
  <2>1. ASSUME NEW k \in 0..n PROVE f[k] = IF k = 0 THEN g ELSE EmptyingStep(g, k, f[k - 1])
    <3>1. CASE k = 0
      BY <1>8, <3>1
    <3>2. CASE k # 0
      <4>1. k \in Nat /\ k - 1 \in 0..n
        BY <1>1, <3>2
      <4>2. f[k - 1] \in AllGraphs
        BY <1>8, <4>1
      <4>3. QED
        BY <1>2, <1>8, <3>2, <4>1, <4>2
    <3>3. QED
      BY <3>1, <3>2
  <2>2. QED
    BY <2>1
<1>10. f = [k \in 0..n |-> IF k = 0 THEN g ELSE EmptyingStep(g, k, f[k - 1])]
  BY <1>8, <1>9
<1>11. QED
  BY <1>10 DEF Emptying, n

LEMMA EmptiedSound ==
  ASSUME NEW g, Sound(g), Linear(g)
  PROVE  Sound(Emptied(g)) /\ Thinned(Rack(g), Rack(Emptied(g)))
<1> DEFINE n == Len(Rack(g))
           f == CHOOSE f : Emptying(f, g)
           T == {k \in Nat : EmptiedUpTo(g, k, f[k])}
<1>1. n \in Nat /\ \A k \in 1..n : Rack(g)[k] \in DOMAIN g.nodes
  BY RackOnce
<1>2. Emptying(f, g)
  BY EmptyingExists
<1>3. Emptied(g) = f[n]
  BY DEF Emptied, Emptying, EmptyingStep
<1> HIDE DEF f, n
<1>4. \A k \in 0..n : f[k] = IF k = 0 THEN g ELSE EmptyingStep(g, k, f[k - 1])
  BY <1>2, Zenon DEF Emptying, n
<1>5. 0 \in T
  <2>1. f[0] = g
    BY <1>1, <1>4
  <2>2. EmptiedUpTo(g, 0, f[0])
    BY <1>1, <2>1, RackOnce, ThinnedSame DEF EmptiedUpTo, n
  <2>3. QED
    BY <2>2
<1>6. ASSUME NEW k \in 0..n - 1, k \in T PROVE k + 1 \in T
  <2>1. k + 1 \in 1..n /\ k + 1 \in 0..n /\ k + 1 # 0 /\ (k + 1) - 1 = k /\ k + 1 \in Nat
    BY <1>1
  <2>2. EmptiedUpTo(g, (k + 1) - 1, f[k])
    BY <1>6, <2>1
  <2>3. EmptiedUpTo(g, k + 1, EmptyingStep(g, k + 1, f[k]))
    BY <2>1, <2>2, EmptyingOn DEF n
  <2>4. f[k + 1] = EmptyingStep(g, k + 1, f[k])
    BY <1>4, <2>1
  <2>5. QED
    BY <2>1, <2>3, <2>4
<1> HIDE DEF T
<1>7. \A k \in 0..n : k \in T
  BY <1>1, <1>5, <1>6, CountUp, 0 \in Nat
<1>8. n \in T
  BY <1>1, <1>7
<1>9. QED
  BY <1>3, <1>8 DEF T, EmptiedUpTo

-----------------------------------------------------------------------------
(* Swapping two neighbours of a rack does that and nothing else. *)
LEMMA SameSequence ==
  ASSUME NEW S, NEW r \in Seq(S), NEW n \in Nat, Len(r) = n, NEW f, DOMAIN f = 1..n, f = [k \in 1..n |-> f[k]],
         \A k \in 1..n : r[k] = f[k]
  PROVE  r = f
<1>1. r \in [1..n -> S]
  BY LenProperties
<1>2. r = [k \in 1..n |-> r[k]]
  BY <1>1
<1>3. QED
  BY <1>2, Zenon

LEMMA SwappedLinear ==
  ASSUME NEW g, Sound(g), Linear(g), NEW i \in 1..Len(Rack(g)) - 1
  PROVE  /\ Sound(Swapped(g, Rack(g)[i])) /\ Linear(Swapped(g, Rack(g)[i]))
         /\ Rack(Swapped(g, Rack(g)[i])) = Exchanged(Rack(g), i)
<1> DEFINE s == LinearOrder(g)
           n == Len(s)
           j == i + 1
           h == Swapped(g, s[j])
           t == Exchanged(s, j)
<1>1. Path(g, s)
  BY LinearPath
<1> HIDE DEF s
<1>2. Places(g, s)
  BY <1>1, PathPlaces DEF Sound
<1>3. /\ n \in Nat /\ Len(Rack(g)) = n - 2 /\ \A k \in 1..n - 2 : Rack(g)[k] = s[k + 1]
      /\ s \in Seq(Ids(g))
  BY <1>1, <1>2 DEF Places, Path
<1>4. j \in 2..n - 2 /\ Rack(g)[i] = s[j]
  BY <1>3
<1> HIDE DEF j
<1>5. Sound(h) /\ Path(h, t)
  BY <1>1, <1>4, SwappedIs DEF n
<1> HIDE DEF h
<1>6. t \in Seq(Ids(g)) /\ Len(t) = n
      /\ \A k \in 1..n : t[k] = IF k = j THEN s[j + 1] ELSE IF k = j + 1 THEN s[j] ELSE s[k]
  <2>1. ASSUME NEW k \in 1..n PROVE t[k] \in Ids(g)
    <3>1. j \in 1..n /\ j + 1 \in 1..n
      BY <1>3, <1>4
    <3>2. \A l \in 1..n : s[l] \in Ids(g)
      BY <1>3, ElementOfSeq
    <3>3. QED
      BY <3>1, <3>2 DEF Exchanged
  <2>2. t \in [1..n -> Ids(g)]
    BY <2>1 DEF Exchanged
  <2>3. QED
    BY <1>3, <2>2 DEF Exchanged
<1> HIDE DEF t, n
<1>7. Linear(h) /\ Places(h, t)
  BY <1>5, PathLinear, PathPlaces DEF Sound
<1>8. Rack(h) \in Seq(DOMAIN h.nodes) /\ Len(Rack(h)) = n - 2 /\ \A k \in 1..n - 2 : Rack(h)[k] = t[k + 1]
  BY <1>6, <1>7 DEF Places
<1> DEFINE r == Rack(g)
           m == n - 2
<1>9. m \in Nat /\ Len(r) = m /\ i \in 1..m - 1 /\ \A k \in 1..m : r[k] = s[k + 1] /\ k + 1 \in 1..n
  BY <1>3
<1> HIDE DEF r
<1>10. ASSUME NEW k \in 1..m
       PROVE  Rack(h)[k] = IF k = i THEN r[i + 1] ELSE IF k = i + 1 THEN r[i] ELSE r[k]
  <2>1. i \in 1..m /\ i + 1 \in 1..m
    BY <1>9
  <2>2. r[i] = s[j] /\ r[i + 1] = s[j + 1] /\ r[k] = s[k + 1]
    BY <1>9, <2>1 DEF j
  <2>3. Rack(h)[k] = IF k + 1 = j THEN s[j + 1] ELSE IF k + 1 = j + 1 THEN s[j] ELSE s[k + 1]
    BY <1>6, <1>8, <1>9
  <2>4. (k + 1 = j <=> k = i) /\ (k + 1 = j + 1 <=> k = i + 1)
    BY <1>9 DEF j
  <2>5. QED
    BY <2>2, <2>3, <2>4
<1> DEFINE e == Exchanged(r, i)
<1>11. DOMAIN e = 1..m /\ e = [k \in 1..m |-> e[k]]
       /\ \A k \in 1..m : e[k] = IF k = i THEN r[i + 1] ELSE IF k = i + 1 THEN r[i] ELSE r[k]
  BY <1>9 DEF Exchanged
<1> HIDE DEF e
<1>12. Rack(h) = e
  <2>1. Len(Rack(h)) = m /\ \A k \in 1..m : Rack(h)[k] = e[k]
    BY <1>8, <1>10, <1>11
  <2> HIDE DEF m
  <2>2. QED
    BY <1>8, <1>9, <1>11, <2>1, SameSequence
<1>13. QED
  BY <1>4, <1>5, <1>7, <1>12 DEF h, e, r

(* The list in which the plugin at place from was put at place p. *)
Slid(r, from, p) ==
  [k \in 1..Len(r) |-> IF k = p THEN r[from]
                        ELSE IF from <= k /\ k < p THEN r[k + 1]
                        ELSE IF p < k /\ k <= from THEN r[k - 1] ELSE r[k]]

LEMMA SlidStart ==
  ASSUME NEW S, NEW r \in Seq(S), NEW from \in 1..Len(r)
  PROVE  r = Slid(r, from, from)
<1> DEFINE n == Len(r)
           f == Slid(r, from, from)
<1>1. n \in Nat
  BY LenProperties
<1>2. DOMAIN f = 1..n /\ f = [k \in 1..n |-> f[k]]
  BY DEF Slid
<1>3. ASSUME NEW k \in 1..n PROVE r[k] = f[k]
  BY DEF Slid
<1> HIDE DEF f
<1>4. QED
  BY <1>1, <1>2, <1>3, SameSequence DEF f

LEMMA SlidOn ==
  ASSUME NEW r, Len(r) \in Nat, NEW from \in 1..Len(r), NEW p \in 1..Len(r), NEW q \in 1..Len(r),
         NEW i, (q = p + 1 /\ from <= p /\ i = p) \/ (q = p - 1 /\ p <= from /\ i = q)
  PROVE  Exchanged(Slid(r, from, p), i) = Slid(r, from, q)
<1> DEFINE n == Len(r)
           f == Slid(r, from, p)
           e == Exchanged(f, i)
           d == Slid(r, from, q)
<1>1. \A k \in 1..n : f[k] = IF k = p THEN r[from]
                             ELSE IF from <= k /\ k < p THEN r[k + 1]
                             ELSE IF p < k /\ k <= from THEN r[k - 1] ELSE r[k]
  BY DEF Slid
<1>2. \A k \in 1..n : d[k] = IF k = q THEN r[from]
                             ELSE IF from <= k /\ k < q THEN r[k + 1]
                             ELSE IF q < k /\ k <= from THEN r[k - 1] ELSE r[k]
  BY DEF Slid
<1>3. DOMAIN f = 1..n /\ d = [k \in 1..n |-> d[k]]
  BY DEF Slid
<1>4. Len(f) = n
  <2> HIDE DEF f
  <2>1. QED
    BY <1>3
<1> HIDE DEF f, d
<1>5. e = [k \in 1..n |-> IF k = i THEN f[i + 1] ELSE IF k = i + 1 THEN f[i] ELSE f[k]]
  BY <1>4, Zenon DEF Exchanged
<1>6. i \in 1..n /\ i + 1 \in 1..n
  OBVIOUS
<1> HIDE DEF e
<1>7. ASSUME NEW k \in 1..n
      PROVE  (IF k = i THEN f[i + 1] ELSE IF k = i + 1 THEN f[i] ELSE f[k]) = d[k]
  <2>1. CASE k = i
    BY <1>1, <1>2, <1>6, <2>1 DEF n
  <2>2. CASE k = i + 1
    BY <1>1, <1>2, <1>6, <2>2 DEF n
  <2>3. CASE k # i /\ k # i + 1
    BY <1>1, <1>2, <1>6, <2>3 DEF n
  <2>4. QED
    BY <2>1, <2>2, <2>3
<1>8. e = [k \in 1..n |-> d[k]]
  BY <1>5, <1>7
<1>9. QED
  BY <1>3, <1>8 DEF e, d, f

(* move_plugin swaps the plugin with one neighbour after another. *)
MovingStep(from, to, k, x) == Swapped(x, Rack(x)[IF from < to THEN from + k - 1 ELSE from - k])
Moves(from, to) == IF from < to THEN to - from ELSE from - to
Moving(f, g, from, to) ==
  f = [k \in 0..Moves(from, to) |-> IF k = 0 THEN g ELSE MovingStep(from, to, k, f[k - 1])]
Reached(from, to, k) == IF from < to THEN from + k ELSE from - k
MovedUpTo(g, from, to, k, h) ==
  Sound(h) /\ Linear(h) /\ Rack(h) = Slid(Rack(g), from, Reached(from, to, k))

LEMMA MovingOn ==
  ASSUME NEW g, Sound(g), NEW from \in 1..Len(Rack(g)), NEW to \in 1..Len(Rack(g)),
         NEW k \in 1..Moves(from, to), NEW x, MovedUpTo(g, from, to, k - 1, x)
  PROVE  MovedUpTo(g, from, to, k, MovingStep(from, to, k, x))
<1> DEFINE r == Rack(g)
           n == Len(r)
           i == IF from < to THEN from + k - 1 ELSE from - k
           p == Reached(from, to, k - 1)
           q == Reached(from, to, k)
<1>1. n \in Nat
  BY RackOnce
<1>2. i \in 1..n - 1
  BY <1>1 DEF Moves
<1>3. p \in 1..n /\ q \in 1..n /\ ((q = p + 1 /\ from <= p /\ i = p) \/ (q = p - 1 /\ p <= from /\ i = q))
  BY <1>1 DEF Moves, Reached
<1> HIDE DEF i, p, q
<1>4. Sound(x) /\ Linear(x) /\ Rack(x) = Slid(r, from, p)
  BY DEF MovedUpTo, p
<1>5. Len(Slid(r, from, p)) = n
  <2>1. DOMAIN Slid(r, from, p) = 1..n
    BY DEF Slid
  <2> HIDE DEF n
  <2>2. QED
    BY <1>1, <2>1
<1>6. /\ Sound(Swapped(x, Rack(x)[i])) /\ Linear(Swapped(x, Rack(x)[i]))
      /\ Rack(Swapped(x, Rack(x)[i])) = Exchanged(Rack(x), i)
  BY <1>2, <1>4, <1>5, SwappedLinear
<1>7. MovingStep(from, to, k, x) = Swapped(x, Rack(x)[i])
  BY DEF MovingStep, i
<1>8. Exchanged(Slid(r, from, p), i) = Slid(r, from, q)
  BY <1>1, <1>3, SlidOn
<1>9. QED
  BY <1>4, <1>6, <1>7, <1>8 DEF MovedUpTo, q

LEMMA MovingStarts ==
  ASSUME NEW g, Sound(g), Linear(g), NEW from \in 1..Len(Rack(g)), NEW to
  PROVE  MovedUpTo(g, from, to, 0, g)
<1>1. Rack(g) \in Seq(DOMAIN g.nodes) /\ from \in Int
  BY RackOnce
<1>2. Reached(from, to, 0) = from
  BY <1>1 DEF Reached
<1>3. Rack(g) = Slid(Rack(g), from, from)
  BY <1>1, SlidStart
<1>4. QED
  BY <1>2, <1>3 DEF MovedUpTo

LEMMA MovingExists ==
  ASSUME NEW g, Sound(g), Linear(g), NEW from \in 1..Len(Rack(g)), NEW to \in 1..Len(Rack(g))
  PROVE  Moves(from, to) \in Nat /\ \E f : Moving(f, g, from, to)
<1> DEFINE n == Moves(from, to)
           F == [w \in Nat \X AllGraphs |-> MovingStep(from, to, w[1], w[2])]
           R == {w \in Nat \X AllGraphs : MovedUpTo(g, from, to, w[1], w[2])}
<1>1. n \in Nat
  BY RackOnce DEF Moves
<1> HIDE DEF n
<1>2. \A k \in Nat, x \in AllGraphs : F[<<k, x>>] = MovingStep(from, to, k, x)
  <2>1. ASSUME NEW k \in Nat, NEW x \in AllGraphs PROVE F[<<k, x>>] = MovingStep(from, to, k, x)
    <3>1. F[<<k, x>>] = MovingStep(from, to, <<k, x>>[1], <<k, x>>[2])
      BY <<k, x>> \in Nat \X AllGraphs
    <3>2. QED
      BY <3>1
  <2>2. QED
    BY <2>1
<1>3. \A k \in Nat, x \in AllGraphs : <<k, x>> \in R <=> MovedUpTo(g, from, to, k, x)
  <2>1. ASSUME NEW k \in Nat, NEW x \in AllGraphs PROVE <<k, x>> \in R <=> MovedUpTo(g, from, to, k, x)
    <3>1. <<k, x>> \in R <=> MovedUpTo(g, from, to, <<k, x>>[1], <<k, x>>[2])
      BY <<k, x>> \in Nat \X AllGraphs
    <3>2. QED
      BY <3>1
  <2>2. QED
    BY <2>1
<1>4. R \in SUBSET (Nat \X AllGraphs)
  OBVIOUS
<1> HIDE DEF F, R
<1>5. g \in AllGraphs /\ 0 \in Nat /\ <<0, g>> \in R
  <2>1. MovedUpTo(g, from, to, 0, g)
    BY MovingStarts
  <2>2. QED
    BY <1>3, <2>1, SoundGraph
<1>6. ASSUME NEW k \in 0 + 1..n, NEW x \in AllGraphs, <<k - 1, x>> \in R PROVE <<k, F[<<k, x>>]>> \in R
  <2>1. k \in Nat /\ k - 1 \in Nat /\ k \in 1..n
    OBVIOUS
  <2>2. MovedUpTo(g, from, to, k - 1, x)
    BY <1>3, <1>6, <2>1
  <2>3. MovedUpTo(g, from, to, k, MovingStep(from, to, k, x))
    BY <2>1, <2>2, MovingOn DEF n
  <2>4. MovingStep(from, to, k, x) \in AllGraphs
    BY <2>3, SoundGraph DEF MovedUpTo
  <2>5. QED
    BY <1>2, <1>3, <2>1, <2>3, <2>4
<1>7. PICK f : Recursion(f, 0, n, AllGraphs, g, F)
  BY <1>1, <1>4, <1>5, <1>6, Iterated
<1>8. f \in [0..n -> AllGraphs] /\ \A k \in 0..n : f[k] = IF k = 0 THEN g ELSE F[<<k, f[k - 1]>>]
  BY <1>7 DEF Recursion
<1>9. \A k \in 0..n : f[k] = IF k = 0 THEN g ELSE MovingStep(from, to, k, f[k - 1])
  <2>1. ASSUME NEW k \in 0..n PROVE f[k] = IF k = 0 THEN g ELSE MovingStep(from, to, k, f[k - 1])
    <3>1. CASE k = 0
      BY <1>8, <3>1
    <3>2. CASE k # 0
      <4>1. k \in Nat /\ k - 1 \in 0..n
        BY <1>1, <3>2
      <4>2. f[k - 1] \in AllGraphs
        BY <1>8, <4>1
      <4>3. QED
        BY <1>2, <1>8, <3>2, <4>1, <4>2
    <3>3. QED
      BY <3>1, <3>2
  <2>2. QED
    BY <2>1
<1>10. f = [k \in 0..n |-> IF k = 0 THEN g ELSE MovingStep(from, to, k, f[k - 1])]
  BY <1>8, <1>9
<1>11. QED
  BY <1>1, <1>10 DEF Moving, n

LEMMA MovedSound ==
  ASSUME NEW g, Sound(g), Linear(g), NEW from \in 1..Len(Rack(g)), NEW to \in 1..Len(Rack(g))
  PROVE  Sound(Moved(g, from, to)) /\ Rack(Moved(g, from, to)) = Slid(Rack(g), from, to)
<1> DEFINE n == Moves(from, to)
           f == CHOOSE f : Moving(f, g, from, to)
           T == {k \in Nat : MovedUpTo(g, from, to, k, f[k])}
<1>1. n \in Nat
  BY MovingExists
<1>2. Moving(f, g, from, to)
  BY MovingExists
<1>3. Moved(g, from, to) = f[n]
  BY DEF Moved, Moving, MovingStep, Moves
<1> HIDE DEF f, n
<1>4. \A k \in 0..n : f[k] = IF k = 0 THEN g ELSE MovingStep(from, to, k, f[k - 1])
  BY <1>2, Zenon DEF Moving, n
<1>5. 0 \in T
  <2>1. f[0] = g
    BY <1>1, <1>4
  <2>2. MovedUpTo(g, from, to, 0, f[0])
    BY <2>1, MovingStarts
  <2>3. QED
    BY <2>2
<1>6. ASSUME NEW k \in 0..n - 1, k \in T PROVE k + 1 \in T
  <2>1. k + 1 \in 1..n /\ k + 1 \in 0..n /\ k + 1 # 0 /\ (k + 1) - 1 = k /\ k + 1 \in Nat
    BY <1>1
  <2>2. MovedUpTo(g, from, to, (k + 1) - 1, f[k])
    BY <1>6, <2>1
  <2>3. MovedUpTo(g, from, to, k + 1, MovingStep(from, to, k + 1, f[k]))
    BY <2>1, <2>2, MovingOn DEF n
  <2>4. f[k + 1] = MovingStep(from, to, k + 1, f[k])
    BY <1>4, <2>1
  <2>5. QED
    BY <2>1, <2>3, <2>4
<1> HIDE DEF T
<1>7. \A k \in 0..n : k \in T
  BY <1>1, <1>5, <1>6, CountUp, 0 \in Nat
<1>8. n \in T
  BY <1>1, <1>7
<1>9. Reached(from, to, n) = to
  BY RackOnce DEF Reached, Moves, n
<1>10. QED
  BY <1>3, <1>8, <1>9 DEF T, MovedUpTo

(* "Remove" in the dialog: each listed plugin in a transaction of its own. *)
Leftover(g) == Reverse(Rack(g))
RemovalStep(g, refused, k, x) ==
  IF /\ Leftover(g)[k] \in refused \cap Users
     /\ Fits(Updated(Removed(x, Leftover(g)[k])))
  THEN Updated(Removed(x, Leftover(g)[k])) ELSE x
Removing(f, g, refused) ==
  f = [k \in 0..Len(Leftover(g)) |-> IF k = 0 THEN g ELSE RemovalStep(g, refused, k, f[k - 1])]
RemovedUpTo(g, k, h) ==
  /\ Routed(h) /\ (Linear(g) => Linear(h))
  /\ \A j \in k + 1..Len(Leftover(g)) : Leftover(g)[j] \in DOMAIN h.nodes
  /\ Thinned(Rack(g), Rack(h))

LEMMA LeftoverIs ==
  ASSUME NEW g, Sound(g)
  PROVE  /\ Len(Leftover(g)) \in Nat
         /\ \A k \in 1..Len(Leftover(g)) : Linear(g) /\ Leftover(g)[k] \in DOMAIN g.nodes
         /\ \A j, k \in 1..Len(Leftover(g)) : Leftover(g)[j] = Leftover(g)[k] => j = k
<1> DEFINE r == Rack(g)
           n == Len(r)
           t == Leftover(g)
<1>1. r \in Seq(DOMAIN g.nodes) /\ n \in Nat /\ (~Linear(g) => n = 0)
  BY RackOnce DEF Rack
<1>2. \A k \in 1..n : r[k] \in DOMAIN g.nodes
  BY RackOnce
<1>3. \A j, k \in 1..n : r[j] = r[k] => j = k
  BY RackOnce
<1> HIDE DEF n
<1>4. t = [k \in 1..n |-> r[(n - k) + 1]]
  BY DEF Leftover, Reverse, n
<1> HIDE DEF r, t
<1>5. Len(t) = n
  BY <1>1, <1>4
<1>6. ASSUME NEW k \in 1..n PROVE (n - k) + 1 \in 1..n /\ t[k] = r[(n - k) + 1]
  BY <1>1, <1>4
<1>7. \A j, k \in 1..n : t[j] = t[k] => j = k
  <2>1. ASSUME NEW j \in 1..n, NEW k \in 1..n, t[j] = t[k] PROVE j = k
    <3>1. (n - j) + 1 = (n - k) + 1
      BY <1>3, <1>6, <2>1
    <3>2. QED
      BY <1>1, <3>1
  <2>2. QED
    BY <2>1
<1>8. \A k \in 1..n : Linear(g) /\ t[k] \in DOMAIN g.nodes
  BY <1>1, <1>2, <1>6
<1>9. QED
  BY <1>1, <1>5, <1>7, <1>8 DEF t

LEMMA RemovingOn ==
  ASSUME NEW g, Sound(g), NEW refused, NEW k \in 1..Len(Leftover(g)), NEW x, RemovedUpTo(g, k - 1, x)
  PROVE  RemovedUpTo(g, k, RemovalStep(g, refused, k, x))
<1> DEFINE n == Len(Leftover(g))
           id == Leftover(g)[k]
           h == Removed(x, id)
<1>1. n \in Nat /\ Linear(g) /\ \A i, j \in 1..n : Leftover(g)[i] = Leftover(g)[j] => i = j
  BY LeftoverIs
<1> HIDE DEF n
<1>2. Routed(x) /\ Sound(x) /\ Linear(x) /\ \A j \in (k - 1) + 1..n : Leftover(g)[j] \in DOMAIN x.nodes
  BY <1>1 DEF RemovedUpTo, Routed, n
<1>3. k \in 1..n /\ k \in (k - 1) + 1..n
  BY <1>1 DEF n
<1>4. id \in DOMAIN x.nodes
  BY <1>2, <1>3
<1>5. ASSUME NEW j \in k + 1..n PROVE Leftover(g)[j] \in DOMAIN x.nodes /\ Leftover(g)[j] # id
  <2>1. j \in (k - 1) + 1..n /\ j \in 1..n /\ j # k
    BY <1>1, <1>3
  <2>2. QED
    BY <1>1, <1>2, <1>3, <2>1
<1>6. Sound(h) /\ Linear(h) /\ DOMAIN h.nodes = DOMAIN x.nodes \ {id}
  BY <1>2, <1>4, RemovedLinear
<1> HIDE DEF id
<1>7. RemovalStep(g, refused, k, x) = IF id \in refused \cap Users /\ Fits(Updated(h)) THEN Updated(h) ELSE x
  BY DEF RemovalStep, id
<1> HIDE DEF h
<1>8. CASE id \in refused \cap Users /\ Fits(Updated(h))
  <2>1. Routed(Updated(h)) /\ DOMAIN Updated(h).nodes = DOMAIN h.nodes
    BY <1>6, UpdatedLinear
  <2>2. Linear(Updated(h))
    BY <1>8 DEF Fits
  <2>3. Thinned(Rack(x), Rack(h))
    BY <1>2, <1>4, <1>8, RemovedThins DEF h
  <2>4. Thinned(Rack(g), Rack(x)) /\ Rack(Updated(h)) = Rack(h)
    BY <1>6, UpdatedSound DEF RemovedUpTo
  <2>5. Thinned(Rack(g), Rack(Updated(h)))
    BY <2>3, <2>4, ThinnedOn
  <2>6. QED
    BY <1>5, <1>6, <1>7, <1>8, <2>1, <2>2, <2>5 DEF RemovedUpTo, n
<1>9. CASE ~(id \in refused \cap Users /\ Fits(Updated(h)))
  <2>1. RemovalStep(g, refused, k, x) = x
    BY <1>7, <1>9, Zenon
  <2>2. Thinned(Rack(g), Rack(x))
    BY DEF RemovedUpTo
  <2>3. QED
    BY <1>2, <1>5, <2>1, <2>2 DEF RemovedUpTo, n
<1>10. QED
  BY <1>8, <1>9

LEMMA RemovingExists ==
  ASSUME NEW g, Routed(g), NEW refused
  PROVE  \E f : Removing(f, g, refused)
<1> DEFINE n == Len(Leftover(g))
           F == [w \in Nat \X AllGraphs |-> RemovalStep(g, refused, w[1], w[2])]
           R == {w \in Nat \X AllGraphs : RemovedUpTo(g, w[1], w[2])}
<1>0. Sound(g)
  BY DEF Routed
<1>1. n \in Nat /\ \A k \in 1..n : Leftover(g)[k] \in DOMAIN g.nodes
  BY <1>0, LeftoverIs
<1> HIDE DEF n
<1>2. \A k \in Nat, x \in AllGraphs : F[<<k, x>>] = RemovalStep(g, refused, k, x)
  <2>1. ASSUME NEW k \in Nat, NEW x \in AllGraphs PROVE F[<<k, x>>] = RemovalStep(g, refused, k, x)
    <3>1. F[<<k, x>>] = RemovalStep(g, refused, <<k, x>>[1], <<k, x>>[2])
      BY <<k, x>> \in Nat \X AllGraphs
    <3>2. QED
      BY <3>1
  <2>2. QED
    BY <2>1
<1>3. \A k \in Nat, x \in AllGraphs : <<k, x>> \in R <=> RemovedUpTo(g, k, x)
  <2>1. ASSUME NEW k \in Nat, NEW x \in AllGraphs PROVE <<k, x>> \in R <=> RemovedUpTo(g, k, x)
    <3>1. <<k, x>> \in R <=> RemovedUpTo(g, <<k, x>>[1], <<k, x>>[2])
      BY <<k, x>> \in Nat \X AllGraphs
    <3>2. QED
      BY <3>1
  <2>2. QED
    BY <2>1
<1>4. R \in SUBSET (Nat \X AllGraphs)
  OBVIOUS
<1> HIDE DEF F, R
<1>5. g \in AllGraphs /\ 0 \in Nat /\ <<0, g>> \in R
  <2>1. RemovedUpTo(g, 0, g)
    BY <1>0, <1>1, RackOnce, ThinnedSame DEF RemovedUpTo, n
  <2>2. QED
    BY <1>0, <1>3, <2>1, SoundGraph
<1>6. ASSUME NEW k \in 0 + 1..n, NEW x \in AllGraphs, <<k - 1, x>> \in R PROVE <<k, F[<<k, x>>]>> \in R
  <2>1. k \in Nat /\ k - 1 \in Nat /\ k \in 1..n
    OBVIOUS
  <2>2. RemovedUpTo(g, k - 1, x)
    BY <1>3, <1>6, <2>1
  <2>3. RemovedUpTo(g, k, RemovalStep(g, refused, k, x))
    BY <2>1, <1>0, <2>2, RemovingOn DEF n
  <2>4. RemovalStep(g, refused, k, x) \in AllGraphs
    BY <2>3, SoundGraph DEF RemovedUpTo, Routed
  <2>5. QED
    BY <1>2, <1>3, <2>1, <2>3, <2>4
<1>7. PICK f : Recursion(f, 0, n, AllGraphs, g, F)
  BY <1>1, <1>4, <1>5, <1>6, Iterated
<1>8. f \in [0..n -> AllGraphs] /\ \A k \in 0..n : f[k] = IF k = 0 THEN g ELSE F[<<k, f[k - 1]>>]
  BY <1>7 DEF Recursion
<1>9. \A k \in 0..n : f[k] = IF k = 0 THEN g ELSE RemovalStep(g, refused, k, f[k - 1])
  <2>1. ASSUME NEW k \in 0..n PROVE f[k] = IF k = 0 THEN g ELSE RemovalStep(g, refused, k, f[k - 1])
    <3>1. CASE k = 0
      BY <1>8, <3>1
    <3>2. CASE k # 0
      <4>1. k \in Nat /\ k - 1 \in 0..n
        BY <1>1, <3>2
      <4>2. f[k - 1] \in AllGraphs
        BY <1>8, <4>1
      <4>3. QED
        BY <1>2, <1>8, <3>2, <4>1, <4>2
    <3>3. QED
      BY <3>1, <3>2
  <2>2. QED
    BY <2>1
<1>10. f = [k \in 0..n |-> IF k = 0 THEN g ELSE RemovalStep(g, refused, k, f[k - 1])]
  BY <1>8, <1>9
<1>11. QED
  BY <1>10 DEF Removing, n

LEMMA RemoveListedRouted ==
  ASSUME NEW g, Routed(g), NEW refused
  PROVE  refused = dialog.refused => Routed(RemoveListed(g)) /\ Thinned(Rack(g), Rack(RemoveListed(g)))
<1> DEFINE n == Len(Leftover(g))
           f == CHOOSE f : Removing(f, g, refused)
           T == {k \in Nat : RemovedUpTo(g, k, f[k])}
<1>0. Sound(g)
  BY DEF Routed
<1>1. n \in Nat /\ \A k \in 1..n : Leftover(g)[k] \in DOMAIN g.nodes
  BY <1>0, LeftoverIs
<1>2. Removing(f, g, refused)
  BY RemovingExists
<1>3. refused = dialog.refused => RemoveListed(g) = f[n]
  BY DEF RemoveListed, Removing, RemovalStep, Leftover
<1> HIDE DEF f, n
<1>4. \A k \in 0..n : f[k] = IF k = 0 THEN g ELSE RemovalStep(g, refused, k, f[k - 1])
  BY <1>2, Zenon DEF Removing, n
<1>5. 0 \in T
  <2>1. f[0] = g
    BY <1>1, <1>4
  <2>2. RemovedUpTo(g, 0, f[0])
    BY <1>0, <1>1, <2>1, RackOnce, ThinnedSame DEF RemovedUpTo, n
  <2>3. QED
    BY <2>2
<1>6. ASSUME NEW k \in 0..n - 1, k \in T PROVE k + 1 \in T
  <2>1. k + 1 \in 1..n /\ k + 1 \in 0..n /\ k + 1 # 0 /\ (k + 1) - 1 = k /\ k + 1 \in Nat
    BY <1>1
  <2>2. RemovedUpTo(g, (k + 1) - 1, f[k])
    BY <1>6, <2>1
  <2>3. RemovedUpTo(g, k + 1, RemovalStep(g, refused, k + 1, f[k]))
    BY <2>1, <1>0, <2>2, RemovingOn DEF n
  <2>4. f[k + 1] = RemovalStep(g, refused, k + 1, f[k])
    BY <1>4, <2>1
  <2>5. QED
    BY <2>1, <2>3, <2>4
<1> HIDE DEF T
<1>7. \A k \in 0..n : k \in T
  BY <1>1, <1>5, <1>6, CountUp, 0 \in Nat
<1>8. n \in T
  BY <1>1, <1>7
<1>9. QED
  BY <1>3, <1>8 DEF T, RemovedUpTo

-----------------------------------------------------------------------------
(* The rack the program starts with. *)
DefaultChain == <<"Input", "InputMonitor", "ReplayGain", "Matrix", "OutputMonitor", "Output">>
DefaultWires == UNION {Straight(DefaultChain[k], DefaultChain[k + 1], 2) : k \in 1..5}

LEMMA DefaultNodes ==
  /\ DefaultRack \in GraphsOn(Permanent) /\ DOMAIN DefaultRack.nodes = Permanent
  /\ DefaultRack.inputs = 2 /\ DefaultRack.outputs = 2 /\ DefaultRack.wires = DefaultWires
  /\ \A id \in Permanent : DefaultRack.nodes[id].ins = 2 /\ DefaultRack.nodes[id].outs = 2
  /\ DefaultRack.nodes["ReplayGain"].kind = "pass"
<1> DEFINE kind(id) == IF id = "Matrix" THEN "matrix" ELSE "pass"
           node(id) == IF id = "Matrix" THEN Fresh("matrix") ELSE Fresh("pass")
           N == [id \in Permanent |-> [node(id) EXCEPT !.on = id # "ReplayGain"]]
           g == DefaultRack
<1>1. Len(DefaultChain) - 1 = 5
  BY DEF DefaultChain
<1>2. g = [nodes |-> N, inputs |-> 2, outputs |-> 2,
           wires |-> UNION {Straight(DefaultChain[k], DefaultChain[k + 1], 2) : k \in 1..Len(DefaultChain) - 1}]
  BY DEF DefaultRack, DefaultChain
<1>3. g.nodes = N /\ g.inputs = 2 /\ g.outputs = 2 /\ g.wires = DefaultWires
      /\ g = [nodes |-> g.nodes, inputs |-> g.inputs, outputs |-> g.outputs, wires |-> g.wires]
  BY <1>1, <1>2 DEF DefaultWires
<1>4. ASSUME NEW id PROVE /\ node(id) \in Node /\ node(id).ins = 2 /\ node(id).outs = 2
                          /\ id # "Matrix" => node(id).kind = "pass"
  <2>1. "matrix" \in Kinds /\ "pass" \in Kinds
    BY DEF Kinds
  <2>2. Fresh("matrix") \in Node /\ Fresh("pass") \in Node
    BY <2>1, FreshNode
  <2>3. Fresh("matrix").ins = 2 /\ Fresh("matrix").outs = 2 /\ Fresh("pass").ins = 2 /\ Fresh("pass").outs = 2
    BY DEF Fresh
  <2>4. Fresh("pass").kind = "pass"
    BY DEF Fresh
  <2>5. QED
    BY <2>2, <2>3, <2>4
<1> HIDE DEF node
<1>5. ASSUME NEW id \in Permanent
      PROVE  /\ N[id] \in Node /\ N[id].ins = 2 /\ N[id].outs = 2 /\ (id # "Matrix" => N[id].kind = "pass")
  <2> DEFINE b == id # "ReplayGain"
  <2>1. N[id] = [node(id) EXCEPT !.on = b]
    OBVIOUS
  <2>2. b \in BOOLEAN
    OBVIOUS
  <2> DEFINE old == node(id)
             new == [old EXCEPT !.on = b]
  <2> HIDE DEF b
  <2>3. old \in Node /\ old.ins = 2 /\ old.outs = 2 /\ (id # "Matrix" => old.kind = "pass")
    BY <1>4
  <2> HIDE DEF old
  <2>4. new \in Node /\ new.kind = old.kind /\ new.ins = old.ins /\ new.outs = old.outs
    BY <2>2, <2>3, Switching
  <2> HIDE DEF new
  <2>5. N[id] = new
    BY <2>1 DEF new, old
  <2> HIDE DEF N
  <2>6. QED
    BY <2>3, <2>4, <2>5
<1>6. N \in [Permanent -> Node] /\ DOMAIN N = Permanent
  BY <1>5
<1> HIDE DEF N
<1>7. DefaultWires \subseteq Wire
  <2>1. ASSUME NEW k \in 1..5 PROVE Straight(DefaultChain[k], DefaultChain[k + 1], 2) \subseteq Wire
    <3>1. DefaultChain[k] \in Plugins \cup Special /\ DefaultChain[k + 1] \in Plugins \cup Special
      BY DEF DefaultChain, Plugins, Permanent, Special
    <3>2. QED
      BY <3>1, Straights
  <2>2. QED
    BY <2>1 DEF DefaultWires
<1>8. g \in GraphsOn(Permanent)
  BY <1>3, <1>6, <1>7 DEF GraphsOn
<1>9. "ReplayGain" \in Permanent /\ "ReplayGain" # "Matrix"
  BY DEF Permanent
<1>10. QED
  BY <1>3, <1>5, <1>6, <1>8, <1>9

LEMMA DefaultWired ==
  /\ \A w \in DefaultWires : \E k \in 1..5, p \in 0..1 : w = <<DefaultChain[k], p, DefaultChain[k + 1], p>>
  /\ \A k \in 1..5, p \in 0..1 : <<DefaultChain[k], p, DefaultChain[k + 1], p>> \in DefaultWires
<1>1. 0..2 - 1 = 0..1
  OBVIOUS
<1>2. QED
  BY <1>1 DEF DefaultWires, Straight

LEMMA DefaultRouted == Routed(DefaultRack) /\ Linear(DefaultRack) /\ Path(DefaultRack, DefaultChain)
<1> DEFINE g == DefaultRack
           s == DefaultChain
<1>1. /\ g \in GraphsOn(Permanent) /\ DOMAIN g.nodes = Permanent
      /\ g.inputs = 2 /\ g.outputs = 2 /\ g.wires = DefaultWires
      /\ \A id \in Permanent : g.nodes[id].ins = 2 /\ g.nodes[id].outs = 2
      /\ g.nodes["ReplayGain"].kind = "pass"
  BY DefaultNodes
<1> HIDE DEF g
<1>2. Ids(g) = {"Input", "InputMonitor", "ReplayGain", "Matrix", "OutputMonitor", "Output"}
  BY <1>1 DEF Ids, Permanent, Special
<1>3. /\ s[1] = "Input" /\ s[2] = "InputMonitor" /\ s[3] = "ReplayGain" /\ s[4] = "Matrix"
      /\ s[5] = "OutputMonitor" /\ s[6] = "Output" /\ Len(s) = 6
  BY DEF DefaultChain
<1>4. s \in Seq(Ids(g))
  BY <1>2 DEF DefaultChain
<1> HIDE DEF s
<1>5. 1..6 = {1, 2, 3, 4, 5, 6} /\ 1..5 = {1, 2, 3, 4, 5}
  OBVIOUS
<1>6. \A k \in 1..5 : s[k] \in Ids(g) /\ s[k + 1] \in Ids(g) /\ s[k] # "Output" /\ s[k + 1] # "Input"
  <2>1. \A k \in {1, 2, 3, 4, 5} : s[k] \in Ids(g) /\ s[k + 1] \in Ids(g) /\ s[k] # "Output" /\ s[k + 1] # "Input"
    BY <1>2, <1>3
  <2>2. QED
    BY <1>5, <2>1
<1>7. /\ \A w \in g.wires : \E k \in 1..5, p \in 0..1 : w = <<s[k], p, s[k + 1], p>>
      /\ \A k \in 1..5, p \in 0..1 : <<s[k], p, s[k + 1], p>> \in g.wires
  BY <1>1, DefaultWired DEF s
<1>8. \A w \in g.wires : w[1] \in Ids(g) /\ w[3] \in Ids(g) /\ w[1] # "Output" /\ w[3] # "Input"
                         /\ w[2] < 2 /\ w[4] < 2
  <2>1. ASSUME NEW w \in g.wires PROVE w[1] \in Ids(g) /\ w[3] \in Ids(g) /\ w[1] # "Output" /\ w[3] # "Input"
                                       /\ w[2] < 2 /\ w[4] < 2
    <3>1. PICK k \in 1..5, p \in 0..1 : w = <<s[k], p, s[k + 1], p>>
      BY <1>7
    <3>2. w[1] = s[k] /\ w[2] = p /\ w[3] = s[k + 1] /\ w[4] = p
      BY <3>1
    <3>3. QED
      BY <1>6, <3>2
  <2>2. QED
    BY <2>1
<1>9. Graph(g)
  <2>1. Permanent \subseteq Plugins
    BY DEF Plugins
  <2>2. QED
    BY <1>1, <1>8, <2>1 DEF Graph
<1>10. Sound(g)
  BY <1>1, <1>8, <1>9 DEF Sound, Steady
<1>11. ASSUME NEW x, NEW y PROVE <<x, y>> \in Links(g) <=> \E k \in 1..Len(s) - 1 : x = s[k] /\ y = s[k + 1]
  <2>1. Len(s) - 1 = 5
    BY <1>3
  <2>2. CASE <<x, y>> \in Links(g)
    <3>1. PICK w \in g.wires : <<x, y>> = <<w[1], w[3]>>
      BY <2>2 DEF Links
    <3>2. PICK k \in 1..5, p \in 0..1 : w = <<s[k], p, s[k + 1], p>>
      BY <1>7
    <3>3. w[1] = s[k] /\ w[3] = s[k + 1]
      BY <3>2
    <3>4. QED
      BY <2>1, <2>2, <3>1, <3>3
  <2>3. ASSUME NEW k \in 1..5, x = s[k], y = s[k + 1] PROVE <<x, y>> \in Links(g)
    <3> DEFINE w == <<s[k], 0, s[k + 1], 0>>
    <3>1. w \in g.wires
      BY <1>7, 0 \in 0..1
    <3>2. w[1] = x /\ w[3] = y
      BY <2>3
    <3> HIDE DEF w
    <3>3. QED
      BY <3>1, <3>2 DEF Links
  <2>4. QED
    BY <2>1, <2>2, <2>3
<1>12. Visits(g, s)
  <2>1. \A j, k \in 1..Len(s) : s[j] = s[k] => j = k
    <3>1. \A j, k \in {1, 2, 3, 4, 5, 6} : s[j] = s[k] => j = k
      BY <1>3
    <3>2. QED
      BY <1>3, <1>5, <3>1
  <2>2. \A id \in Ids(g) : \E k \in 1..Len(s) : s[k] = id
    <3>1. \A id \in Ids(g) : \E k \in {1, 2, 3, 4, 5, 6} : s[k] = id
      BY <1>2, <1>3
    <3>2. QED
      BY <1>3, <1>5, <3>1
  <2>3. Len(s) >= 2 /\ s[1] = "Input" /\ s[Len(s)] = "Output"
    BY <1>3
  <2>4. \A x, y : <<x, y>> \in Links(g) <=> \E k \in 1..Len(s) - 1 : x = s[k] /\ y = s[k + 1]
    BY <1>11
  <2>5. QED
    BY <1>4, <2>1, <2>2, <2>3, <2>4 DEF Visits
<1>13. Path(g, s)
  BY <1>9, <1>12, PathBy
<1>14. Linear(g) /\ ~Cyclic(g)
  BY <1>9, <1>13, PathLinear, PathAcyclic
<1>15. \A id \in Ids(g) : /\ id # "Input" => Ins(g, id) = 2
                          /\ id # "Output" => Outs(g, id) = 2
  BY <1>1, <1>2, <1>9, Ports, IdsFacts
<1>16. ASSUME NEW id \in Ids(g) PROVE 0..Ins(g, id) - 1 \subseteq Fed(g, id)
  <2>1. CASE id = "Input"
    BY <1>9, <2>1, Ports
  <2>2. CASE id # "Input"
    <3>1. PICK k \in 1..5 : s[k + 1] = id
      <4>1. \E k \in {1, 2, 3, 4, 5} : s[k + 1] = id
        BY <1>2, <1>3, <2>2
      <4>2. QED
        BY <1>5, <4>1
    <3>2. ASSUME NEW p \in 0..1 PROVE p \in Fed(g, id)
      <4> DEFINE w == <<s[k], p, s[k + 1], p>>
      <4>1. w \in g.wires
        BY <1>7
      <4>2. w[3] = id /\ w[4] = p
        BY <3>1
      <4> HIDE DEF w
      <4>3. QED
        BY <4>1, <4>2 DEF Fed
    <3>3. Ins(g, id) - 1 = 1
      BY <1>15, <2>2
    <3>4. QED
      BY <3>2, <3>3
  <2>3. QED
    BY <2>1, <2>2
<1>17. \A w \in g.wires : {w[1], w[3]} \subseteq Ids(g) /\ w[2] < Outs(g, w[1]) /\ w[4] < Ins(g, w[3])
  BY <1>8, <1>15
<1>18. ValidRouting(g)
  BY <1>1, <1>14, <1>16, <1>17 DEF ValidRouting
<1>19. QED
  BY <1>10, <1>13, <1>14, <1>18 DEF Routed, g, s

-----------------------------------------------------------------------------
(* The invariant: the live graph is sound and routed, the rack screen shows *)
(* it, and the draft is at least sound.                                     *)
RackInv ==
  /\ bench \in Benches
  /\ Routed(live) /\ rack = Rack(live)
  /\ draft = NoGraph \/ Sound(draft)
  /\ base = NoGraph <=> draft = NoGraph
  /\ edits \in 0..bench.edits
  /\ track \in Tracks
  /\ dialog = Idle \/ dialog \in Conflict
  /\ engine = Idle \/ engine \in Played
  /\ pending \in BOOLEAN

LEMMA RealGraph ==
  ASSUME NEW g, Sound(g)
  PROVE  g # NoGraph
BY PluginRackAssumption DEF Sound, Graph

LEMMA BenchTyped ==
  ASSUME bench \in Benches
  PROVE  bench.kinds \subseteq Kinds /\ bench.edits \in Nat
BY PluginRackAssumption

LEMMA RackInvImplies ==
  RackInv => TypeOK /\ LiveRoutable
<1> SUFFICES ASSUME RackInv PROVE TypeOK /\ LiveRoutable
  OBVIOUS
<1>1. Routed(live) /\ rack = Rack(live) /\ (draft = NoGraph \/ Sound(draft))
  BY DEF RackInv
<1>2. Sound(live) /\ ValidRouting(live)
  BY <1>1 DEF Routed
<1>3. rack \in Seq(Plugins)
  BY <1>1, <1>2, RackTyped
<1>4. Graph(live) /\ (draft = NoGraph \/ Graph(draft))
  BY <1>1, <1>2 DEF Sound
<1>5. QED
  BY <1>2, <1>3, <1>4 DEF RackInv, TypeOK, LiveRoutable

LEMMA RackInit == Init => RackInv
<1> SUFFICES ASSUME Init PROVE RackInv
  OBVIOUS
<1>1. live = DefaultRack /\ rack = Rack(live)
  BY DEF Init
<1>2. Routed(live)
  BY <1>1, DefaultRouted
<1>3. edits \in 0..bench.edits
  BY BenchTyped DEF Init
<1>4. QED
  BY <1>1, <1>2, <1>3 DEF Init, RackInv

LEMMA EditCounted ==
  ASSUME RackInv, CountsEdit, bench' = bench
  PROVE  edits' \in 0..bench'.edits
<1>1. bench.edits \in Nat /\ edits \in 0..bench.edits
  BY BenchTyped DEF RackInv
<1>2. CASE draft = NoGraph
  BY <1>1, <1>2 DEF CountsEdit
<1>3. CASE draft # NoGraph
  BY <1>1, <1>3 DEF CountsEdit
<1>4. QED
  BY <1>2, <1>3

(* apply_linear_transaction keeps a chain and nothing else. *)
LEMMA EditKeeps ==
  ASSUME RackInv, NEW g, Sound(g), EditRack(g)
  PROVE  RackInv'
<1> DEFINE h == Updated(g)
<1>1. /\ Fits(h) /\ live' = h /\ rack' = Rack(live') /\ pending' = TRUE /\ CountsEdit
      /\ bench' = bench /\ draft' = draft /\ base' = base /\ track' = track /\ dialog' = dialog /\ engine' = engine
  BY DEF EditRack, Shown
<1>2. Linear(h)
  BY <1>1 DEF Fits
<1>3. Routed(h)
  BY <1>2, UpdatedSound
<1> HIDE DEF h
<1>4. edits' \in 0..bench'.edits
  BY <1>1, EditCounted
<1>5. Routed(live')
  BY <1>1, <1>3
<1>6. draft' = NoGraph \/ Sound(draft')
  BY <1>1 DEF RackInv
<1>8. QED
  BY <1>1, <1>4, <1>5, <1>6 DEF RackInv

-----------------------------------------------------------------------------
(* The steps. *)
LEMMA AddPluginKeeps == RackInv /\ AddPlugin => RackInv'
<1> SUFFICES ASSUME RackInv, AddPlugin PROVE RackInv'
  OBVIOUS
<1>1. Sound(live) /\ bench \in Benches
  BY DEF RackInv, Routed
<1>2. PICK id \in Users \ DOMAIN live.nodes, kind \in bench.kinds :
        /\ Linear(live)
        /\ LET to == IF "Matrix" \in DOMAIN live.nodes THEN "Matrix" ELSE "Output"
           IN EditRack(Inserted(live, id, kind, Before(live, to), to))
  BY DEF AddPlugin
<1> DEFINE to == IF "Matrix" \in DOMAIN live.nodes THEN "Matrix" ELSE "Output"
           g == Inserted(live, id, kind, Before(live, to), to)
<1>3. EditRack(g)
  BY <1>2
<1>4. kind \in Kinds
  BY <1>1, <1>2, BenchTyped
<1>5. to \in Ids(live) /\ to # "Input"
  BY <1>1, IdsFacts DEF Sound, Ids
<1> HIDE DEF to
<1>6. Sound(g)
  BY <1>1, <1>2, <1>4, <1>5, InsertedSound
<1> HIDE DEF g
<1>7. QED
  BY <1>3, <1>6, EditKeeps

LEMMA RemovePluginKeeps == RackInv /\ RemovePlugin => RackInv'
<1> SUFFICES ASSUME RackInv, RemovePlugin PROVE RackInv'
  OBVIOUS
<1>1. PICK id \in Users \cap DOMAIN live.nodes : Linear(live) /\ EditRack(Removed(live, id))
  BY DEF RemovePlugin
<1>2. Sound(live)
  BY DEF RackInv, Routed
<1>3. Sound(Removed(live, id))
  BY <1>1, <1>2, RemovedLinear
<1>4. QED
  BY <1>1, <1>3, EditKeeps

LEMMA MovePluginKeeps == RackInv /\ MovePlugin => RackInv'
<1> SUFFICES ASSUME RackInv, MovePlugin PROVE RackInv'
  OBVIOUS
<1>1. PICK from \in DOMAIN rack, to \in DOMAIN rack : EditRack(Moved(live, from, to))
  BY DEF MovePlugin
<1>2. Sound(live) /\ rack = Rack(live)
  BY DEF RackInv, Routed
<1>3. from \in 1..Len(Rack(live)) /\ to \in 1..Len(Rack(live))
  BY <1>2, RackOnce
<1>4. Linear(live)
  <2>1. ~Linear(live) => Rack(live) = << >>
    BY DEF Rack
  <2>2. QED
    BY <1>3, <2>1
<1>5. Sound(Moved(live, from, to))
  BY <1>2, <1>3, <1>4, MovedSound
<1>6. QED
  BY <1>1, <1>5, EditKeeps

LEMMA TogglePluginKeeps == RackInv /\ TogglePlugin => RackInv'
<1> SUFFICES ASSUME RackInv, TogglePlugin PROVE RackInv'
  OBVIOUS
<1>1. PICK id \in bench.switched \cap DOMAIN live.nodes : EditRack(Toggled(live, id))
  BY DEF TogglePlugin
<1>2. Sound(live)
  BY DEF RackInv, Routed
<1>3. Sound(Toggled(live, id))
  BY <1>1, <1>2, ToggledSound
<1>4. QED
  BY <1>1, <1>3, EditKeeps

LEMMA ClearPluginsKeeps == RackInv /\ ClearPlugins => RackInv'
<1> SUFFICES ASSUME RackInv, ClearPlugins PROVE RackInv'
  OBVIOUS
<1>1. Linear(live) /\ EditRack(Emptied(live))
  BY DEF ClearPlugins
<1>2. Sound(live)
  BY DEF RackInv, Routed
<1>3. Sound(Emptied(live))
  BY <1>1, <1>2, EmptiedSound
<1>4. QED
  BY <1>1, <1>3, EditKeeps

LEMMA OpenDraftKeeps == RackInv /\ OpenDraft => RackInv'
<1> SUFFICES ASSUME RackInv, OpenDraft PROVE RackInv'
  OBVIOUS
<1>1. Sound(live)
  BY DEF RackInv, Routed
<1>2. draft' = live /\ base' = live /\ edits' = 0 /\ bench' = bench /\ live' = live /\ rack' = rack
      /\ track' = track /\ dialog' = dialog /\ engine' = engine /\ pending' = pending
  BY DEF OpenDraft
<1>3. Sound(draft') /\ (base' = NoGraph <=> draft' = NoGraph)
  BY <1>1, <1>2
<1>4. edits' \in 0..bench'.edits
  BY <1>2, BenchTyped DEF RackInv
<1>5. QED
  BY <1>2, <1>3, <1>4 DEF RackInv

(* An edit of the draft leaves the live graph alone. *)
LEMMA DraftKeeps ==
  ASSUME RackInv, NEW g, Sound(g), EditDraft(g)
  PROVE  RackInv'
<1>1. /\ draft # NoGraph /\ draft' \in {g, Updated(g)} /\ CountsEdit
      /\ bench' = bench /\ live' = live /\ rack' = rack /\ base' = base
      /\ track' = track /\ dialog' = dialog /\ engine' = engine /\ pending' = pending
  BY DEF EditDraft
<1>2. Sound(draft')
  BY <1>1, UpdatedSound
<1>3. draft' # NoGraph
  BY <1>2, RealGraph
<1>4. edits' \in 0..bench'.edits
  BY <1>1, EditCounted
<1>5. QED
  BY <1>1, <1>2, <1>3, <1>4 DEF RackInv

LEMMA DraftStepKeeps == RackInv /\ DraftStep => RackInv'
<1> SUFFICES ASSUME RackInv, DraftStep PROVE RackInv'
  OBVIOUS
<1>1. draft # NoGraph /\ Sound(draft) /\ bench \in Benches
  BY DEF RackInv, DraftStep
<1>2. CASE Connect
  <2>1. PICK wire \in Editable : Drawable(draft, wire) /\ EditDraft(Connected(draft, wire))
    BY <1>2 DEF Connect
  <2>2. wire \in Wire
    BY PluginRackAssumption
  <2>3. Sound(Connected(draft, wire))
    BY <1>1, <2>1, <2>2, ConnectedSound
  <2>4. QED
    BY <2>1, <2>3, DraftKeeps
<1>3. CASE Disconnect
  <2>1. PICK wire \in Editable \cap draft.wires : EditDraft([draft EXCEPT !.wires = @ \ {wire}])
    BY <1>3 DEF Disconnect
  <2>2. Sound([draft EXCEPT !.wires = @ \ {wire}])
    BY <1>1, DisconnectedSound
  <2>3. QED
    BY <2>1, <2>2, DraftKeeps
<1>4. CASE DropNode
  <2>1. PICK id \in Erasable \cap DOMAIN draft.nodes : EditDraft(Without(draft, {id}))
    BY <1>4 DEF DropNode
  <2>2. id # "Input" /\ id # "Output"
    BY <1>1, IdsFacts DEF Sound
  <2>3. Sound(Without(draft, {id}))
    BY <1>1, <2>2, WithoutSound
  <2>4. QED
    BY <2>1, <2>3, DraftKeeps
<1>5. CASE PlaceNode
  <2>1. PICK id \in Users \ (DOMAIN draft.nodes \cup DOMAIN live.nodes), kind \in bench.kinds :
          EditDraft(Placed(draft, id, kind))
    BY <1>5 DEF PlaceNode
  <2>2. kind \in Kinds
    BY <1>1, BenchTyped
  <2>3. Sound(Placed(draft, id, kind))
    BY <1>1, <2>2, PlacedSound
  <2>4. QED
    BY <2>1, <2>3, DraftKeeps
<1>6. CASE ToggleNode
  <2>1. PICK id \in bench.switched \cap DOMAIN draft.nodes :
          EditDraft(Updated(Toggled(draft, id))) \/ EditDraft(Toggled(draft, id))
    BY <1>6 DEF ToggleNode
  <2>2. Sound(Toggled(draft, id))
    BY <1>1, ToggledSound
  <2>3. Sound(Updated(Toggled(draft, id)))
    BY <2>2, UpdatedSound
  <2>4. QED
    BY <2>1, <2>2, <2>3, DraftKeeps
<1>7. QED
  BY <1>2, <1>3, <1>4, <1>5, <1>6 DEF DraftStep

LEMMA ApplyDraftKeeps == RackInv /\ ApplyDraft => RackInv'
<1> SUFFICES ASSUME RackInv, ApplyDraft PROVE RackInv'
  OBVIOUS
<1>1. /\ draft # NoGraph /\ ValidRouting(draft) /\ live' = draft /\ rack' = Rack(live') /\ pending' = TRUE
      /\ draft' = NoGraph /\ base' = NoGraph /\ edits' = 0
      /\ bench' = bench /\ track' = track /\ dialog' = dialog /\ engine' = engine
  BY DEF ApplyDraft, Shown, Closed
<1>2. Sound(draft)
  BY <1>1 DEF RackInv
<1>3. Routed(live')
  BY <1>1, <1>2 DEF Routed
<1>4. edits' \in 0..bench'.edits
  BY <1>1, BenchTyped DEF RackInv
<1>5. QED
  BY <1>1, <1>3, <1>4 DEF RackInv

LEMMA DiscardDraftKeeps == RackInv /\ DiscardDraft => RackInv'
<1> SUFFICES ASSUME RackInv, DiscardDraft PROVE RackInv'
  OBVIOUS
<1>1. /\ draft' = NoGraph /\ base' = NoGraph /\ edits' = 0
      /\ bench' = bench /\ live' = live /\ rack' = rack /\ track' = track
      /\ dialog' = dialog /\ engine' = engine /\ pending' = pending
  BY DEF DiscardDraft, Closed
<1>2. edits' \in 0..bench'.edits
  BY <1>1, BenchTyped DEF RackInv
<1>3. QED
  BY <1>1, <1>2 DEF RackInv

(* Every way of playing leaves a routed graph, shown on the rack screen. *)
LEMMA PlayingKeeps ==
  ASSUME RackInv, Routed(live'), Shown, CountsEdit, track' \in Tracks,
         bench' = bench, draft' = draft, base' = base, pending' = pending,
         dialog' = Idle \/ dialog' \in Conflict,
         engine' \in Played \/ engine' = engine
  PROVE  RackInv'
<1>1. edits' \in 0..bench'.edits
  BY EditCounted
<1>2. engine' = Idle \/ engine' \in Played
  BY DEF RackInv
<1>3. QED
  BY <1>1, <1>2 DEF RackInv, Shown

LEMMA PlayKeeps == RackInv /\ Play => RackInv'
<1> SUFFICES ASSUME RackInv, Play PROVE RackInv'
  OBVIOUS
<1>1. PICK channels \in Tracks : track' = channels /\ Asked(live, channels, channels)
  BY DEF Play
<1>2. CountsEdit /\ Shown /\ bench' = bench /\ draft' = draft /\ base' = base /\ pending' = pending
  BY DEF Play
<1>3. Routed(live)
  BY DEF RackInv
<1>4. /\ Routed(live') /\ (dialog' = Idle \/ dialog' \in Conflict)
      /\ (engine' \in Played \/ UNCHANGED engine)
  BY <1>1, <1>3, AskedRouted
<1>5. QED
  BY <1>1, <1>2, <1>4, PlayingKeeps

LEMMA AdvanceKeeps == RackInv /\ Advance => RackInv'
<1> SUFFICES ASSUME RackInv, Advance PROVE RackInv'
  OBVIOUS
<1> DEFINE fresh == Updated(Resumed(live))
<1>1. PICK channels \in Tracks :
        /\ track' = channels
        /\ LET refused == Conflicts(fresh, channels)
           IN Loaded(IF refused = {} THEN fresh ELSE Updated(Suspended(fresh, refused)), channels, channels)
  BY DEF Advance
<1>2. /\ CountsEdit /\ Shown /\ bench' = bench /\ draft' = draft /\ base' = base /\ pending' = pending
      /\ dialog' = dialog
  BY DEF Advance
<1>3. Routed(fresh)
  BY ResumedRouted DEF RackInv
<1> HIDE DEF fresh
<1> DEFINE refused == Conflicts(fresh, channels)
           g == IF refused = {} THEN fresh ELSE Updated(Suspended(fresh, refused))
<1>4. Loaded(g, channels, channels)
  BY <1>1
<1>5. Routed(g)
  BY <1>3, SuspendedRouted
<1> HIDE DEF g
<1>6. Routed(live') /\ engine' \in Played
  BY <1>4, <1>5, LoadedRouted
<1>7. dialog' = Idle \/ dialog' \in Conflict
  BY <1>2 DEF RackInv
<1>8. QED
  BY <1>1, <1>2, <1>6, <1>7, PlayingKeeps

LEMMA SuspendByKeyKeeps == RackInv /\ SuspendByKey => RackInv'
<1> SUFFICES ASSUME RackInv, SuspendByKey PROVE RackInv'
  OBVIOUS
<1> DEFINE g == Updated(Suspended(live, dialog.refused))
<1>1. /\ dialog # Idle /\ dialog' = Idle /\ Loaded(g, dialog.source, dialog.channels)
      /\ CountsEdit /\ Shown /\ bench' = bench /\ draft' = draft /\ base' = base /\ pending' = pending
      /\ track' = track
  BY DEF SuspendByKey
<1>2. dialog.channels \in Tracks /\ dialog.source \in Tracks
  BY <1>1 DEF RackInv, Conflict
<1>3. Routed(g)
  BY SuspendedRouted DEF RackInv
<1> HIDE DEF g
<1>4. Routed(live') /\ engine' \in Played
  BY <1>1, <1>2, <1>3, LoadedRouted
<1>5. track' \in Tracks
  BY <1>1 DEF RackInv
<1>6. QED
  BY <1>1, <1>4, <1>5, PlayingKeeps

LEMMA SuspendByButtonKeeps == RackInv /\ SuspendByButton => RackInv'
<1> SUFFICES ASSUME RackInv, SuspendByButton PROVE RackInv'
  OBVIOUS
<1> DEFINE g == Updated(Suspended(live, dialog.refused))
<1>1. /\ dialog # Idle /\ Asked(g, dialog.source, track)
      /\ CountsEdit /\ Shown /\ bench' = bench /\ draft' = draft /\ base' = base /\ pending' = pending
      /\ track' = track
  BY DEF SuspendByButton
<1>2. track \in Tracks /\ dialog.source \in Tracks
  BY <1>1 DEF RackInv, Conflict
<1>3. Routed(g)
  BY SuspendedRouted DEF RackInv
<1> HIDE DEF g
<1>4. /\ Routed(live') /\ (dialog' = Idle \/ dialog' \in Conflict)
      /\ (engine' \in Played \/ UNCHANGED engine)
  BY <1>1, <1>2, <1>3, AskedRouted
<1>5. QED
  BY <1>1, <1>2, <1>4, PlayingKeeps

LEMMA RemoveByButtonKeeps == RackInv /\ RemoveByButton => RackInv'
<1> SUFFICES ASSUME RackInv, RemoveByButton PROVE RackInv'
  OBVIOUS
<1> DEFINE g == RemoveListed(live)
<1>1. /\ dialog # Idle /\ Asked(g, dialog.source, track)
      /\ CountsEdit /\ Shown /\ bench' = bench /\ draft' = draft /\ base' = base /\ pending' = pending
      /\ track' = track
  BY DEF RemoveByButton
<1>2. track \in Tracks /\ dialog.source \in Tracks /\ Routed(live)
  BY <1>1 DEF RackInv, Conflict
<1>3. Routed(g)
  BY <1>2, RemoveListedRouted
<1> HIDE DEF g
<1>4. /\ Routed(live') /\ (dialog' = Idle \/ dialog' \in Conflict)
      /\ (engine' \in Played \/ UNCHANGED engine)
  BY <1>1, <1>2, <1>3, AskedRouted
<1>5. QED
  BY <1>1, <1>2, <1>4, PlayingKeeps

LEMMA CancelKeeps == RackInv /\ Cancel => RackInv'
BY DEF RackInv, Cancel

LEMMA TickKeeps == RackInv /\ Tick => RackInv'
<1> SUFFICES ASSUME RackInv, Tick PROVE RackInv'
  OBVIOUS
<1>1. /\ pending' = FALSE /\ engine' = IF engine = Idle THEN Idle ELSE [engine EXCEPT !.chain = Chain(live)]
      /\ bench' = bench /\ live' = live /\ rack' = rack /\ draft' = draft /\ base' = base /\ edits' = edits
      /\ track' = track /\ dialog' = dialog
  BY DEF Tick
<1>2. Chain(live) \in Seq(Stage)
  BY ChainTyped DEF RackInv, Routed
<1>3. engine = Idle \/ engine \in Played
  BY DEF RackInv
<1>4. engine' = Idle \/ engine' \in Played
  <2> DEFINE c == Chain(live)
  <2> HIDE DEF c
  <2>1. engine' = Idle \/ (engine \in Played /\ engine' = [engine EXCEPT !.chain = c])
    BY <1>1, <1>3 DEF c
  <2>2. QED
    BY <1>2, <2>1 DEF Played, c
<1>5. QED
  BY <1>1, <1>4 DEF RackInv

LEMMA RackStep == RackInv /\ [Next]_vars => RackInv'
<1> SUFFICES ASSUME RackInv, [Next]_vars PROVE RackInv'
  OBVIOUS
<1>1. CASE UNCHANGED vars
  BY <1>1 DEF RackInv, vars
<1>2. CASE Next
  BY <1>2, AddPluginKeeps, RemovePluginKeeps, MovePluginKeeps, TogglePluginKeeps, ClearPluginsKeeps,
     OpenDraftKeeps, DraftStepKeeps, ApplyDraftKeeps, DiscardDraftKeeps, PlayKeeps, AdvanceKeeps,
     SuspendByKeyKeeps, SuspendByButtonKeeps, RemoveByButtonKeeps, CancelKeeps, TickKeeps
  DEF Next
<1>3. QED
  BY <1>1, <1>2

LEMMA RackAlways == Spec => []RackInv
BY RackInit, RackStep, PTL DEF Spec

-----------------------------------------------------------------------------
(* What refuses a track.  As long as no plugin that counts channels follows *)
(* a matrix, a track of two channels is refused by every active upmixer but *)
(* the first, any other track by all of them.                               *)
Upmixes(g, k) == Active(g.nodes[Rack(g)[k]]) /\ g.nodes[Rack(g)[k]].kind = "upmix"
Leads(g, k) == \A i \in 1..k - 1 : ~Upmixes(g, i)
Refusers(g, c) == {Rack(g)[k] : k \in {j \in 1..Len(Rack(g)) : Upmixes(g, j) /\ ~(c = 2 /\ Leads(g, j))}}

AskFlow(g, c) ==
  CHOOSE f : f = [k \in 1..Len(Rack(g)) + 1 |->
                   IF k = 1 THEN c
                   ELSE IF Refuses(g.nodes[Rack(g)[k - 1]], f[k - 1]) THEN f[k - 1]
                        ELSE Passed(g.nodes[Rack(g)[k - 1]], f[k - 1])]

LEMMA AskFlowIs ==
  ASSUME NEW g, Sound(g), NEW c \in Some
  PROVE  /\ Channels(AskFlow(g, c), "asking", Rack(g), g.nodes, c)
         /\ Conflicts(g, c) = {Rack(g)[k] : k \in {j \in DOMAIN Rack(g) : Refuses(g.nodes[Rack(g)[j]], AskFlow(g, c)[j])}}
<1> DEFINE r == Rack(g)
           D == DOMAIN g.nodes
           nodes == g.nodes
           Eq(f) == f = [k \in 1..Len(r) + 1 |->
                          IF k = 1 THEN c
                          ELSE IF Refuses(nodes[r[k - 1]], f[k - 1]) THEN f[k - 1]
                               ELSE Passed(nodes[r[k - 1]], f[k - 1])]
<1>0. Conflicts(g, c) = {r[k] : k \in {j \in DOMAIN r : Refuses(nodes[r[j]], AskFlow(g, c)[j])}}
  BY DEF Conflicts, AskFlow
<1>1. r \in Seq(D) /\ nodes \in [D -> Node]
  BY RackTyped DEF Sound, Graph, GraphsOn
<1>5. AskFlow(g, c) = CHOOSE f : Eq(f)
  BY DEF AskFlow
<1> HIDE DEF r, D, nodes
<1>2. \A f : Flow(f, "asking", r, nodes, c) <=> Eq(f)
  <2>1. \A f, k : Onward("asking", nodes[r[k - 1]], f[k - 1])
                    = IF Refuses(nodes[r[k - 1]], f[k - 1]) THEN f[k - 1] ELSE Passed(nodes[r[k - 1]], f[k - 1])
    BY DEF Onward
  <2>2. ASSUME NEW f
        PROVE  [k \in 1..Len(r) + 1 |-> IF k = 1 THEN c ELSE Onward("asking", nodes[r[k - 1]], f[k - 1])]
                 = [k \in 1..Len(r) + 1 |-> IF k = 1 THEN c
                                            ELSE IF Refuses(nodes[r[k - 1]], f[k - 1]) THEN f[k - 1]
                                                 ELSE Passed(nodes[r[k - 1]], f[k - 1])]
    BY <2>1, Zenon
  <2>3. QED
    BY <2>2, Zenon DEF Flow
<1>3. /\ \E f : Flow(f, "asking", r, nodes, c)
      /\ \A f : Flow(f, "asking", r, nodes, c) => Channels(f, "asking", r, nodes, c)
  BY <1>1, FlowIs
<1> HIDE DEF Eq
<1>4. Eq(CHOOSE f : Eq(f))
  BY <1>2, <1>3
<1>6. Channels(AskFlow(g, c), "asking", r, nodes, c)
  BY <1>2, <1>3, <1>4, <1>5
<1>7. QED
  BY <1>0, <1>6 DEF r, nodes

LEMMA Asks ==
  ASSUME NEW node \in Node, NEW c \in Some
  PROVE  /\ Refuses(node, c) <=> Active(node) /\ node.kind = "upmix" /\ c # 2
         /\ node.kind # "matrix" => Onward("asking", node, c) =
              IF Active(node) /\ node.kind = "upmix" /\ c = 2 THEN Wide ELSE c
         /\ node.kind # "matrix" => Onward("plain", node, c) =
              IF Active(node) /\ node.kind = "upmix" THEN Wide ELSE c
<1>1. c # 0 /\ node.kind \in Kinds
  BY DEF Some, Node
<1>2. Refuses(node, c) <=> Active(node) /\ node.kind = "upmix" /\ c # 2
  BY <1>1 DEF Refuses, Required
<1>3. node.kind # "matrix" => Passed(node, c) = IF Active(node) /\ node.kind = "upmix" THEN Wide ELSE c
  BY <1>1 DEF Passed, OutputChannels, Kinds
<1>4. QED
  BY <1>2, <1>3 DEF Onward

(* Before a plugin that counts there is no matrix. *)
LEMMA BeforeUpmix ==
  ASSUME NEW g, Sound(g), MatricesLast(g, Rack(g)), NEW k \in 1..Len(Rack(g)), Upmixes(g, k), NEW j \in 1..k - 1
  PROVE  j \in 1..Len(Rack(g)) /\ g.nodes[Rack(g)[j]] \in Node /\ g.nodes[Rack(g)[j]].kind # "matrix"
<1> DEFINE r == Rack(g)
           n == Len(r)
<1>1. r \in Seq(DOMAIN g.nodes) /\ n \in Nat /\ g.nodes \in [DOMAIN g.nodes -> Node]
  BY RackTyped DEF Sound, Graph, GraphsOn
<1>2. j \in 1..n /\ k \in 1..n /\ j < k /\ DOMAIN r = 1..n
  BY <1>1
<1>3. g.nodes[r[j]] \in Node
  BY <1>1, <1>2
<1>4. Required(g.nodes[r[k]]) = 2
  BY DEF Required, Upmixes
<1>5. g.nodes[r[j]].kind # "matrix"
  BY <1>2, <1>4 DEF MatricesLast
<1>6. QED
  BY <1>2, <1>3, <1>5

LEMMA ConflictsAre ==
  ASSUME NEW g, Sound(g), MatricesLast(g, Rack(g)), NEW c \in Some
  PROVE  Conflicts(g, c) = Refusers(g, c)
<1> DEFINE r == Rack(g)
           n == Len(r)
           f == AskFlow(g, c)
           node(k) == g.nodes[r[k]]
<1>1. /\ f \in [1..n + 1 -> Some] /\ f[1] = c
      /\ \A k \in 1..n : f[k + 1] = Onward("asking", node(k), f[k])
      /\ Conflicts(g, c) = {r[k] : k \in {j \in DOMAIN r : Refuses(node(j), f[j])}}
  <2>1. /\ Channels(f, "asking", r, g.nodes, c)
        /\ Conflicts(g, c) = {r[k] : k \in {j \in DOMAIN r : Refuses(node(j), f[j])}}
    BY AskFlowIs
  <2>2. QED
    BY <2>1 DEF Channels
<1>2. r \in Seq(DOMAIN g.nodes) /\ n \in Nat /\ DOMAIN r = 1..n /\ \A k \in 1..n : node(k) \in Node
  <2>1. r \in Seq(DOMAIN g.nodes) /\ g.nodes \in [DOMAIN g.nodes -> Node]
    BY RackTyped DEF Sound, Graph, GraphsOn
  <2>2. QED
    BY <2>1
<1>3. Wide \in Some /\ Wide # 2
  BY PluginGraphAssumption DEF Some
<1> HIDE DEF f, n, r
<1>4. ASSUME NEW k \in 1..n, Upmixes(g, k)
      PROVE  Refuses(node(k), f[k]) <=> ~(c = 2 /\ Leads(g, k))
  <2> DEFINE T == {j \in Nat : f[j] = IF c = 2 /\ ~Leads(g, j) THEN Wide ELSE c}
  <2>1. 1 \in T
    <3>1. Leads(g, 1)
      BY DEF Leads
    <3>2. QED
      BY <1>1, <3>1
  <2>2. ASSUME NEW j \in 1..k - 1, j \in T PROVE j + 1 \in T
    <3>1. j \in 1..n /\ node(j) \in Node /\ node(j).kind # "matrix"
      BY <1>4, BeforeUpmix DEF n, r
    <3>2. j + 1 \in Nat /\ f[j] \in Some
      BY <1>1, <1>2, <3>1
    <3>3. f[j + 1] = IF Upmixes(g, j) /\ f[j] = 2 THEN Wide ELSE f[j]
      <4>1. f[j + 1] = Onward("asking", node(j), f[j])
        BY <1>1, <3>1
      <4>2. Upmixes(g, j) <=> Active(node(j)) /\ node(j).kind = "upmix"
        BY DEF Upmixes, r
      <4> HIDE DEF node
      <4>3. QED
        BY <3>1, <3>2, <4>1, <4>2, Asks
    <3>4. Leads(g, j + 1) <=> Leads(g, j) /\ ~Upmixes(g, j)
      <4>1. \A i : i \in 1..(j + 1) - 1 <=> i \in 1..j - 1 \/ i = j
        OBVIOUS
      <4>2. QED
        BY <4>1 DEF Leads
    <3>5. f[j] = IF c = 2 /\ ~Leads(g, j) THEN Wide ELSE c
      BY <2>2
    <3>6. f[j + 1] = IF c = 2 /\ ~Leads(g, j + 1) THEN Wide ELSE c
      BY <1>3, <3>3, <3>4, <3>5
    <3>7. QED
      BY <3>2, <3>6
  <2> HIDE DEF T
  <2>3. k \in Nat /\ 1 \in Nat /\ k \in 1..k
    BY <1>2
  <2>4. \A j \in 1..k : j \in T
    BY <2>1, <2>2, <2>3, CountUp
  <2>5. f[k] = IF c = 2 /\ ~Leads(g, k) THEN Wide ELSE c
    BY <2>3, <2>4 DEF T
  <2>6. node(k) \in Node /\ f[k] \in Some /\ Active(node(k)) /\ node(k).kind = "upmix"
    BY <1>1, <1>2, <1>4 DEF Upmixes, r
  <2> HIDE DEF node
  <2>7. Refuses(node(k), f[k]) <=> f[k] # 2
    BY <2>6, Asks
  <2>8. QED
    BY <1>3, <2>5, <2>7
<1>5. ASSUME NEW k \in 1..n PROVE Refuses(node(k), f[k]) <=> Upmixes(g, k) /\ ~(c = 2 /\ Leads(g, k))
  <2>1. Refuses(node(k), f[k]) => Upmixes(g, k)
    <3>1. node(k) \in Node /\ f[k] \in Some
      BY <1>1, <1>2
    <3>2. Upmixes(g, k) <=> Active(node(k)) /\ node(k).kind = "upmix"
      BY DEF Upmixes, r
    <3> HIDE DEF node
    <3>3. QED
      BY <3>1, <3>2, Asks
  <2>2. QED
    BY <1>4, <2>1
<1>6. {j \in DOMAIN r : Refuses(node(j), f[j])} = {j \in 1..n : Upmixes(g, j) /\ ~(c = 2 /\ Leads(g, j))}
  BY <1>2, <1>5
<1>7. QED
  BY <1>1, <1>6 DEF Refusers, n, r

(* A chain in which nothing refuses the track does not clash with it: in   *)
(* front of an active upmixer everything passes its channels on.           *)
ChainFlow(chain, c) ==
  CHOOSE f : f = [k \in 1..Len(chain) + 1 |->
                   IF k = 1 THEN c ELSE OutputChannels(chain[k - 1], f[k - 1])]

LEMMA ChainFlowIs ==
  ASSUME NEW g, Sound(g), NEW c \in Some
  PROVE  Channels(ChainFlow(Chain(g), c), "plain", Rack(g), g.nodes, c)
<1> DEFINE r == Rack(g)
           D == DOMAIN g.nodes
           nodes == g.nodes
           n == Len(r)
           t == Chain(g)
           stage(node) == IF Active(node) THEN [kind |-> node.kind, size |-> node.size] ELSE LeftOut
           Eq(f) == f = [k \in 1..Len(t) + 1 |-> IF k = 1 THEN c ELSE OutputChannels(t[k - 1], f[k - 1])]
<1>1. r \in Seq(D) /\ nodes \in [D -> Node] /\ t \in Seq(Stage)
  BY RackTyped, ChainTyped DEF Sound, Graph, GraphsOn
<1>2. t = [k \in DOMAIN r |-> stage(nodes[r[k]])]
  BY DEF Chain
<1>3. ChainFlow(t, c) = CHOOSE f : Eq(f)
  BY DEF ChainFlow
<1> HIDE DEF r, D, nodes, t
<1>4. n \in Nat /\ DOMAIN r = 1..n /\ Len(t) = n
  BY <1>1, <1>2
<1>5. ASSUME NEW node \in Node, NEW x PROVE OutputChannels(stage(node), x) = Onward("plain", node, x)
  <2>1. Onward("plain", node, x) = IF Active(node) THEN OutputChannels(node, x) ELSE x
    BY DEF Onward, Passed
  <2>2. CASE Active(node)
    BY <2>1, <2>2 DEF OutputChannels
  <2>3. CASE ~Active(node)
    BY <2>1, <2>3 DEF OutputChannels, LeftOut
  <2>4. QED
    BY <2>2, <2>3
<1> HIDE DEF stage, n
<1>6. ASSUME NEW f, NEW k \in 1..n + 1, k # 1
      PROVE  OutputChannels(t[k - 1], f[k - 1]) = Onward("plain", nodes[r[k - 1]], f[k - 1])
  <2> DEFINE j == k - 1
  <2>1. j \in 1..n /\ j \in DOMAIN r
    BY <1>4, <1>6
  <2> HIDE DEF j
  <2>2. nodes[r[j]] \in Node /\ t[j] = stage(nodes[r[j]])
    BY <1>1, <1>2, <2>1
  <2>3. OutputChannels(t[j], f[j]) = Onward("plain", nodes[r[j]], f[j])
    BY <1>5, <2>2
  <2>4. QED
    BY <2>3 DEF j
<1>7. \A f : Flow(f, "plain", r, nodes, c) <=> Eq(f)
  <2>1. ASSUME NEW f
        PROVE  [k \in 1..n + 1 |-> IF k = 1 THEN c ELSE Onward("plain", nodes[r[k - 1]], f[k - 1])]
                 = [k \in 1..n + 1 |-> IF k = 1 THEN c ELSE OutputChannels(t[k - 1], f[k - 1])]
    BY <1>6, Zenon
  <2>2. Len(r) = n /\ Len(t) = n
    BY <1>4 DEF n
  <2> HIDE DEF n
  <2>3. ASSUME NEW f
        PROVE  /\ Flow(f, "plain", r, nodes, c)
                    <=> f = [k \in 1..n + 1 |-> IF k = 1 THEN c ELSE Onward("plain", nodes[r[k - 1]], f[k - 1])]
               /\ Eq(f) <=> f = [k \in 1..n + 1 |-> IF k = 1 THEN c ELSE OutputChannels(t[k - 1], f[k - 1])]
    BY <2>2, Zenon DEF Flow
  <2> HIDE DEF Eq
  <2>4. QED
    BY <2>1, <2>3
<1>8. /\ \E f : Flow(f, "plain", r, nodes, c)
      /\ \A f : Flow(f, "plain", r, nodes, c) => Channels(f, "plain", r, nodes, c)
  BY <1>1, FlowIs
<1> HIDE DEF Eq
<1>9. Eq(CHOOSE f : Eq(f))
  BY <1>7, <1>8
<1>10. Channels(ChainFlow(t, c), "plain", r, nodes, c)
  BY <1>3, <1>7, <1>8, <1>9
<1>11. QED
  BY <1>10 DEF r, nodes, t

LEMMA NoClash ==
  ASSUME NEW g, Sound(g), MatricesLast(g, Rack(g)), NEW c \in Some, Conflicts(g, c) = {}
  PROVE  ~Clash(c, Chain(g))
<1> DEFINE r == Rack(g)
           n == Len(r)
           t == Chain(g)
           f == ChainFlow(t, c)
           node(k) == g.nodes[r[k]]
           stage(x) == IF Active(x) THEN [kind |-> x.kind, size |-> x.size] ELSE LeftOut
<1>1. /\ f \in [1..n + 1 -> Some] /\ f[1] = c
      /\ \A k \in 1..n : f[k + 1] = Onward("plain", node(k), f[k])
  <2>1. Channels(f, "plain", r, g.nodes, c)
    BY ChainFlowIs
  <2>2. QED
    BY <2>1 DEF Channels
<1>2. r \in Seq(DOMAIN g.nodes) /\ n \in Nat /\ DOMAIN r = 1..n /\ \A k \in 1..n : node(k) \in Node
  <2>1. r \in Seq(DOMAIN g.nodes) /\ g.nodes \in [DOMAIN g.nodes -> Node]
    BY RackTyped DEF Sound, Graph, GraphsOn
  <2>2. QED
    BY <2>1
<1>3. t = [k \in DOMAIN r |-> stage(node(k))]
  BY DEF Chain
<1>4. ASSUME NEW k \in 1..n, Upmixes(g, k) PROVE c = 2 /\ Leads(g, k)
  <2>1. Refusers(g, c) = {}
    BY ConflictsAre
  <2>2. k \notin {j \in 1..n : Upmixes(g, j) /\ ~(c = 2 /\ Leads(g, j))}
    <3> HIDE DEF r
    <3>1. QED
      BY <2>1 DEF Refusers, r
  <2>3. QED
    BY <1>4, <2>2
<1>5. Clash(c, t) <=> \E k \in DOMAIN t : Required(t[k]) \notin {0, f[k]}
  BY DEF Clash, ChainFlow
<1> HIDE DEF f, n, r, t
<1>6. ASSUME NEW k \in 1..n, Upmixes(g, k) PROVE f[k] = 2
  <2> DEFINE T == {j \in Nat : f[j] = 2}
  <2>1. c = 2 /\ Leads(g, k)
    BY <1>4, <1>6
  <2>2. 1 \in T
    BY <1>1, <2>1
  <2>3. ASSUME NEW j \in 1..k - 1, j \in T PROVE j + 1 \in T
    <3>1. j \in 1..n /\ node(j) \in Node /\ node(j).kind # "matrix"
      BY <1>6, BeforeUpmix DEF n, r
    <3>2. ~(Active(node(j)) /\ node(j).kind = "upmix")
      BY <2>1 DEF Leads, Upmixes, r
    <3>3. f[j + 1] = Onward("plain", node(j), f[j]) /\ f[j] \in Some /\ j + 1 \in Nat
      BY <1>1, <1>2, <3>1
    <3> HIDE DEF node
    <3>4. f[j + 1] = f[j]
      BY <3>1, <3>2, <3>3, Asks
    <3>5. QED
      BY <2>3, <3>3, <3>4
  <2> HIDE DEF T
  <2>4. k \in Nat /\ 1 \in Nat /\ k \in 1..k
    BY <1>2
  <2>5. \A j \in 1..k : j \in T
    BY <2>2, <2>3, <2>4, CountUp
  <2>6. QED
    BY <2>4, <2>5 DEF T
<1>7. ASSUME NEW k \in DOMAIN t PROVE Required(t[k]) \in {0, f[k]}
  <2>1. k \in 1..n /\ t[k] = stage(node(k))
    BY <1>2, <1>3
  <2>2. CASE Upmixes(g, k)
    <3>1. f[k] = 2
      BY <1>6, <2>1, <2>2
    <3>2. QED
      BY <3>1 DEF Required
  <2>3. CASE ~Upmixes(g, k)
    <3>1. ~(Active(node(k)) /\ node(k).kind = "upmix")
      BY <2>3 DEF Upmixes, r
    <3> HIDE DEF node
    <3>2. t[k].kind # "upmix"
      BY <2>1, <3>1 DEF LeftOut
    <3>3. QED
      BY <3>2 DEF Required
  <2>4. QED
    BY <2>2, <2>3
<1>8. QED
  BY <1>5, <1>7 DEF t

-----------------------------------------------------------------------------
(* What playing keeps: the rack, the kinds of its plugins and which of the *)
(* plugins that count channels are on; and who is suspended.               *)
Kin(g, h) ==
  /\ Rack(h) = Rack(g) /\ DOMAIN h.nodes = DOMAIN g.nodes
  /\ \A id \in DOMAIN g.nodes : /\ h.nodes[id].kind = g.nodes[id].kind
                                /\ g.nodes[id].kind = "upmix" => h.nodes[id].on = g.nodes[id].on
Rests(g, h) == \A id \in DOMAIN g.nodes : h.nodes[id].suspended = g.nodes[id].suspended

LEMMA KinOn ==
  ASSUME NEW g, NEW h, NEW k, Kin(g, h), Kin(h, k)
  PROVE  Kin(g, k) /\ (Rests(g, h) /\ Rests(h, k) => Rests(g, k))
BY DEF Kin, Rests

LEMMA KinSame ==
  ASSUME NEW g, NEW h, Switches(g, h), Rack(h) = Rack(g)
  PROVE  Kin(g, h) /\ Rests(g, h)
BY DEF Kin, Rests, Switches

LEMMA KinMatrices ==
  ASSUME NEW g, NEW h, Sound(g), Kin(g, h)
  PROVE  MatricesLast(h, Rack(h)) <=> MatricesLast(g, Rack(g))
<1> DEFINE r == Rack(g)
<1>1. \A k \in DOMAIN r : r[k] \in DOMAIN g.nodes
  BY RackTyped
<1>2. Rack(h) = r /\ \A id \in DOMAIN g.nodes : h.nodes[id].kind = g.nodes[id].kind
  BY DEF Kin
<1> HIDE DEF r
<1>3. \A k \in DOMAIN r : /\ h.nodes[r[k]].kind = g.nodes[r[k]].kind
                          /\ Required(h.nodes[r[k]]) = Required(g.nodes[r[k]])
  BY <1>1, <1>2 DEF Required
<1>4. MatricesLast(h, r) <=> MatricesLast(g, r)
  BY <1>3 DEF MatricesLast
<1>5. QED
  BY <1>2, <1>4 DEF r

LEMMA KinConflicts ==
  ASSUME NEW g, NEW h, Sound(g), Sound(h), Kin(g, h), Rests(g, h), MatricesLast(g, Rack(g)), NEW c \in Some
  PROVE  Conflicts(h, c) = Conflicts(g, c)
<1> DEFINE r == Rack(g)
           n == Len(r)
<1>1. r \in Seq(DOMAIN g.nodes) /\ n \in Nat
  BY RackTyped
<1>2. Rack(h) = r
  BY DEF Kin
<1>3. ASSUME NEW k \in 1..n PROVE Upmixes(h, k) <=> Upmixes(g, k)
  <2>1. r[k] \in DOMAIN g.nodes
    BY <1>1
  <2>2. /\ h.nodes[r[k]].kind = g.nodes[r[k]].kind
        /\ g.nodes[r[k]].kind = "upmix" => h.nodes[r[k]].on = g.nodes[r[k]].on
        /\ h.nodes[r[k]].suspended = g.nodes[r[k]].suspended
    BY <2>1 DEF Kin, Rests
  <2> HIDE DEF r
  <2>3. Upmixes(h, k) <=> Active(h.nodes[r[k]]) /\ h.nodes[r[k]].kind = "upmix"
    BY <1>2 DEF Upmixes
  <2>4. Upmixes(g, k) <=> Active(g.nodes[r[k]]) /\ g.nodes[r[k]].kind = "upmix"
    BY DEF Upmixes, r
  <2>5. QED
    BY <2>2, <2>3, <2>4 DEF Active
<1>4. ASSUME NEW k \in 1..n PROVE Leads(h, k) <=> Leads(g, k)
  <2>1. \A i \in 1..k - 1 : i \in 1..n
    BY <1>1
  <2>2. QED
    BY <1>3, <2>1 DEF Leads
<1>5. MatricesLast(h, Rack(h))
  BY KinMatrices
<1>6. Conflicts(h, c) = Refusers(h, c) /\ Conflicts(g, c) = Refusers(g, c)
  BY <1>5, ConflictsAre
<1>7. {j \in 1..n : Upmixes(h, j) /\ ~(c = 2 /\ Leads(h, j))} = {j \in 1..n : Upmixes(g, j) /\ ~(c = 2 /\ Leads(g, j))}
  BY <1>3, <1>4
<1>8. Refusers(h, c) = {r[k] : k \in {j \in 1..n : Upmixes(h, j) /\ ~(c = 2 /\ Leads(h, j))}}
  BY <1>2 DEF Refusers
<1>9. Refusers(g, c) = {r[k] : k \in {j \in 1..n : Upmixes(g, j) /\ ~(c = 2 /\ Leads(g, j))}}
  BY DEF Refusers
<1> HIDE DEF r, n
<1>10. QED
  BY <1>6, <1>7, <1>8, <1>9

LEMMA SameWires ==
  ASSUME NEW g, NEW h, Sound(g), Sound(h), Ids(h) = Ids(g), h.wires = g.wires
  PROVE  Rack(h) = Rack(g) /\ (Linear(h) <=> Linear(g))
<1>1. CASE Linear(g)
  BY <1>1, SameLinear
<1>2. CASE Linear(h)
  BY <1>2, SameLinear
<1>3. CASE ~Linear(g) /\ ~Linear(h)
  BY <1>3 DEF Rack
<1>4. QED
  BY <1>1, <1>2, <1>3

LEMMA SleptKin ==
  ASSUME NEW g, Sound(g), NEW F \in [DOMAIN g.nodes -> BOOLEAN]
  PROVE  /\ Sound(Slept(g, F)) /\ Kin(g, Slept(g, F))
         /\ \A id \in DOMAIN g.nodes : Slept(g, F).nodes[id].suspended = F[id]
<1> DEFINE h == Slept(g, F)
<1>1. Sound(h) /\ Alike(g, h)
      /\ \A id \in DOMAIN g.nodes : /\ h.nodes[id].on = g.nodes[id].on
                                    /\ h.nodes[id].suspended = F[id]
                                    /\ h.nodes[id].kind = g.nodes[id].kind
  BY SleptSound
<1> HIDE DEF h
<1>2. Rack(h) = Rack(g)
  BY <1>1, SameWires DEF Alike
<1>3. Kin(g, h)
  BY <1>1, <1>2 DEF Kin, Alike
<1>4. QED
  BY <1>1, <1>3 DEF h

LEMMA ResumedKin ==
  ASSUME NEW g, Sound(g)
  PROVE  /\ Sound(Resumed(g)) /\ Kin(g, Resumed(g))
         /\ \A id \in DOMAIN g.nodes : Resumed(g).nodes[id].suspended = FALSE
<1> DEFINE F == [id \in DOMAIN g.nodes |-> FALSE]
<1>1. F \in [DOMAIN g.nodes -> BOOLEAN] /\ Resumed(g) = Slept(g, F)
  BY Woken
<1>2. \A id \in DOMAIN g.nodes : F[id] = FALSE
  OBVIOUS
<1> HIDE DEF F
<1>3. /\ Sound(Slept(g, F)) /\ Kin(g, Slept(g, F))
      /\ \A id \in DOMAIN g.nodes : Slept(g, F).nodes[id].suspended = F[id]
  BY <1>1, SleptKin
<1>4. QED
  BY <1>1, <1>2, <1>3

(* Awake, kin refuse the same tracks. *)
LEMMA AwakeConflicts ==
  ASSUME NEW g, NEW h, Sound(g), Sound(h), Kin(g, h), MatricesLast(g, Rack(g)), NEW c \in Some
  PROVE  Conflicts(Resumed(h), c) = Conflicts(Resumed(g), c)
<1> DEFINE u == Resumed(g)
           v == Resumed(h)
<1>1. Sound(u) /\ Kin(g, u) /\ \A id \in DOMAIN g.nodes : u.nodes[id].suspended = FALSE
  BY ResumedKin
<1>2. Sound(v) /\ Kin(h, v) /\ \A id \in DOMAIN h.nodes : v.nodes[id].suspended = FALSE
  BY ResumedKin
<1> HIDE DEF u, v
<1>3. Kin(u, v)
  BY <1>1, <1>2 DEF Kin
<1>4. Rests(u, v)
  BY <1>1, <1>2 DEF Kin, Rests
<1>5. MatricesLast(u, Rack(u))
  BY <1>1, KinMatrices
<1>6. QED
  BY <1>1, <1>2, <1>3, <1>4, <1>5, KinConflicts DEF u, v

LEMMA GainKin ==
  ASSUME NEW g, Sound(g), "ReplayGain" \in DOMAIN g.nodes, NEW b \in BOOLEAN
  PROVE  Kin(g, On(g, "ReplayGain", b)) /\ Rests(g, On(g, "ReplayGain", b))
<1> DEFINE h == On(g, "ReplayGain", b)
<1>1. /\ Sound(h) /\ Alike(g, h)
      /\ \A n \in DOMAIN g.nodes : n # "ReplayGain" => h.nodes[n] = g.nodes[n]
      /\ h.nodes["ReplayGain"].kind = g.nodes["ReplayGain"].kind
      /\ h.nodes["ReplayGain"].suspended = g.nodes["ReplayGain"].suspended
  BY OnSound
<1> HIDE DEF h
<1>2. Rack(h) = Rack(g) /\ DOMAIN h.nodes = DOMAIN g.nodes
  BY <1>1, SameWires DEF Alike
<1>3. g.nodes["ReplayGain"].kind = "pass"
  BY DEF Sound, Steady
<1>4. Kin(g, h)
  BY <1>1, <1>2, <1>3 DEF Kin
<1>5. Rests(g, h)
  BY <1>1 DEF Rests
<1>6. QED
  BY <1>4, <1>5 DEF h

(* The chain the engine is given is the live one, fitted to c channels. *)
Carries(c) == engine'.channels = c /\ engine'.chain = Chain(live')

(* play_track_at_inner changes none of it. *)
LEMMA LoadedKin ==
  ASSUME NEW g, Routed(g), NEW s \in Tracks, NEW c \in Tracks, Loaded(g, s, c)
  PROVE  /\ Routed(live') /\ Kin(g, live') /\ Rests(g, live')
         /\ Carries(c)
<1> DEFINE fitted == AdaptedTo(g, c)
           b == track' \in Gained
<1>1. c \in Some
  BY PluginRackAssumption DEF Some
<1>2. Routed(fitted) /\ Switches(g, fitted) /\ Rack(fitted) = Rack(g)
  BY <1>1, AdaptedRouted
<1> HIDE DEF fitted
<1>3. live' = IF "ReplayGain" \in DOMAIN fitted.nodes THEN On(fitted, "ReplayGain", b) ELSE fitted
  BY DEF Loaded, On, fitted
<1>4. b \in BOOLEAN
  OBVIOUS
<1> HIDE DEF b
<1>5. Kin(g, fitted) /\ Rests(g, fitted)
  BY <1>2, KinSame
<1>6. Kin(g, live') /\ Rests(g, live')
  <2>1. CASE "ReplayGain" \in DOMAIN fitted.nodes
    <3> DEFINE h == On(fitted, "ReplayGain", b)
    <3>1. Kin(fitted, h) /\ Rests(fitted, h)
      BY <1>2, <1>4, <2>1, GainKin DEF Routed
    <3> HIDE DEF h
    <3>2. Kin(g, h) /\ Rests(g, h)
      BY <1>5, <3>1, KinOn
    <3>3. QED
      BY <1>3, <2>1, <3>2 DEF h
  <2>2. CASE "ReplayGain" \notin DOMAIN fitted.nodes
    BY <1>3, <1>5, <2>2
  <2>3. QED
    BY <2>1, <2>2
<1>7. Routed(live')
  BY LoadedRouted
<1>8. Carries(c)
  BY DEF Loaded, Carries
<1>9. QED
  BY <1>6, <1>7, <1>8

LEMMA UpdatedKin ==
  ASSUME NEW g, Sound(g)
  PROVE  Sound(Updated(g)) /\ Kin(g, Updated(g)) /\ Rests(g, Updated(g))
BY UpdatedSound, KinSame

LEMMA SuspendedAny ==
  ASSUME NEW g, Sound(g), NEW X
  PROVE  /\ Sound(Suspended(g, X)) /\ Kin(g, Suspended(g, X))
         /\ Linear(g) => \A id \in DOMAIN g.nodes :
              Suspended(g, X).nodes[id].suspended <=> g.nodes[id].suspended \/ id \in X
         /\ ~Linear(g) => Suspended(g, X) = g
<1> DEFINE h == Suspended(g, X)
<1>1. CASE Linear(g)
  <2> DEFINE F == [id \in DOMAIN g.nodes |-> g.nodes[id].suspended \/ id \in X]
  <2>1. F \in [DOMAIN g.nodes -> BOOLEAN] /\ h = Slept(g, F)
    BY <1>1, PutToSleep
  <2>2. \A id \in DOMAIN g.nodes : F[id] = (g.nodes[id].suspended \/ id \in X)
    OBVIOUS
  <2> HIDE DEF F, h
  <2>3. /\ Sound(Slept(g, F)) /\ Kin(g, Slept(g, F))
        /\ \A id \in DOMAIN g.nodes : Slept(g, F).nodes[id].suspended = F[id]
    BY <2>1, SleptKin
  <2>4. QED
    BY <1>1, <2>1, <2>2, <2>3 DEF h
<1>2. CASE ~Linear(g)
  <2>1. h = g
    BY <1>2, Zenon DEF Suspended
  <2>2. Kin(g, g)
    BY DEF Kin
  <2> HIDE DEF h
  <2>3. Sound(h) /\ Kin(g, h)
    BY <2>1, <2>2
  <2>4. QED
    BY <1>2, <2>1, <2>3 DEF h
<1>3. QED
  BY <1>1, <1>2

(* Suspending what the awake rack refuses leaves nothing that refuses. *)
LEMMA SuspendedKin ==
  ASSUME NEW g, Sound(g), NEW c \in Some, MatricesLast(g, Rack(g))
  PROVE  LET X == Conflicts(Resumed(g), c)
             h == Suspended(g, X)
         IN /\ Sound(h) /\ Kin(g, h) /\ Conflicts(h, c) = {} /\ X \subseteq DOMAIN g.nodes
            /\ \A id \in DOMAIN g.nodes : h.nodes[id].suspended <=> g.nodes[id].suspended \/ id \in X
<1> DEFINE u == Resumed(g)
           X == Conflicts(u, c)
           h == Suspended(g, X)
           r == Rack(g)
           n == Len(r)
<1>1. Sound(u) /\ Kin(g, u) /\ \A id \in DOMAIN g.nodes : u.nodes[id].suspended = FALSE
  BY ResumedKin
<1> HIDE DEF u
<1>2. r \in Seq(DOMAIN g.nodes) /\ n \in Nat /\ Rack(u) = r
  BY <1>1, RackTyped DEF Kin
<1>3. MatricesLast(u, Rack(u))
  BY <1>1, KinMatrices
<1>4. X = Refusers(u, c)
  BY <1>1, <1>3, ConflictsAre
<1> HIDE DEF X
<1>5. X = {r[k] : k \in {j \in 1..n : Upmixes(u, j) /\ ~(c = 2 /\ Leads(u, j))}}
  BY <1>2, <1>4 DEF Refusers
<1>6. X \subseteq DOMAIN g.nodes
  <2> HIDE DEF r
  <2>1. \A k \in 1..n : r[k] \in DOMAIN g.nodes
    BY <1>2
  <2>2. QED
    BY <1>5, <2>1
<1>7. /\ Sound(h) /\ Kin(g, h)
      /\ \A id \in DOMAIN g.nodes : h.nodes[id].suspended <=> g.nodes[id].suspended \/ id \in X
  <2>1. /\ Sound(h) /\ Kin(g, h) /\ (~Linear(g) => h = g)
        /\ Linear(g) => \A id \in DOMAIN g.nodes : h.nodes[id].suspended <=> g.nodes[id].suspended \/ id \in X
    BY SuspendedAny
  <2> HIDE DEF h
  <2>2. CASE Linear(g)
    BY <2>1, <2>2
  <2>3. CASE ~Linear(g)
    <3>1. n = 0
      BY <2>3 DEF Rack
    <3> HIDE DEF n, r
    <3>2. X = {}
      BY <1>5, <3>1
    <3>3. QED
      BY <2>1, <2>3, <3>2
  <2>4. QED
    BY <2>1, <2>2, <2>3
<1> HIDE DEF h
<1>8. ASSUME NEW k \in 1..n PROVE Upmixes(h, k) => Upmixes(u, k) /\ r[k] \notin X
  <2>1. r[k] \in DOMAIN g.nodes
    BY <1>2
  <2> HIDE DEF r, n
  <2>2. /\ h.nodes[r[k]].kind = g.nodes[r[k]].kind
        /\ g.nodes[r[k]].kind = "upmix" => h.nodes[r[k]].on = g.nodes[r[k]].on
        /\ h.nodes[r[k]].suspended <=> g.nodes[r[k]].suspended \/ r[k] \in X
    BY <1>7, <2>1 DEF Kin
  <2>3. /\ u.nodes[r[k]].kind = g.nodes[r[k]].kind
        /\ g.nodes[r[k]].kind = "upmix" => u.nodes[r[k]].on = g.nodes[r[k]].on
        /\ u.nodes[r[k]].suspended = FALSE
    BY <1>1, <2>1 DEF Kin
  <2>4. Upmixes(h, k) <=> Active(h.nodes[r[k]]) /\ h.nodes[r[k]].kind = "upmix"
    BY <1>7 DEF Upmixes, Kin, r
  <2>5. Upmixes(u, k) <=> Active(u.nodes[r[k]]) /\ u.nodes[r[k]].kind = "upmix"
    BY <1>2 DEF Upmixes
  <2>6. QED
    BY <2>2, <2>3, <2>4, <2>5 DEF Active
<1>9. ASSUME NEW k \in 1..n, Upmixes(h, k) PROVE c = 2 /\ Leads(h, k)
  <2>1. Upmixes(u, k) /\ r[k] \notin X
    BY <1>8, <1>9
  <2>2. c = 2 /\ Leads(u, k)
    BY <1>5, <2>1
  <2>3. \A i \in 1..k - 1 : i \in 1..n
    BY <1>2
  <2>4. Leads(h, k)
    BY <1>8, <2>2, <2>3 DEF Leads
  <2>5. QED
    BY <2>2, <2>4
<1>10. MatricesLast(h, Rack(h))
  BY <1>7, KinMatrices
<1>11. Conflicts(h, c) = Refusers(h, c)
  BY <1>7, <1>10, ConflictsAre
<1>12. Refusers(h, c) = {r[k] : k \in {j \in 1..n : Upmixes(h, j) /\ ~(c = 2 /\ Leads(h, j))}}
  BY <1>7 DEF Refusers, Kin
<1>13. Conflicts(h, c) = {}
  <2> HIDE DEF r, n
  <2>1. {j \in 1..n : Upmixes(h, j) /\ ~(c = 2 /\ Leads(h, j))} = {}
    BY <1>9
  <2>2. QED
    BY <1>11, <1>12, <2>1
<1>14. QED
  BY <1>6, <1>7, <1>13 DEF h, X, u

-----------------------------------------------------------------------------
(* What the dialog lists is what the live rack refuses when all are awake: *)
(* nothing that happens behind it changes that.                            *)
DialogAsks ==
  dialog # Idle /\ MatricesLast(live, Rack(live))
  => dialog.refused = Conflicts(Resumed(live), dialog.channels)

(* What a load leaves. *)
Settled(c) ==
  /\ Carries(c)
  /\ Sound(live') /\ Conflicts(live', c) = {}
  /\ (dialog' # dialog => Asleep(live) = {}) => Asleep(live') = Conflicts(Resumed(live'), c)
Loading == engine' # engine /\ MatricesLast(live', rack')
LoadSettles == Loading => \E c \in Some : Settled(c)

Awake(g) == \A id \in DOMAIN g.nodes : g.nodes[id].suspended = FALSE

LEMMA TracksSome == Tracks \subseteq Some
BY PluginRackAssumption DEF Some

LEMMA FreshIs ==
  ASSUME NEW g, Routed(g)
  PROVE  LET fresh == Updated(Resumed(g)) IN Routed(fresh) /\ Kin(g, fresh) /\ Awake(fresh)
<1> DEFINE u == Resumed(g)
           fresh == Updated(u)
<1>1. Sound(g) /\ Routed(fresh)
  BY ResumedRouted DEF Routed
<1>2. Sound(u) /\ Kin(g, u) /\ \A id \in DOMAIN g.nodes : u.nodes[id].suspended = FALSE
  BY <1>1, ResumedKin
<1> HIDE DEF u
<1>3. Kin(u, fresh) /\ Rests(u, fresh)
  BY <1>2, UpdatedKin
<1> HIDE DEF fresh
<1>4. Kin(g, fresh)
  BY <1>2, <1>3, KinOn
<1>5. Awake(fresh)
  BY <1>2, <1>3 DEF Awake, Kin, Rests
<1>6. QED
  BY <1>1, <1>4, <1>5 DEF fresh, u

LEMMA AwakeSame ==
  ASSUME NEW g, Sound(g), Awake(g), MatricesLast(g, Rack(g)), NEW c \in Some
  PROVE  Conflicts(Resumed(g), c) = Conflicts(g, c)
<1> DEFINE u == Resumed(g)
<1>1. Sound(u) /\ Kin(g, u) /\ \A id \in DOMAIN g.nodes : u.nodes[id].suspended = FALSE
  BY ResumedKin
<1> HIDE DEF u
<1>2. Rests(g, u)
  BY <1>1 DEF Rests, Awake
<1>3. QED
  BY <1>1, <1>2, KinConflicts DEF u

LEMMA AwakeAsleep ==
  ASSUME NEW g, Awake(g)
  PROVE  Asleep(g) = {}
BY DEF Awake, Asleep

(* A load of an awake rack that refuses nothing. *)
LEMMA LoadAwake ==
  ASSUME NEW g, Routed(g), Awake(g), NEW s \in Tracks, NEW c \in Tracks, Loaded(g, s, c), Shown, Conflicts(g, c) = {}
  PROVE  LoadSettles /\ Kin(g, live')
<1>1. /\ Routed(live') /\ Kin(g, live') /\ Rests(g, live')
      /\ Carries(c)
  BY LoadedKin
<1>2. Sound(g) /\ Sound(live') /\ c \in Some /\ rack' = Rack(live')
  BY <1>1, TracksSome DEF Routed, Shown
<1>3. Awake(live')
  BY <1>1 DEF Awake, Kin, Rests
<1>4. ASSUME Loading PROVE Settled(c)
  <2>1. MatricesLast(live', Rack(live')) /\ MatricesLast(g, Rack(g))
    BY <1>1, <1>2, <1>4, KinMatrices DEF Loading
  <2>2. Conflicts(live', c) = {}
    BY <1>1, <1>2, <2>1, KinConflicts
  <2>3. Conflicts(Resumed(live'), c) = {}
    BY <1>2, <1>3, <2>1, <2>2, AwakeSame
  <2>4. Asleep(live') = {}
    BY <1>3, AwakeAsleep
  <2>5. QED
    BY <1>1, <1>2, <2>2, <2>3, <2>4 DEF Settled
<1>5. QED
  BY <1>1, <1>2, <1>4 DEF LoadSettles

(* play_track_at_with_mode. *)
LEMMA AskedSettles ==
  ASSUME NEW g, Routed(g), NEW s \in Tracks, NEW c \in Tracks, Asked(g, s, c), Shown
  PROVE  LoadSettles /\ DialogAsks'
<1> DEFINE fresh == Updated(Resumed(g))
           refused == Conflicts(fresh, c)
<1>1. Routed(fresh) /\ Awake(fresh)
  BY FreshIs
<1>2. IF refused = {} THEN Loaded(fresh, s, c) /\ dialog' = Idle
      ELSE /\ live' = fresh /\ dialog' = [source |-> s, channels |-> c, refused |-> refused]
           /\ engine' = engine
  BY DEF Asked
<1> HIDE DEF fresh
<1>3. CASE refused = {}
  <2>1. LoadSettles
    BY <1>1, <1>2, <1>3, LoadAwake
  <2>2. DialogAsks'
    BY <1>2, <1>3 DEF DialogAsks
  <2>3. QED
    BY <2>1, <2>2
<1>4. CASE refused # {}
  <2>1. LoadSettles
    BY <1>2, <1>4 DEF LoadSettles, Loading
  <2>2. ASSUME MatricesLast(live', Rack(live'))
        PROVE  dialog'.refused = Conflicts(Resumed(live'), dialog'.channels)
    <3>1. live' = fresh /\ dialog'.refused = Conflicts(fresh, c) /\ dialog'.channels = c
      BY <1>2, <1>4
    <3>2. Conflicts(Resumed(fresh), c) = Conflicts(fresh, c)
      BY <1>1, <2>2, <3>1, TracksSome, AwakeSame DEF Routed
    <3>3. QED
      BY <3>1, <3>2
  <2>3. QED
    BY <2>1, <2>2 DEF DialogAsks
<1>5. QED
  BY <1>3, <1>4

(* A load after suspending what the awake rack refuses, others may be suspended already. *)
LEMMA LoadSuspended ==
  ASSUME NEW g, Routed(g), NEW X, NEW s \in Tracks, NEW c \in Tracks,
         Loaded(Updated(Suspended(g, X)), s, c), Shown
  PROVE  /\ Kin(g, live') /\ Routed(live') /\ Carries(c)
         /\ Loading => MatricesLast(g, Rack(g))
         /\ Loading /\ X = Conflicts(Resumed(g), c) =>
              /\ Conflicts(live', c) = {}
              /\ Awake(g) => Asleep(live') = Conflicts(Resumed(live'), c)
<1> DEFINE h == Suspended(g, X)
           k == Updated(h)
<1>1. Sound(g) /\ c \in Some /\ rack' = Rack(live')
  BY TracksSome DEF Routed, Shown
<1>2. Sound(h) /\ Kin(g, h)
  BY <1>1, SuspendedAny
<1>3. Routed(k)
  BY SuspendedRouted
<1>4. Loaded(k, s, c)
  OBVIOUS
<1> HIDE DEF h
<1>5. Kin(h, k) /\ Rests(h, k)
  BY <1>2, UpdatedKin
<1> HIDE DEF k
<1>6. /\ Routed(live') /\ Kin(k, live') /\ Rests(k, live')
      /\ Carries(c)
  BY <1>3, <1>4, LoadedKin
<1>7. Kin(h, live') /\ Rests(h, live')
  BY <1>5, <1>6, KinOn
<1>8. Kin(g, live')
  BY <1>2, <1>7, KinOn
<1>9. Loading => MatricesLast(g, Rack(g))
  BY <1>1, <1>8, KinMatrices DEF Loading
<1>10. ASSUME Loading, X = Conflicts(Resumed(g), c)
       PROVE  /\ Conflicts(live', c) = {}
              /\ Awake(g) => Asleep(live') = Conflicts(Resumed(live'), c)
  <2>1. MatricesLast(g, Rack(g))
    BY <1>9, <1>10
  <2>2. /\ Conflicts(h, c) = {} /\ X \subseteq DOMAIN g.nodes
        /\ \A id \in DOMAIN g.nodes : h.nodes[id].suspended <=> g.nodes[id].suspended \/ id \in X
    BY <1>1, <1>10, <2>1, SuspendedKin DEF h
  <2>3. MatricesLast(h, Rack(h))
    BY <1>1, <1>2, <2>1, KinMatrices
  <2>4. Conflicts(live', c) = {}
    BY <1>1, <1>2, <1>6, <1>7, <2>2, <2>3, KinConflicts DEF Routed
  <2>5. Conflicts(Resumed(live'), c) = X
    BY <1>1, <1>6, <1>8, <1>10, <2>1, AwakeConflicts DEF Routed
  <2>6. ASSUME Awake(g) PROVE Asleep(live') = X
    <3>1. \A id \in DOMAIN g.nodes : live'.nodes[id].suspended <=> id \in X
      BY <1>2, <1>7, <2>2, <2>6 DEF Kin, Rests, Awake
    <3>2. DOMAIN live'.nodes = DOMAIN g.nodes
      BY <1>8 DEF Kin
    <3>3. QED
      BY <2>2, <3>1, <3>2 DEF Asleep
  <2>7. QED
    BY <2>4, <2>5, <2>6
<1>11. QED
  BY <1>6, <1>8, <1>9, <1>10

LEMMA PlaySettles == RackInv /\ Play => LoadSettles /\ DialogAsks'
<1> SUFFICES ASSUME RackInv, Play PROVE LoadSettles /\ DialogAsks'
  OBVIOUS
<1>1. PICK channels \in Tracks : Asked(live, channels, channels)
  BY DEF Play
<1>2. Routed(live) /\ Shown
  BY DEF RackInv, Play
<1>3. QED
  BY <1>1, <1>2, AskedSettles

LEMMA AdvanceSettles == RackInv /\ DialogAsks /\ Advance => LoadSettles /\ DialogAsks'
<1> SUFFICES ASSUME RackInv, DialogAsks, Advance PROVE LoadSettles /\ DialogAsks'
  OBVIOUS
<1> DEFINE fresh == Updated(Resumed(live))
<1>1. PICK channels \in Tracks :
        LET refused == Conflicts(fresh, channels)
        IN Loaded(IF refused = {} THEN fresh ELSE Updated(Suspended(fresh, refused)), channels, channels)
  BY DEF Advance
<1>2. Shown /\ dialog' = dialog /\ Routed(live) /\ rack = Rack(live)
  BY DEF Advance, RackInv
<1>3. Routed(fresh) /\ Kin(live, fresh) /\ Awake(fresh)
  BY <1>2, FreshIs
<1> HIDE DEF fresh
<1> DEFINE refused == Conflicts(fresh, channels)
<1>4. IF refused = {} THEN Loaded(fresh, channels, channels) ELSE Loaded(Updated(Suspended(fresh, refused)), channels, channels)
  BY <1>1
<1>5. LoadSettles /\ Kin(fresh, live') /\ Sound(live')
  <2>1. CASE refused = {}
    <3>1. Loaded(fresh, channels, channels)
      BY <1>4, <2>1
    <3>2. LoadSettles /\ Kin(fresh, live')
      BY <1>2, <1>3, <2>1, <3>1, LoadAwake
    <3>3. Routed(live')
      BY <1>3, <3>1, LoadedRouted
    <3>4. QED
      BY <3>2, <3>3 DEF Routed
  <2>2. CASE refused # {}
    <3>1. Loaded(Updated(Suspended(fresh, refused)), channels, channels)
      BY <1>4, <2>2
    <3> HIDE DEF refused
    <3>2. /\ Kin(fresh, live') /\ Routed(live') /\ Carries(channels)
          /\ Loading => MatricesLast(fresh, Rack(fresh))
          /\ Loading /\ refused = Conflicts(Resumed(fresh), channels) =>
               /\ Conflicts(live', channels) = {}
               /\ Awake(fresh) => Asleep(live') = Conflicts(Resumed(live'), channels)
      BY <1>2, <1>3, <3>1, LoadSuspended
    <3>3. Loading => Conflicts(Resumed(fresh), channels) = refused
      BY <1>3, <3>2, TracksSome, AwakeSame DEF Routed, refused
    <3>4. Loading => Settled(channels)
      BY <1>3, <3>2, <3>3 DEF Settled, Routed
    <3>5. QED
      BY <3>2, <3>4, TracksSome DEF LoadSettles, Routed
  <2>3. QED
    BY <2>1, <2>2
<1>6. Sound(live) /\ Kin(live, live')
  BY <1>2, <1>3, <1>5, KinOn DEF Routed
<1>7. ASSUME dialog' # Idle, MatricesLast(live', Rack(live'))
      PROVE  dialog'.refused = Conflicts(Resumed(live'), dialog'.channels)
  <2>1. MatricesLast(live, Rack(live))
    BY <1>6, <1>7, KinMatrices
  <2>2. dialog.refused = Conflicts(Resumed(live), dialog.channels) /\ dialog.channels \in Some
    BY <1>2, <1>7, <2>1, TracksSome DEF DialogAsks, RackInv, Conflict
  <2>3. Conflicts(Resumed(live'), dialog.channels) = Conflicts(Resumed(live), dialog.channels)
    BY <1>5, <1>6, <2>1, <2>2, AwakeConflicts
  <2>4. QED
    BY <1>2, <2>2, <2>3
<1>8. QED
  BY <1>5, <1>7 DEF DialogAsks

LEMMA SuspendByKeySettles == RackInv /\ DialogAsks /\ SuspendByKey => LoadSettles /\ DialogAsks'
<1> SUFFICES ASSUME RackInv, DialogAsks, SuspendByKey PROVE LoadSettles /\ DialogAsks'
  OBVIOUS
<1> DEFINE X == dialog.refused
           c == dialog.channels
           s == dialog.source
<1>1. /\ dialog # Idle /\ dialog' = Idle /\ Shown
      /\ Loaded(Updated(Suspended(live, X)), s, c)
  BY DEF SuspendByKey
<1>2. c \in Tracks /\ s \in Tracks /\ Routed(live) /\ Sound(live)
  BY <1>1 DEF RackInv, Conflict, Routed
<1> HIDE DEF X, c, s
<1>3. /\ Routed(live') /\ Carries(c)
      /\ Loading => MatricesLast(live, Rack(live))
      /\ Loading /\ X = Conflicts(Resumed(live), c) =>
           /\ Conflicts(live', c) = {}
           /\ Awake(live) => Asleep(live') = Conflicts(Resumed(live'), c)
  BY <1>1, <1>2, LoadSuspended
<1>4. Loading => X = Conflicts(Resumed(live), c)
  BY <1>1, <1>3 DEF DialogAsks, X, c
<1>5. Asleep(live) = {} => Awake(live)
  <2>1. \A id \in DOMAIN live.nodes : live.nodes[id].suspended \in BOOLEAN
    BY <1>2 DEF Sound, Graph, GraphsOn, Node
  <2>2. QED
    BY <2>1 DEF Asleep, Awake
<1>6. Loading => Settled(c)
  BY <1>1, <1>3, <1>4, <1>5 DEF Settled, Routed
<1>7. LoadSettles
  BY <1>2, <1>6, TracksSome DEF LoadSettles
<1>8. QED
  BY <1>1, <1>7 DEF DialogAsks

LEMMA SuspendByButtonSettles == RackInv /\ SuspendByButton => LoadSettles /\ DialogAsks'
<1> SUFFICES ASSUME RackInv, SuspendByButton PROVE LoadSettles /\ DialogAsks'
  OBVIOUS
<1> DEFINE g == Updated(Suspended(live, dialog.refused))
<1>1. Asked(g, dialog.source, track) /\ Shown /\ track \in Tracks /\ dialog.source \in Tracks
  BY DEF SuspendByButton, RackInv, Conflict
<1>2. Routed(g)
  BY SuspendedRouted DEF RackInv
<1> HIDE DEF g
<1>3. QED
  BY <1>1, <1>2, AskedSettles

LEMMA RemoveByButtonSettles == RackInv /\ RemoveByButton => LoadSettles /\ DialogAsks'
<1> SUFFICES ASSUME RackInv, RemoveByButton PROVE LoadSettles /\ DialogAsks'
  OBVIOUS
<1> DEFINE g == RemoveListed(live)
<1>1. Asked(g, dialog.source, track) /\ Shown /\ track \in Tracks /\ dialog.source \in Tracks
  BY DEF RemoveByButton, RackInv, Conflict
<1>2. Routed(g)
  BY RemoveListedRouted DEF RackInv
<1> HIDE DEF g
<1>3. QED
  BY <1>1, <1>2, AskedSettles

(* Nothing else loads a track or is done behind the dialog. *)
LEMMA OthersSettle ==
  ASSUME RackInv, DialogAsks, engine' = engine \/ pending' # pending,
         dialog' = Idle \/ (dialog' = dialog /\ live' = live)
  PROVE  (LoadSettles \/ pending' # pending) /\ DialogAsks'
<1>1. LoadSettles \/ pending' # pending
  BY DEF LoadSettles, Loading
<1>2. DialogAsks'
  BY DEF DialogAsks
<1>3. QED
  BY <1>1, <1>2

LEMMA StepSettles ==
  RackInv /\ DialogAsks /\ [Next]_vars => (LoadSettles \/ pending' # pending) /\ DialogAsks'
<1> SUFFICES ASSUME RackInv, DialogAsks, [Next]_vars
             PROVE  (LoadSettles \/ pending' # pending) /\ DialogAsks'
  OBVIOUS
<1> DEFINE Quiet == /\ engine' = engine \/ pending' # pending
                    /\ dialog' = Idle \/ (dialog' = dialog /\ live' = live)
<1>1. ASSUME NEW g, EditRack(g) PROVE Quiet
  BY <1>1, Zenon DEF EditRack
<1>2. ASSUME NEW g, EditDraft(g) PROVE Quiet
  BY <1>2, Zenon DEF EditDraft
<1>3. CASE AddPlugin \/ RemovePlugin \/ MovePlugin \/ TogglePlugin \/ ClearPlugins
  <2> HIDE DEF Quiet
  <2>1. \E g : EditRack(g)
    BY <1>3 DEF AddPlugin, RemovePlugin, MovePlugin, TogglePlugin, ClearPlugins
  <2>2. QED
    BY <1>1, <2>1, OthersSettle DEF Quiet
<1>4. CASE DraftStep
  <2> HIDE DEF Quiet
  <2>1. \E g : EditDraft(g)
    BY <1>4 DEF DraftStep, Connect, Disconnect, DropNode, PlaceNode, ToggleNode
  <2>2. QED
    BY <1>2, <2>1, OthersSettle DEF Quiet
<1>5. CASE OpenDraft \/ ApplyDraft \/ DiscardDraft \/ Cancel \/ Tick \/ UNCHANGED vars
  <2>1. Quiet
    BY <1>5, Zenon DEF OpenDraft, ApplyDraft, DiscardDraft, Cancel, Tick, vars
  <2>2. QED
    BY <2>1, OthersSettle
<1>6. CASE Play \/ Advance \/ SuspendByKey \/ SuspendByButton \/ RemoveByButton
  BY <1>6, PlaySettles, AdvanceSettles, SuspendByKeySettles, SuspendByButtonSettles, RemoveByButtonSettles
<1>7. QED
  BY <1>3, <1>4, <1>5, <1>6 DEF Next

LEMMA DialogAlways == Spec => [](RackInv /\ DialogAsks)
<1>1. Init => DialogAsks
  BY DEF Init, DialogAsks
<1>2. QED
  BY <1>1, RackInit, RackStep, StepSettles, PTL DEF Spec

LEMMA SettledFits ==
  ASSUME RackInv, DialogAsks, [Next]_vars
  PROVE  /\ Load => ~Clash(engine'.channels, engine'.chain)
         /\ Load /\ Linear(live') /\ (dialog' # dialog => Asleep(live) = {})
            => Asleep(live') = Conflicts(Resumed(live'), engine'.channels)
<1> SUFFICES ASSUME Load
             PROVE  /\ ~Clash(engine'.channels, engine'.chain)
                    /\ (dialog' # dialog => Asleep(live) = {})
                       => Asleep(live') = Conflicts(Resumed(live'), engine'.channels)
  OBVIOUS
<1>1. Loading /\ pending' = pending /\ MatricesLast(live', rack')
  BY DEF Load, Loading
<1>2. PICK c \in Some : Settled(c)
  BY <1>1, StepSettles DEF LoadSettles
<1>3. engine'.channels = c /\ engine'.chain = Chain(live') /\ Sound(live') /\ Conflicts(live', c) = {}
  BY <1>2 DEF Settled, Carries
<1>4. rack' = Rack(live')
  BY RackStep DEF RackInv
<1>5. ~Clash(c, Chain(live'))
  BY <1>1, <1>3, <1>4, NoClash
<1>6. (dialog' # dialog => Asleep(live) = {}) => Asleep(live') = Conflicts(Resumed(live'), c)
  BY <1>2 DEF Settled
<1>7. QED
  BY <1>3, <1>5, <1>6

(* Only an answered dialog fits what it loads to other channels than its own. *)
LEMMA AskedFor ==
  ASSUME NEW g, NEW s, NEW c, Asked(g, s, c), Load
  PROVE  engine'.source = s /\ engine'.channels = c
<1> DEFINE fresh == Updated(Resumed(g))
<1>1. Loaded(fresh, s, c) \/ engine' = engine
  BY DEF Asked
<1> HIDE DEF fresh
<1>2. Loaded(fresh, s, c)
  BY <1>1 DEF Load
<1>3. QED
  BY <1>2 DEF Loaded

LEMMA LoadsItsOwn ==
  ASSUME Next, Load, engine'.channels # engine'.source
  PROVE  Overtaken
<1>1. CASE Play
  <2>1. PICK c \in Tracks : Asked(live, c, c)
    BY <1>1 DEF Play
  <2>2. QED
    BY <2>1, AskedFor
<1>2. CASE Advance
  BY <1>2 DEF Advance, Loaded
<1>3. CASE SuspendByKey
  <2>1. dialog # Idle /\ engine'.source = dialog.source /\ engine'.channels = dialog.channels
    BY <1>3 DEF SuspendByKey, Loaded
  <2>2. QED
    BY <2>1 DEF Overtaken
<1>4. CASE SuspendByButton \/ RemoveByButton
  <2>1. dialog # Idle /\ \E g : Asked(g, dialog.source, track)
    BY <1>4 DEF SuspendByButton, RemoveByButton
  <2>2. engine'.source = dialog.source /\ engine'.channels = track
    BY <2>1, AskedFor
  <2>3. QED
    BY <2>1, <2>2 DEF Overtaken
<1>5. ASSUME NEW g, EditRack(g) PROVE FALSE
  BY <1>5, Zenon DEF EditRack, Load
<1>6. ASSUME NEW g, EditDraft(g) PROVE FALSE
  BY <1>6, Zenon DEF EditDraft, Load
<1>7. CASE AddPlugin \/ RemovePlugin \/ MovePlugin \/ TogglePlugin \/ ClearPlugins
  <2>1. \E g : EditRack(g)
    BY <1>7 DEF AddPlugin, RemovePlugin, MovePlugin, TogglePlugin, ClearPlugins
  <2>2. QED
    BY <1>5, <2>1
<1>8. CASE DraftStep
  <2>1. \E g : EditDraft(g)
    BY <1>8 DEF DraftStep, Connect, Disconnect, DropNode, PlaceNode, ToggleNode
  <2>2. QED
    BY <1>6, <2>1
<1>9. CASE OpenDraft \/ ApplyDraft \/ DiscardDraft \/ Cancel
  BY <1>9, Zenon DEF OpenDraft, ApplyDraft, DiscardDraft, Cancel, Load
<1>10. CASE Tick
  <2>1. pending /\ pending' = FALSE /\ pending' = pending
    BY <1>10, Zenon DEF Tick, Load
  <2>2. QED
    BY <2>1
<1>11. QED
  BY <1>1, <1>2, <1>3, <1>4, <1>7, <1>8, <1>9, <1>10 DEF Next

-----------------------------------------------------------------------------
(* The list behind the rack.  Sequences first: pieces, and what InsertAt   *)
(* and RemoveAt return.                                                    *)
LEMMA JoinedAt ==
  ASSUME NEW S, NEW s \in Seq(S), NEW t \in Seq(S), NEW m, NEW n, m = Len(s), n = Len(t)
  PROVE  /\ s \o t \in Seq(S) /\ Len(s \o t) = m + n
         /\ \A j \in 1..m : (s \o t)[j] = s[j]
         /\ \A j \in 1..n : (s \o t)[m + j] = t[j]
<1>1. m \in Nat /\ n \in Nat
  BY LenProperties
<1>2. /\ s \o t \in Seq(S) /\ Len(s \o t) = m + n
      /\ \A i \in 1..(m + n) : (s \o t)[i] = IF i <= m THEN s[i] ELSE t[i - m]
  BY ConcatProperties
<1>3. ASSUME NEW j \in 1..m PROVE (s \o t)[j] = s[j]
  BY <1>1, <1>2
<1>4. ASSUME NEW j \in 1..n PROVE (s \o t)[m + j] = t[j]
  <2>1. m + j \in 1..(m + n) /\ ~(m + j <= m) /\ (m + j) - m = j
    BY <1>1
  <2>2. QED
    BY <1>2, <2>1
<1>5. QED
  BY <1>2, <1>3, <1>4

LEMMA Piece ==
  ASSUME NEW S, NEW s \in Seq(S), NEW m \in 1..(Len(s) + 1), NEW n \in (m - 1)..Len(s)
  PROVE  /\ SubSeq(s, m, n) \in Seq(S)
         /\ Len(SubSeq(s, m, n)) = n - m + 1
         /\ \A j \in 1..(n - m + 1) : SubSeq(s, m, n)[j] = s[m + j - 1]
<1>1. Len(s) \in Nat /\ m \in Int /\ n \in Int
  BY LenProperties
<1>2. \A i \in m..n : s[i] \in S
  BY <1>1, ElementOfSeq
<1>3. /\ SubSeq(s, m, n) \in Seq(S)
      /\ Len(SubSeq(s, m, n)) = IF m <= n THEN n - m + 1 ELSE 0
      /\ \A i \in 1..(n - m + 1) : SubSeq(s, m, n)[i] = s[m + i - 1]
  BY <1>1, <1>2, SubSeqProperties
<1>4. (IF m <= n THEN n - m + 1 ELSE 0) = n - m + 1
  BY <1>1
<1>5. QED
  BY <1>3, <1>4

LEMMA InsertAtIs ==
  ASSUME NEW S, NEW s \in Seq(S), NEW i \in 1..(Len(s) + 1), NEW e \in S
  PROVE  /\ InsertAt(s, i, e) \in Seq(S) /\ Len(InsertAt(s, i, e)) = Len(s) + 1
         /\ \A j \in 1..(i - 1) : InsertAt(s, i, e)[j] = s[j]
         /\ InsertAt(s, i, e)[i] = e
         /\ \A j \in i..Len(s) : InsertAt(s, i, e)[j + 1] = s[j]
<1> DEFINE front == SubSeq(s, 1, i - 1)
           most  == front \o <<e>>
           back  == SubSeq(s, i, Len(s))
<1>1. Len(s) \in Nat /\ i \in Nat /\ i >= 1
  BY LenProperties
<1>2. front \in Seq(S) /\ Len(front) = i - 1 /\ \A j \in 1..(i - 1) : front[j] = s[1 + j - 1]
  BY <1>1, Piece, 1 \in 1..(Len(s) + 1), i - 1 \in (1 - 1)..Len(s)
<1>3. /\ back \in Seq(S) /\ Len(back) = Len(s) - i + 1
      /\ \A j \in 1..(Len(s) - i + 1) : back[j] = s[i + j - 1]
  BY <1>1, Piece
<1>4. InsertAt(s, i, e) = most \o back
  BY DEF InsertAt
<1> HIDE DEF front, most, back
<1>5. /\ most \in Seq(S) /\ Len(most) = i /\ most[i] = e
      /\ \A j \in 1..(i - 1) : most[j] = s[j]
  <2>1. <<e>> \in Seq(S) /\ Len(<<e>>) = 1 /\ <<e>>[1] = e
    OBVIOUS
  <2>2. /\ front \o <<e>> \in Seq(S) /\ Len(front \o <<e>>) = (i - 1) + 1
        /\ \A j \in 1..(i - 1) : (front \o <<e>>)[j] = front[j]
        /\ \A j \in 1..1 : (front \o <<e>>)[(i - 1) + j] = <<e>>[j]
    BY <1>1, <1>2, <2>1, JoinedAt
  <2>3. (i - 1) + 1 = i
    BY <1>1
  <2>4. ASSUME NEW j \in 1..(i - 1) PROVE front[j] = s[j]
    BY <1>1, <1>2, 1 + j - 1 = j
  <2>5. QED
    BY <2>1, <2>2, <2>3, <2>4, 1 \in 1..1 DEF most
<1>6. /\ most \o back \in Seq(S) /\ Len(most \o back) = i + (Len(s) - i + 1)
      /\ \A j \in 1..i : (most \o back)[j] = most[j]
      /\ \A j \in 1..(Len(s) - i + 1) : (most \o back)[i + j] = back[j]
  BY <1>1, <1>3, <1>5, JoinedAt
<1>7. ASSUME NEW j \in i..Len(s) PROVE (most \o back)[j + 1] = s[j]
  <2>1. PICK k \in 1..(Len(s) - i + 1) : i + k = j + 1 /\ i + k - 1 = j
    BY <1>1, j - i + 1 \in 1..(Len(s) - i + 1)
  <2>2. (most \o back)[i + k] = back[k] /\ back[k] = s[i + k - 1]
    BY <1>3, <1>6, Zenon
  <2>3. QED
    BY <2>1, <2>2
<1>8. ASSUME NEW j \in 1..(i - 1) PROVE (most \o back)[j] = s[j]
  BY <1>1, <1>5, <1>6, j \in 1..i
<1>9. (most \o back)[i] = e
  BY <1>1, <1>5, <1>6, i \in 1..i
<1>10. i + (Len(s) - i + 1) = Len(s) + 1
  BY <1>1
<1>11. QED
  BY <1>4, <1>6, <1>7, <1>8, <1>9, <1>10

LEMMA RemoveAtIs ==
  ASSUME NEW S, NEW s \in Seq(S), NEW i \in 1..Len(s)
  PROVE  /\ RemoveAt(s, i) \in Seq(S) /\ Len(RemoveAt(s, i)) = Len(s) - 1
         /\ \A j \in 1..(i - 1) : RemoveAt(s, i)[j] = s[j]
         /\ \A j \in i..(Len(s) - 1) : RemoveAt(s, i)[j] = s[j + 1]
<1> DEFINE front == SubSeq(s, 1, i - 1)
           back  == SubSeq(s, i + 1, Len(s))
           m == i - 1
           n == Len(s) - i
<1>1. Len(s) \in Nat /\ i \in Nat /\ i >= 1 /\ m \in Nat /\ n \in Nat /\ m + n = Len(s) - 1
  BY LenProperties
<1>2. front \in Seq(S) /\ Len(front) = m /\ \A j \in 1..m : front[j] = s[1 + j - 1]
  <2>1. 1 \in 1..(Len(s) + 1) /\ m \in (1 - 1)..Len(s) /\ m - 1 + 1 = m
    BY <1>1
  <2> HIDE DEF m
  <2>2. /\ SubSeq(s, 1, m) \in Seq(S) /\ Len(SubSeq(s, 1, m)) = m - 1 + 1
        /\ \A j \in 1..(m - 1 + 1) : SubSeq(s, 1, m)[j] = s[1 + j - 1]
    BY <2>1, Piece
  <2>3. QED
    BY <2>1, <2>2 DEF m
<1>3. back \in Seq(S) /\ Len(back) = n /\ \A j \in 1..n : back[j] = s[i + j]
  <2>1. /\ back \in Seq(S) /\ Len(back) = Len(s) - (i + 1) + 1
        /\ \A j \in 1..(Len(s) - (i + 1) + 1) : back[j] = s[(i + 1) + j - 1]
    <3> DEFINE p == i + 1
    <3>1. p \in 1..(Len(s) + 1) /\ Len(s) \in (p - 1)..Len(s)
      BY <1>1
    <3> HIDE DEF p
    <3>2. /\ SubSeq(s, p, Len(s)) \in Seq(S) /\ Len(SubSeq(s, p, Len(s))) = Len(s) - p + 1
          /\ \A j \in 1..(Len(s) - p + 1) : SubSeq(s, p, Len(s))[j] = s[p + j - 1]
      BY <3>1, Piece
    <3>3. QED
      BY <3>2 DEF p
  <2>2. Len(s) - (i + 1) + 1 = n /\ \A j \in 1..n : (i + 1) + j - 1 = i + j
    BY <1>1
  <2>3. QED
    BY <2>1, <2>2
<1>4. RemoveAt(s, i) = front \o back
  BY DEF RemoveAt
<1> HIDE DEF front, back, m, n
<1>5. /\ front \o back \in Seq(S) /\ Len(front \o back) = m + n
      /\ \A j \in 1..m : (front \o back)[j] = front[j]
      /\ \A j \in 1..n : (front \o back)[m + j] = back[j]
  BY <1>2, <1>3, JoinedAt
<1>6. ASSUME NEW j \in i..(Len(s) - 1) PROVE (front \o back)[j] = s[j + 1]
  <2>1. PICK k \in 1..n : m + k = j /\ i + k = j + 1
    BY <1>1, j - i + 1 \in 1..n DEF m, n
  <2>2. (front \o back)[m + k] = back[k] /\ back[k] = s[i + k]
    BY <1>3, <1>5, Zenon
  <2>3. QED
    BY <2>1, <2>2
<1>7. ASSUME NEW j \in 1..(i - 1) PROVE (front \o back)[j] = s[j]
  BY <1>1, <1>2, <1>5, 1 + j - 1 = j DEF m
<1>8. QED
  BY <1>1, <1>4, <1>5, <1>6, <1>7

(* A plugin put between two neighbours of a path. *)
Widened(s, j, id) == [i \in 1..Len(s) + 1 |-> IF i < j THEN s[i] ELSE IF i = j THEN id ELSE s[i - 1]]

LEMMA PlacedLinks ==
  ASSUME NEW g, Sound(g), NEW id, NEW kind
  PROVE  Links(Placed(g, id, kind)) = Links(g)
<1>1. Placed(g, id, kind).wires = g.wires
  BY DEF Placed, Sound, Graph, GraphsOn
<1>2. QED
  BY <1>1 DEF Links

LEMMA InsertedIs ==
  ASSUME NEW g, Sound(g), NEW s, Path(g, s), NEW j \in 2..Len(s),
         NEW id \in Users \ DOMAIN g.nodes, NEW kind \in Kinds
  PROVE  LET h == Inserted(g, id, kind, s[j - 1], s[j])
         IN Sound(h) /\ Path(h, Widened(s, j, id))
<1> DEFINE n == Len(s)
           from == s[j - 1]
           to == s[j]
           a == Parted(g, {<<from, to>>})
           b == Placed(a, id, kind)
           c == Joined(b, from, id)
           d == Joined(c, id, to)
           t == Widened(s, j, id)
<1>1. n \in Nat /\ n >= 2 /\ s[1] = "Input" /\ s[n] = "Output"
  BY OnPath
<1>2. \A k \in 1..n : s[k] \in Ids(g)
  BY OnPath
<1>3. \A i, k \in 1..n : s[i] = s[k] => i = k
  BY OnPath
<1>4. \A x \in Ids(g) : \E k \in 1..n : s[k] = x
  BY OnPath
<1>5. \A x, y : <<x, y>> \in Links(g) => \E k \in 1..n - 1 : x = s[k] /\ y = s[k + 1]
  BY OnPath
<1>6. \A k \in 1..n - 1 : <<s[k], s[k + 1]>> \in Links(g)
  BY OnPath
<1> DEFINE p == j - 1
<1>7. p \in 1..n - 1 /\ p + 1 = j /\ j \in 1..n /\ p \in 1..n /\ 1 \in 1..n /\ n \in 1..n /\ p # n /\ p # j /\ n + 1 \in Nat
  BY <1>1
<1>8. Inserted(g, id, kind, from, to) = d
  BY DEF Inserted
<1> HIDE DEF n
<1>9. id \notin Ids(g) /\ id # "Output" /\ id # "Input"
  BY PluginGraphAssumption DEF Ids, Special
<1>10. from \in Ids(g) /\ to \in Ids(g) /\ from # "Output" /\ from # id /\ to # id
  BY <1>1, <1>2, <1>3, <1>7, <1>9
<1> HIDE DEF p
<1>11. Sound(a) /\ a.nodes = g.nodes /\ Ids(a) = Ids(g) /\ Links(a) = Links(g) \ {<<from, to>>}
  BY PartedSound
<1> HIDE DEF a
<1>12. Sound(b) /\ Ids(b) = Ids(g) \cup {id} /\ Links(b) = Links(a)
  BY <1>11, PlacedSound, PlacedLinks
<1> HIDE DEF b
<1>13. ~MakesCycle(b, from, id)
  <2> DEFINE C == {id}
  <2>1. ASSUME NEW x, NEW y, <<x, y>> \in Links(b), x \in C PROVE y \in C
    <3>1. <<x, y>> \in Links(g)
      BY <1>11, <1>12, <2>1
    <3>2. PICK k \in 1..n - 1 : x = s[k]
      BY <1>5, <3>1
    <3>3. x \in Ids(g)
      BY <1>1, <1>2, <3>2
    <3>4. QED
      BY <1>9, <2>1, <3>3
  <2>2. id \in C /\ from \notin C
    BY <1>10
  <2> HIDE DEF C
  <2>3. ReachedFrom(b, id) \subseteq C
    BY <1>12, <2>1, <2>2, ReachBounded DEF Sound
  <2>4. QED
    BY <2>2, <2>3 DEF MakesCycle
<1>14. Sound(c) /\ Ids(c) = Ids(b) /\ Links(c) = Links(b) \cup {<<from, id>>}
  BY <1>10, <1>12, <1>13, JoinedSound
<1> HIDE DEF c
<1>15. ~MakesCycle(c, id, to)
  <2> DEFINE C == {s[i] : i \in j..n}
  <2>1. to \in C /\ id \notin C
    <3>1. j \in j..n /\ \A i \in j..n : s[i] \in Ids(g)
      BY <1>2, <1>7 DEF n
    <3>2. QED
      BY <1>9, <3>1
  <2>2. ASSUME NEW x, NEW y, <<x, y>> \in Links(c), x \in C PROVE y \in C
    <3>1. PICK i \in j..n : x = s[i]
      BY <2>2
    <3>2. i \in 1..n /\ i # p
      BY <1>7, <3>1 DEF n
    <3>3. x # from
      BY <1>3, <1>7, <3>1, <3>2 DEF p
    <3>4. <<x, y>> \in Links(g)
      BY <1>11, <1>12, <1>14, <2>2, <3>3
    <3>5. PICK k \in 1..n - 1 : x = s[k] /\ y = s[k + 1]
      BY <1>5, <3>4
    <3>6. k \in 1..n
      BY <1>1
    <3>7. k = i
      BY <1>3, <3>1, <3>2, <3>5, <3>6
    <3>8. k + 1 \in j..n
      BY <1>1, <1>7, <3>7
    <3>9. QED
      BY <3>5, <3>8
  <2> HIDE DEF C
  <2>3. ReachedFrom(c, to) \subseteq C
    BY <1>14, <2>1, <2>2, ReachBounded DEF Sound
  <2>4. QED
    BY <2>1, <2>3 DEF MakesCycle
<1>16. Sound(d) /\ Ids(d) = Ids(g) \cup {id} /\ Links(d) = (Links(g) \ {<<from, to>>}) \cup {<<from, id>>, <<id, to>>}
  <2>1. id \in Ids(c) /\ to \in Ids(c) /\ id # "Output" /\ Sound(c) /\ ~MakesCycle(c, id, to)
    BY <1>9, <1>10, <1>12, <1>14, <1>15
  <2> HIDE DEF d, to
  <2>2. /\ Sound(Joined(c, id, to)) /\ Ids(Joined(c, id, to)) = Ids(c)
        /\ Links(Joined(c, id, to)) = Links(c) \cup {<<id, to>>}
    BY <2>1, JoinedSound
  <2>3. d = Joined(c, id, to)
    BY DEF d
  <2>4. QED
    BY <1>11, <1>12, <1>14, <2>2, <2>3
<1> HIDE DEF d
<1>17. ASSUME NEW i \in 1..n + 1
       PROVE  t[i] = IF i < j THEN s[i] ELSE IF i = j THEN id ELSE s[i - 1]
  BY DEF Widened, n
<1>18. t \in Seq(Ids(d)) /\ Len(t) = n + 1
  <2>1. ASSUME NEW i \in 1..n + 1 PROVE t[i] \in Ids(d)
    <3>1. (i < j => i \in 1..n) /\ (~(i < j) /\ i # j => i - 1 \in 1..n)
      BY <1>1, <1>7
    <3>2. QED
      BY <1>2, <1>16, <1>17, <3>1
  <2>2. t \in [1..n + 1 -> Ids(d)]
    BY <2>1 DEF Widened, n
  <2> HIDE DEF t
  <2>3. QED
    BY <1>7, <2>2
<1>19. from = s[p] /\ to = s[j] /\ \A x, y : <<x, y>> = <<from, to>> <=> x = s[p] /\ y = s[j]
  BY DEF p
<1> HIDE DEF t, from, to
<1> DEFINE Old(i) == IF i < j THEN i ELSE i - 1
<1>20. ASSUME NEW i \in 1..n + 1, i # j PROVE Old(i) \in 1..n /\ t[i] = s[Old(i)] /\ t[i] # id
  <2>1. Old(i) \in 1..n
    BY <1>1, <1>7, <1>20
  <2>2. t[i] = s[Old(i)]
    BY <1>17, <1>20
  <2> HIDE DEF Old
  <2>3. QED
    BY <1>2, <1>9, <2>1, <2>2
<1>21. t[j] = id /\ j \in 1..n + 1
  <2>1. j \in 1..n + 1 /\ ~(j < j)
    BY <1>1, <1>7
  <2>2. QED
    BY <1>17, <2>1
<1>22. ASSUME NEW i \in 1..n + 1, NEW k \in 1..n + 1, t[i] = t[k] PROVE i = k
  <2>1. CASE i = j \/ k = j
    BY <1>20, <1>21, <1>22, <2>1
  <2>2. CASE i # j /\ k # j
    <3>1. Old(i) = Old(k)
      <4> HIDE DEF Old
      <4>1. QED
        BY <1>3, <1>20, <1>22, <2>2
    <3>2. QED
      BY <1>7, <2>2, <3>1
  <2>3. QED
    BY <2>1, <2>2
<1>23. ASSUME NEW x \in Ids(d) PROVE \E i \in 1..n + 1 : t[i] = x
  <2>1. CASE x = id
    BY <1>21, <2>1
  <2>2. CASE x # id
    <3>1. PICK k \in 1..n : s[k] = x
      BY <1>4, <1>16, <2>2
    <3>2. CASE k < j
      <4>1. k \in 1..n + 1
        BY <1>1
      <4>2. QED
        BY <1>17, <3>1, <3>2, <4>1
    <3>3. CASE ~(k < j)
      <4>1. k + 1 \in 1..n + 1 /\ ~(k + 1 < j) /\ k + 1 # j /\ (k + 1) - 1 = k
        BY <1>1, <1>7, <3>3
      <4>2. QED
        BY <1>17, <3>1, <4>1
    <3>4. QED
      BY <3>2, <3>3
  <2>3. QED
    BY <2>1, <2>2
<1>24. t[p] = from /\ t[j + 1] = to
  <2>1. p \in 1..n + 1 /\ p < j /\ j + 1 \in 1..n + 1 /\ ~(j + 1 < j) /\ j + 1 # j /\ (j + 1) - 1 = j
    BY <1>1, <1>7
  <2>2. QED
    BY <1>17, <1>19, <2>1
<1>25. ASSUME NEW x, NEW y, <<x, y>> \in Links(d) PROVE \E i \in 1..(n + 1) - 1 : x = t[i] /\ y = t[i + 1]
  <2>1. CASE <<x, y>> = <<from, id>>
    <3>1. p \in 1..(n + 1) - 1 /\ p + 1 = j
      BY <1>1, <1>7
    <3>2. t[p] = from /\ t[p + 1] = id
      BY <1>21, <1>24, <3>1
    <3>3. QED
      BY <2>1, <3>1, <3>2
  <2>2. CASE <<x, y>> = <<id, to>>
    <3>1. j \in 1..(n + 1) - 1
      BY <1>1, <1>7
    <3>2. QED
      BY <1>21, <1>24, <2>2, <3>1
  <2>3. CASE <<x, y>> \in Links(g) /\ <<x, y>> # <<from, to>>
    <3>1. PICK k \in 1..n - 1 : x = s[k] /\ y = s[k + 1]
      BY <1>5, <2>3
    <3>2. k # p
      BY <1>7, <1>19, <2>3, <3>1
    <3>3. CASE k < p
      <4>1. k \in 1..(n + 1) - 1 /\ k \in 1..n + 1 /\ k + 1 \in 1..n + 1 /\ k < j /\ k + 1 < j
        BY <1>1, <1>7, <3>3
      <4>2. t[k] = s[k] /\ t[k + 1] = s[k + 1]
        BY <1>17, <4>1
      <4>3. QED
        BY <3>1, <4>1, <4>2
    <3>4. CASE ~(k < p)
      <4> DEFINE i == k + 1
      <4>1. /\ i \in 1..(n + 1) - 1 /\ i \in 1..n + 1 /\ i + 1 \in 1..n + 1 /\ ~(i < j) /\ i # j
            /\ ~(i + 1 < j) /\ i + 1 # j /\ i - 1 = k /\ (i + 1) - 1 = k + 1
        BY <1>1, <1>7, <3>2, <3>4
      <4> HIDE DEF i
      <4>2. t[i] = s[k] /\ t[i + 1] = s[k + 1]
        BY <1>17, <4>1
      <4>3. QED
        BY <3>1, <4>1, <4>2
    <3>5. QED
      BY <3>3, <3>4
  <2>4. QED
    BY <1>16, <1>25, <2>1, <2>2, <2>3
<1>26. ASSUME NEW i \in 1..(n + 1) - 1 PROVE <<t[i], t[i + 1]>> \in Links(d)
  <2>1. i \in 1..n /\ i \in 1..n + 1 /\ i + 1 \in 1..n + 1
    BY <1>1
  <2>2. CASE i + 1 < j
    <3>1. i < j /\ i \in 1..n - 1 /\ i # p
      BY <1>7, <2>1, <2>2
    <3>2. t[i] = s[i] /\ t[i + 1] = s[i + 1]
      BY <1>17, <2>1, <2>2, <3>1
    <3>3. s[i] # s[p]
      BY <1>3, <1>7, <2>1, <3>1
    <3>4. QED
      BY <1>6, <1>16, <1>19, <3>1, <3>2, <3>3
  <2>3. CASE i + 1 = j
    <3>1. i = p
      BY <1>7, <2>1, <2>3
    <3>2. QED
      BY <1>16, <1>21, <1>24, <2>3, <3>1
  <2>4. CASE i = j
    BY <1>16, <1>21, <1>24, <2>4
  <2>5. CASE i > j
    <3> DEFINE k == i - 1
    <3>1. /\ ~(i < j) /\ i # j /\ ~(i + 1 < j) /\ i + 1 # j /\ (i + 1) - 1 = k + 1
          /\ k \in 1..n - 1 /\ k \in 1..n /\ k # p
      BY <1>1, <1>7, <2>1, <2>5
    <3>2. t[i] = s[k] /\ t[i + 1] = s[k + 1]
      BY <1>17, <2>1, <3>1
    <3> HIDE DEF k
    <3>3. s[k] # s[p]
      BY <1>3, <1>7, <3>1
    <3>4. QED
      BY <1>6, <1>16, <1>19, <3>1, <3>2, <3>3
  <2>6. QED
    BY <1>7, <2>1, <2>2, <2>3, <2>4, <2>5
<1>27. t[1] = "Input" /\ t[n + 1] = "Output" /\ n + 1 >= 2
  <2>1. /\ 1 < j /\ 1 \in 1..n + 1 /\ n + 1 \in 1..n + 1 /\ ~(n + 1 < j) /\ n + 1 # j /\ (n + 1) - 1 = n /\ n + 1 >= 2
    BY <1>1, <1>7
  <2>2. QED
    BY <1>1, <1>17, <2>1
<1>28. Path(d, t)
  <2> DEFINE m == Len(t)
  <2>0. m = n + 1
    BY <1>18
  <2> HIDE DEF m
  <2>1. t \in Seq(Ids(d)) /\ m >= 2 /\ t[1] = "Input" /\ t[m] = "Output"
    BY <1>18, <1>27, <2>0
  <2>2. \A i, k \in 1..m : t[i] = t[k] => i = k
    BY <1>22, <2>0
  <2>3. \A x \in Ids(d) : \E i \in 1..m : t[i] = x
    BY <1>23, <2>0
  <2>4. ASSUME NEW x, NEW y PROVE <<x, y>> \in Links(d) <=> \E i \in 1..m - 1 : x = t[i] /\ y = t[i + 1]
    <3>1. CASE <<x, y>> \in Links(d)
      BY <1>25, <2>0, <3>1
    <3>2. ASSUME NEW i \in 1..m - 1, x = t[i], y = t[i + 1] PROVE <<x, y>> \in Links(d)
      BY <1>26, <2>0, <3>2
    <3>3. QED
      BY <3>1, <3>2
  <2>5. \A x, y : <<x, y>> \in Links(d) <=> \E i \in 1..m - 1 : x = t[i] /\ y = t[i + 1]
    BY <2>4
  <2>6. Graph(d)
    BY <1>16 DEF Sound
  <2>7. Visits(d, t)
    BY <2>1, <2>2, <2>3, <2>5 DEF Visits, m
  <2>8. QED
    BY <2>6, <2>7, PathBy
<1>29. Inserted(g, id, kind, s[j - 1], s[j]) = d
  BY <1>8 DEF from, to
<1>30. Path(d, Widened(s, j, id))
  BY <1>28 DEF t
<1>31. QED
  BY <1>16, <1>29, <1>30


(* A plugin added in front of a place of the rack. *)
LEMMA AddedIs ==
  ASSUME NEW g, Sound(g), Linear(g), NEW id \in Users \ DOMAIN g.nodes, NEW kind \in Kinds,
         NEW k \in 1..(Len(Rack(g)) + 1), NEW to,
         to = IF k = Len(Rack(g)) + 1 THEN "Output" ELSE Rack(g)[k]
  PROVE  LET h == Inserted(g, id, kind, Before(g, to), to)
         IN Sound(h) /\ Rack(h) = InsertAt(Rack(g), k, id)
<1> DEFINE s == LinearOrder(g)
           n == Len(s)
           r == Rack(g)
           m == n - 2
           j == k + 1
           h == Inserted(g, id, kind, s[j - 1], s[j])
           t == Widened(s, j, id)
<1>1. Path(g, s)
  BY LinearPath
<1> HIDE DEF s
<1>2. Places(g, s)
  BY <1>1, PathPlaces DEF Sound
<1>3. /\ n \in Nat /\ n >= 2 /\ m \in Nat /\ r \in Seq(DOMAIN g.nodes) /\ Len(r) = m
      /\ \A i \in 1..m : r[i] = s[i + 1]
  BY <1>2 DEF Places
<1>4. s[n] = "Output"
  BY <1>1, OnPath
<1>5. j \in 2..n /\ j - 1 = k /\ k \in 1..n - 1
  BY <1>3
<1>6. s[j] = to
  <2>1. CASE k = m + 1
    BY <1>3, <1>4, <2>1
  <2>2. CASE k # m + 1
    BY <1>3, <1>5, <2>2
  <2>3. QED
    BY <2>1, <2>2
<1>7. Before(g, to) = s[j - 1]
  <2>1. Before(g, s[k + 1]) = s[k]
    BY <1>1, <1>5, PathNext DEF Sound
  <2>2. QED
    BY <1>5, <1>6, <2>1
<1> HIDE DEF j, n
<1>8. Sound(h) /\ Path(h, t)
  BY <1>1, <1>5, InsertedIs DEF n
<1>9. /\ Len(t) = n + 1
      /\ \A i \in 1..n + 1 : t[i] = IF i < j THEN s[i] ELSE IF i = j THEN id ELSE s[i - 1]
  <2> DEFINE N == n + 1
             f == [i \in 1..N |-> IF i < j THEN s[i] ELSE IF i = j THEN id ELSE s[i - 1]]
  <2>1. N \in Nat /\ t = f
    BY <1>3 DEF Widened, n
  <2> HIDE DEF N
  <2>2. DOMAIN f = 1..N /\ \A i \in 1..N : f[i] = IF i < j THEN s[i] ELSE IF i = j THEN id ELSE s[i - 1]
    OBVIOUS
  <2> HIDE DEF f, t
  <2>3. QED
    BY <2>1, <2>2 DEF N
<1> HIDE DEF h, t
<1>10. Places(h, t)
  BY <1>8, PathPlaces DEF Sound
<1>11. Rack(h) \in Seq(DOMAIN h.nodes) /\ Len(Rack(h)) = n - 1 /\ \A i \in 1..n - 1 : Rack(h)[i] = t[i + 1]
  <2>1. Len(t) - 2 = n - 1
    BY <1>3, <1>9
  <2>2. QED
    BY <1>10, <2>1 DEF Places
<1> DEFINE u == InsertAt(r, k, id)
<1>12. /\ u \in Seq(Plugins) /\ Len(u) = m + 1
       /\ \A i \in 1..(k - 1) : u[i] = r[i]
       /\ u[k] = id
       /\ \A i \in k..m : u[i + 1] = r[i]
  <2>1. r \in Seq(Plugins) /\ id \in Plugins /\ k \in 1..(Len(r) + 1)
    BY RackTyped DEF Plugins
  <2>2. Len(r) = m
    BY <1>3
  <2> HIDE DEF m, r
  <2>3. /\ InsertAt(r, k, id) \in Seq(Plugins) /\ Len(InsertAt(r, k, id)) = Len(r) + 1
        /\ \A i \in 1..(k - 1) : InsertAt(r, k, id)[i] = r[i]
        /\ InsertAt(r, k, id)[k] = id
        /\ \A i \in k..Len(r) : InsertAt(r, k, id)[i + 1] = r[i]
    <3> DEFINE S == Plugins
               p == k
    <3>1. r \in Seq(S) /\ id \in S /\ p \in 1..(Len(r) + 1)
      BY <2>1
    <3> HIDE DEF S, p
    <3>2. /\ InsertAt(r, p, id) \in Seq(S) /\ Len(InsertAt(r, p, id)) = Len(r) + 1
          /\ \A i \in 1..(p - 1) : InsertAt(r, p, id)[i] = r[i]
          /\ InsertAt(r, p, id)[p] = id
          /\ \A i \in p..Len(r) : InsertAt(r, p, id)[i + 1] = r[i]
      BY <3>1, InsertAtIs
    <3>3. QED
      BY <3>2 DEF S, p
  <2>4. QED
    BY <2>2, <2>3
<1> HIDE DEF u, r
<1>13. ASSUME NEW i \in 1..n - 1 PROVE Rack(h)[i] = u[i]
  <2>1. i + 1 \in 1..n + 1 /\ Rack(h)[i] = t[i + 1]
    BY <1>3, <1>11
  <2>2. CASE i < k
    <3>1. i + 1 < j /\ i \in 1..(k - 1) /\ i \in 1..m
      BY <1>3, <1>5, <2>2 DEF j
    <3>2. t[i + 1] = s[i + 1]
      BY <1>9, <2>1, <3>1
    <3>3. QED
      BY <1>3, <1>12, <2>1, <3>1, <3>2
  <2>3. CASE i = k
    <3>1. i + 1 = j /\ ~(i + 1 < j)
      BY <1>5, <2>3 DEF j
    <3>2. QED
      BY <1>9, <1>12, <2>1, <2>3, <3>1
  <2>4. CASE i > k
    <3> DEFINE l == i - 1
    <3>1. ~(i + 1 < j) /\ i + 1 # j /\ (i + 1) - 1 = l + 1 /\ l + 1 = i /\ l \in k..m /\ l \in 1..m
      BY <1>3, <1>5, <2>4 DEF j
    <3>2. t[i + 1] = s[l + 1]
      BY <1>9, <2>1, <3>1
    <3> HIDE DEF l
    <3>3. u[l + 1] = r[l] /\ r[l] = s[l + 1]
      BY <1>3, <1>12, <3>1
    <3>4. QED
      BY <2>1, <3>1, <3>2, <3>3
  <2>5. QED
    BY <1>5, <2>2, <2>3, <2>4
<1>14. Rack(h) = u
  <2>1. m + 1 = n - 1
    BY <1>3
  <2>2. QED
    BY <1>11, <1>12, <1>13, <2>1, SeqEqual
<1>15. Inserted(g, id, kind, Before(g, to), to) = h
  BY <1>6, <1>7 DEF h
<1>16. QED
  BY <1>8, <1>14, <1>15 DEF u, r

(* Taking a plugin out and putting it in elsewhere slides the ones between. *)
LEMMA SlidIs ==
  ASSUME NEW S, NEW r \in Seq(S), NEW from \in 1..Len(r), NEW to \in 1..Len(r)
  PROVE  InsertAt(RemoveAt(r, from), to, r[from]) = Slid(r, from, to)
<1> DEFINE n == Len(r)
           e == r[from]
           u == RemoveAt(r, from)
           v == InsertAt(u, to, e)
           d == Slid(r, from, to)
<1>1. n \in Nat /\ e \in S
  BY LenProperties, ElementOfSeq
<1>2. /\ u \in Seq(S) /\ Len(u) = n - 1
      /\ \A i \in 1..(from - 1) : u[i] = r[i]
      /\ \A i \in from..(n - 1) : u[i] = r[i + 1]
  BY RemoveAtIs
<1> HIDE DEF u, e
<1>3. to \in 1..(Len(u) + 1)
  BY <1>1, <1>2
<1>4. /\ v \in Seq(S) /\ Len(v) = Len(u) + 1
      /\ \A i \in 1..(to - 1) : v[i] = u[i]
      /\ v[to] = e
      /\ \A i \in to..Len(u) : v[i + 1] = u[i]
  BY <1>1, <1>2, <1>3, InsertAtIs
<1>5. /\ d = [k \in 1..n |-> d[k]] /\ DOMAIN d = 1..n
      /\ \A k \in 1..n : d[k] = IF k = to THEN e
                             ELSE IF from <= k /\ k < to THEN r[k + 1]
                             ELSE IF to < k /\ k <= from THEN r[k - 1] ELSE r[k]
  BY DEF Slid, e
<1> HIDE DEF v, d
<1>6. ASSUME NEW k \in 1..n PROVE v[k] = d[k]
  <2>1. CASE k = to
    BY <1>4, <1>5, <2>1
  <2>2. CASE k < to
    <3>1. k \in 1..(to - 1) /\ k # to /\ ~(to < k)
      BY <2>2
    <3>2. v[k] = u[k]
      BY <1>4, <3>1
    <3>3. CASE from <= k
      <4>1. k \in from..(n - 1)
        BY <1>1, <2>2, <3>3
      <4>2. QED
        BY <1>2, <1>5, <2>2, <3>1, <3>2, <3>3, <4>1
    <3>4. CASE ~(from <= k)
      <4>1. k \in 1..(from - 1)
        BY <1>1, <3>4
      <4>2. QED
        BY <1>2, <1>5, <3>1, <3>2, <3>4, <4>1
    <3>5. QED
      BY <3>3, <3>4
  <2>3. CASE k > to
    <3> DEFINE l == k - 1
    <3>1. l \in to..Len(u) /\ l + 1 = k /\ k # to /\ to < k /\ ~(k < to) /\ l \in Int
      BY <1>1, <1>2, <2>3
    <3>2. d[k] = IF k <= from THEN r[l] ELSE r[k]
      BY <1>5, <3>1
    <3> HIDE DEF l
    <3>3. v[k] = u[l]
      BY <1>4, <3>1
    <3>4. CASE k <= from
      <4>1. l \in 1..(from - 1)
        BY <1>1, <3>1, <3>4
      <4>2. QED
        BY <1>2, <3>2, <3>3, <3>4, <4>1
    <3>5. CASE ~(k <= from)
      <4>1. l \in from..(n - 1)
        BY <1>1, <3>1, <3>5
      <4>2. u[l] = r[l + 1]
        BY <1>2, <4>1
      <4>3. QED
        BY <3>1, <3>2, <3>3, <3>5, <4>2
    <3>6. QED
      BY <3>4, <3>5
  <2>4. QED
    BY <2>1, <2>2, <2>3
<1>7. Len(v) = n
  BY <1>1, <1>2, <1>4
<1>8. v = d
  <2> HIDE DEF n
  <2>1. QED
    BY <1>1, <1>4, <1>5, <1>6, <1>7, SameSequence
<1>9. QED
  BY <1>8 DEF v, d, u, e

(* The operators of the list, seen through the mapping. *)
LEMMA SameOperators ==
  /\ \A s, i : List!RemoveAt(s, i) = RemoveAt(s, i)
  /\ \A s, i, e : List!InsertAt(s, i, e) = InsertAt(s, i, e)
  /\ \A s : List!ToSet(s) = ToSet(s)
  /\ \A r, x, y : List!Precedes(r, x, y) = Heard(r, x, y)
<1>1. ASSUME NEW s, NEW i PROVE List!RemoveAt(s, i) = RemoveAt(s, i)
  BY Zenon DEF RemoveAt, List!RemoveAt
<1>2. ASSUME NEW s, NEW i, NEW e PROVE List!InsertAt(s, i, e) = InsertAt(s, i, e)
  BY Zenon DEF InsertAt, List!InsertAt
<1>3. ASSUME NEW s PROVE List!ToSet(s) = ToSet(s)
  BY Zenon DEF ToSet, List!ToSet
<1>4. ASSUME NEW r, NEW x, NEW y PROVE List!Precedes(r, x, y) = Heard(r, x, y)
  BY Zenon DEF Heard, List!Precedes
<1>5. QED
  BY <1>1, <1>2, <1>3, <1>4

LEMMA PlaceIs ==
  ASSUME NEW D, NEW r \in Seq(D)
  PROVE  /\ List!Place(r) \in 1..(Len(r) + 1)
         /\ "Matrix" \in ToSet(r) => List!Place(r) # Len(r) + 1 /\ r[List!Place(r)] = "Matrix"
         /\ "Matrix" \notin ToSet(r) => List!Place(r) = Len(r) + 1
<1> DEFINE n == Len(r)
           I == {i \in 1..n : r[i] = "Matrix"}
<1>1. n \in Nat /\ DOMAIN r = 1..n
  BY LenProperties
<1>2. "Matrix" \in ToSet(r) <=> I # {}
  BY <1>1 DEF ToSet
<1>3. List!Contains(r, "Matrix") <=> I # {}
  BY DEF List!Contains
<1>4. CASE I # {}
  <2>1. PICK k \in I : \A i \in I : k <= i
    <3>1. I \subseteq Nat /\ I # {}
      BY <1>1, <1>4
    <3> HIDE DEF I
    <3>2. QED
      BY <3>1, Least
  <2>2. List!Place(r) = List!Min(I)
    <3>1. List!Place(r) = List!SelectInSeq(r, LAMBDA id : id = "Matrix")
      BY <1>3, <1>4, Zenon DEF List!Place
    <3>2. List!SelectInSeq(r, LAMBDA id : id = "Matrix") = List!Min(I)
      BY <1>4, Zenon DEF List!SelectInSeq
    <3>3. QED
      BY <3>1, <3>2
  <2>3. List!Min(I) = CHOOSE x \in I : \A y \in I : x =< y
    BY Zenon DEF List!Min
  <2>4. List!Place(r) \in I
    BY <2>1, <2>2, <2>3
  <2>5. QED
    BY <1>1, <1>2, <1>4, <2>4
<1>5. CASE I = {}
  <2>1. List!Place(r) = n + 1
    BY <1>3, <1>5 DEF List!Place
  <2>2. QED
    BY <1>1, <1>2, <1>5, <2>1
<1>6. QED
  BY <1>4, <1>5

-----------------------------------------------------------------------------
(* The refinement of RackList: every step of the rack is one of the list,  *)
(* or leaves the list and whether a routing is edited as they are.         *)
Listed == [List!Next]_(<<rack, draft # NoGraph>>)

LEMMA DefaultList == Rack(DefaultRack) = <<"InputMonitor", "ReplayGain", "Matrix", "OutputMonitor">>
<1> DEFINE g == DefaultRack
           s == DefaultChain
           t == <<"InputMonitor", "ReplayGain", "Matrix", "OutputMonitor">>
<1>1. Path(g, s) /\ Sound(g)
  BY DefaultRouted DEF Routed
<1>2. Len(s) - 2 = 4 /\ s[2] = "InputMonitor" /\ s[3] = "ReplayGain" /\ s[4] = "Matrix" /\ s[5] = "OutputMonitor"
  BY DEF DefaultChain
<1>3. t \in Seq(Plugins) /\ Len(t) = 4
      /\ t[1] = "InputMonitor" /\ t[2] = "ReplayGain" /\ t[3] = "Matrix" /\ t[4] = "OutputMonitor"
  BY DEF Plugins, Permanent
<1> HIDE DEF g, s, t
<1>4. Places(g, s)
  BY <1>1, PathPlaces DEF Sound
<1> DEFINE r == Rack(g)
<1>5. r \in Seq(Plugins) /\ Len(r) = 4 /\ \A k \in 1..4 : r[k] = s[k + 1]
  <2>1. r \in Seq(Plugins)
    BY <1>1, RackTyped
  <2>2. Len(r) = Len(s) - 2 /\ \A k \in 1..Len(s) - 2 : r[k] = s[k + 1]
    BY <1>4 DEF Places
  <2>3. QED
    BY <1>2, <2>1, <2>2
<1> HIDE DEF r
<1>6. \A k \in 1..4 : r[k] = t[k]
  <2>1. 1..4 = {1, 2, 3, 4}
    OBVIOUS
  <2>2. r[1] = s[2] /\ r[2] = s[3] /\ r[3] = s[4] /\ r[4] = s[5]
    BY <1>5
  <2>3. QED
    BY <1>2, <1>3, <2>1, <2>2
<1>7. r = t
  BY <1>3, <1>5, <1>6, SeqEqual
<1>8. QED
  BY <1>7 DEF r, t, g

LEMMA InitLists == Init => List!Init
<1> SUFFICES ASSUME Init PROVE List!Init
  OBVIOUS
<1>1. rack = Rack(DefaultRack) /\ draft = NoGraph
  BY DEF Init
<1>2. QED
  BY <1>1, DefaultList DEF List!Init

LEMMA StaysListed ==
  ASSUME rack' = rack, (draft # NoGraph)' = (draft # NoGraph)
  PROVE  Listed
BY DEF Listed

LEMMA ThinnedListed ==
  ASSUME Thinned(rack, rack'), draft' = draft
  PROVE  Listed
<1>1. /\ rack' \in Seq(List!ToSet(rack)) /\ List!ToSet(rack) \ List!ToSet(rack') \subseteq Users
      /\ \A j, k \in DOMAIN rack' : j < k => List!Precedes(rack, rack'[j], rack'[k])
  BY SameOperators DEF Thinned
<1>2. List!Take
  BY <1>1, Zenon DEF List!Take
<1>3. QED
  BY <1>2 DEF Listed, List!Next

(* What an accepted edit shows is the rack of the candidate. *)
LEMMA EditShows ==
  ASSUME NEW g, Sound(g), EditRack(g)
  PROVE  rack' = Rack(g) /\ draft' = draft
<1> DEFINE h == Updated(g)
<1>1. live' = h /\ rack' = Rack(live') /\ draft' = draft
  BY DEF EditRack, Shown
<1>2. Rack(h) = Rack(g)
  BY UpdatedSound
<1> HIDE DEF h
<1>3. QED
  BY <1>1, <1>2

LEMMA AddPluginListed == RackInv /\ AddPlugin => Listed
<1> SUFFICES ASSUME RackInv, AddPlugin PROVE Listed
  OBVIOUS
<1>1. Sound(live) /\ bench \in Benches /\ rack = Rack(live)
  BY DEF RackInv, Routed
<1>2. PICK id \in Users \ DOMAIN live.nodes, kind \in bench.kinds :
        /\ Linear(live)
        /\ LET to == IF "Matrix" \in DOMAIN live.nodes THEN "Matrix" ELSE "Output"
           IN EditRack(Inserted(live, id, kind, Before(live, to), to))
  BY DEF AddPlugin
<1> DEFINE to == IF "Matrix" \in DOMAIN live.nodes THEN "Matrix" ELSE "Output"
           g == Inserted(live, id, kind, Before(live, to), to)
           k == List!Place(rack)
<1>3. EditRack(g)
  BY <1>2
<1>4. kind \in Kinds
  BY <1>1, <1>2, BenchTyped
<1>5. rack \in Seq(DOMAIN live.nodes) /\ ToSet(rack) = DOMAIN live.nodes
  BY <1>1, <1>2, RackTyped, RackHolds
<1>6. /\ k \in 1..(Len(rack) + 1)
      /\ "Matrix" \in ToSet(rack) => k # Len(rack) + 1 /\ rack[k] = "Matrix"
      /\ "Matrix" \notin ToSet(rack) => k = Len(rack) + 1
  BY <1>5, PlaceIs
<1> HIDE DEF k
<1>7. to = IF k = Len(Rack(live)) + 1 THEN "Output" ELSE Rack(live)[k]
  BY <1>1, <1>5, <1>6
<1> HIDE DEF to
<1>8. k \in 1..(Len(Rack(live)) + 1)
  BY <1>1, <1>6
<1>9. Sound(g) /\ Rack(g) = InsertAt(Rack(live), k, id)
  BY <1>1, <1>2, <1>4, <1>7, <1>8, AddedIs
<1> HIDE DEF g
<1>10. rack' = InsertAt(rack, k, id) /\ draft' = draft
  BY <1>1, <1>3, <1>9, EditShows
<1>11. id \in Users \ List!ToSet(rack)
  BY <1>2, <1>5, SameOperators
<1>12. rack' = List!InsertAt(rack, List!Place(rack), id)
  BY <1>10, SameOperators DEF k
<1>13. List!Add
  BY <1>10, <1>11, <1>12, Zenon DEF List!Add
<1>14. QED
  BY <1>13 DEF Listed, List!Next

LEMMA RemovePluginListed == RackInv /\ RemovePlugin => Listed
<1> SUFFICES ASSUME RackInv, RemovePlugin PROVE Listed
  OBVIOUS
<1>1. PICK id \in Users \cap DOMAIN live.nodes : Linear(live) /\ EditRack(Removed(live, id))
  BY DEF RemovePlugin
<1>2. Sound(live) /\ rack = Rack(live)
  BY DEF RackInv, Routed
<1> DEFINE g == Removed(live, id)
<1>3. Sound(g) /\ Thinned(Rack(live), Rack(g))
  BY <1>1, <1>2, RemovedLinear, RemovedThins
<1>4. EditRack(g)
  BY <1>1
<1> HIDE DEF g
<1>5. Thinned(rack, rack') /\ draft' = draft
  BY <1>2, <1>3, <1>4, EditShows
<1>6. QED
  BY <1>5, ThinnedListed

LEMMA ClearPluginsListed == RackInv /\ ClearPlugins => Listed
<1> SUFFICES ASSUME RackInv, ClearPlugins PROVE Listed
  OBVIOUS
<1> DEFINE g == Emptied(live)
<1>1. Linear(live) /\ EditRack(g)
  BY DEF ClearPlugins
<1>2. Sound(live) /\ rack = Rack(live)
  BY DEF RackInv, Routed
<1>3. Sound(g) /\ Thinned(Rack(live), Rack(g))
  BY <1>1, <1>2, EmptiedSound
<1> HIDE DEF g
<1>4. Thinned(rack, rack') /\ draft' = draft
  BY <1>1, <1>2, <1>3, EditShows
<1>5. QED
  BY <1>4, ThinnedListed

LEMMA MovePluginListed == RackInv /\ MovePlugin => Listed
<1> SUFFICES ASSUME RackInv, MovePlugin PROVE Listed
  OBVIOUS
<1>1. PICK from \in DOMAIN rack, to \in DOMAIN rack :
        /\ \A k \in DOMAIN rack : k \in from..to \/ k \in to..from => rack[k] \in Users
        /\ EditRack(Moved(live, from, to))
  BY DEF MovePlugin
<1>2. Sound(live) /\ rack = Rack(live)
  BY DEF RackInv, Routed
<1>3. from \in 1..Len(Rack(live)) /\ to \in 1..Len(Rack(live)) /\ Rack(live) \in Seq(DOMAIN live.nodes)
  BY <1>2, RackOnce
<1>4. Linear(live)
  <2>1. ~Linear(live) => Rack(live) = << >>
    BY DEF Rack
  <2>2. QED
    BY <1>3, <2>1
<1> DEFINE g == Moved(live, from, to)
           r == Rack(live)
<1>5. Sound(g) /\ Rack(g) = Slid(r, from, to)
  BY <1>2, <1>3, <1>4, MovedSound
<1>6. EditRack(g)
  BY <1>1
<1> HIDE DEF g
<1>7. rack' = Slid(r, from, to) /\ draft' = draft
  BY <1>5, <1>6, EditShows
<1>8. InsertAt(RemoveAt(r, from), to, r[from]) = Slid(r, from, to)
  <2> DEFINE S == DOMAIN live.nodes
  <2>1. r \in Seq(S) /\ from \in 1..Len(r) /\ to \in 1..Len(r)
    BY <1>3
  <2> HIDE DEF S, r
  <2>2. QED
    BY <2>1, SlidIs
<1>9. rack' = List!InsertAt(List!RemoveAt(rack, from), to, rack[from])
  BY <1>2, <1>7, <1>8, SameOperators
<1> HIDE DEF r
<1>10. List!Move
  BY <1>1, <1>7, <1>9, Zenon DEF List!Move
<1>11. QED
  BY <1>10 DEF Listed, List!Next

LEMMA TogglePluginListed == RackInv /\ TogglePlugin => Listed
<1> SUFFICES ASSUME RackInv, TogglePlugin PROVE Listed
  OBVIOUS
<1>1. PICK id \in bench.switched \cap DOMAIN live.nodes : EditRack(Toggled(live, id))
  BY DEF TogglePlugin
<1>2. Sound(live) /\ rack = Rack(live)
  BY DEF RackInv, Routed
<1> DEFINE g == Toggled(live, id)
<1>3. Sound(g) /\ Ids(g) = Ids(live) /\ g.wires = live.wires
  BY <1>1, <1>2, ToggledSound DEF Alike
<1>4. EditRack(g)
  BY <1>1
<1> HIDE DEF g
<1>5. Rack(g) = Rack(live)
  BY <1>2, <1>3, SameWires
<1>6. rack' = rack /\ draft' = draft
  BY <1>2, <1>3, <1>4, <1>5, EditShows
<1>7. QED
  BY <1>6, StaysListed

LEMMA DraftListed == RackInv /\ (OpenDraft \/ DiscardDraft \/ ApplyDraft) => Listed
<1> SUFFICES ASSUME RackInv, OpenDraft \/ DiscardDraft \/ ApplyDraft PROVE Listed
  OBVIOUS
<1>1. CASE OpenDraft
  <2>1. draft = NoGraph /\ draft' = live /\ rack' = rack
    BY <1>1 DEF OpenDraft
  <2>2. live # NoGraph
    BY RealGraph DEF RackInv, Routed
  <2>3. List!Open
    BY <2>1, <2>2 DEF List!Open
  <2>4. QED
    BY <2>3 DEF Listed, List!Next
<1>2. CASE DiscardDraft
  <2>1. draft # NoGraph /\ draft' = NoGraph /\ rack' = rack
    BY <1>2 DEF DiscardDraft, Closed
  <2>2. List!Discard
    BY <2>1 DEF List!Discard
  <2>3. QED
    BY <2>2 DEF Listed, List!Next
<1>3. CASE ApplyDraft
  <2>1. draft # NoGraph /\ draft' = NoGraph /\ live' = draft /\ rack' = Rack(live')
    BY <1>3 DEF ApplyDraft, Closed, Shown
  <2>2. Sound(draft) /\ rack' = Rack(draft)
    BY <2>1 DEF RackInv
  <2>3. rack' \in Seq(Plugins)
    BY <2>2, RackTyped
  <2>4. \A j, k \in 1..Len(rack') : rack'[j] = rack'[k] => j = k
    BY <2>2, RackOnce
  <2>5. DOMAIN rack' = 1..Len(rack')
    BY <2>3
  <2>6. List!IsInjective(rack')
    BY <2>4, <2>5, Zenon DEF List!IsInjective
  <2>7. rack' \in Seq(Users \cup Permanent)
    <3>1. Users \cup Permanent = Plugins
      BY DEF Plugins
    <3>2. QED
      BY <2>3, <3>1
  <2>8. List!Apply
    BY <2>1, <2>6, <2>7, Zenon DEF List!Apply
  <2>9. QED
    BY <2>8 DEF Listed, List!Next
<1>4. QED
  BY <1>1, <1>2, <1>3

LEMMA DraftStepListed == RackInv /\ DraftStep => Listed
<1> SUFFICES ASSUME RackInv, DraftStep PROVE Listed
  OBVIOUS
<1>1. draft # NoGraph /\ \E g : EditDraft(g)
  BY DEF DraftStep, Connect, Disconnect, DropNode, PlaceNode, ToggleNode
<1>2. rack' = rack /\ base' = base
  BY <1>1 DEF EditDraft
<1>3. RackInv'
  BY DraftStepKeeps
<1>4. draft' # NoGraph
  BY <1>1, <1>2, <1>3 DEF RackInv
<1>5. QED
  BY <1>1, <1>2, <1>4, StaysListed

(* Playing a graph shows the rack that graph has. *)
LEMMA AskedShows ==
  ASSUME NEW g, Routed(g), NEW s \in Tracks, NEW c \in Tracks, Asked(g, s, c)
  PROVE  Rack(live') = Rack(g)
<1> DEFINE fresh == Updated(Resumed(g))
           refused == Conflicts(fresh, c)
<1>1. Routed(fresh) /\ Rack(fresh) = Rack(g)
  BY FreshIs DEF Kin
<1>2. Loaded(fresh, s, c) \/ live' = fresh
  BY DEF Asked
<1> HIDE DEF fresh
<1>3. Rack(live') = Rack(fresh)
  BY <1>1, <1>2, LoadedKin DEF Kin
<1>4. QED
  BY <1>1, <1>3

LEMMA SuspendedShows ==
  ASSUME NEW g, Routed(g), NEW X
  PROVE  Routed(Updated(Suspended(g, X))) /\ Rack(Updated(Suspended(g, X))) = Rack(g)
<1>1. Sound(g)
  BY DEF Routed
<1>2. Sound(Suspended(g, X)) /\ Rack(Suspended(g, X)) = Rack(g)
  BY <1>1, SuspendedAny DEF Kin
<1>3. Rack(Updated(Suspended(g, X))) = Rack(Suspended(g, X))
  BY <1>2, UpdatedSound
<1>4. QED
  BY <1>2, <1>3, SuspendedRouted

LEMMA PlayListed == RackInv /\ Play => Listed
<1> SUFFICES ASSUME RackInv, Play PROVE Listed
  OBVIOUS
<1>1. PICK c \in Tracks : Asked(live, c, c)
  BY DEF Play
<1>2. rack' = Rack(live') /\ draft' = draft
  BY DEF Play, Shown
<1>3. Routed(live) /\ rack = Rack(live)
  BY DEF RackInv
<1>4. rack' = rack
  BY <1>1, <1>2, <1>3, AskedShows
<1>5. QED
  BY <1>2, <1>4, StaysListed

LEMMA AdvanceListed == RackInv /\ Advance => Listed
<1> SUFFICES ASSUME RackInv, Advance PROVE Listed
  OBVIOUS
<1> DEFINE fresh == Updated(Resumed(live))
<1>1. PICK c \in Tracks :
        LET refused == Conflicts(fresh, c)
        IN Loaded(IF refused = {} THEN fresh ELSE Updated(Suspended(fresh, refused)), c, c)
  BY DEF Advance
<1>2. rack' = Rack(live') /\ draft' = draft
  BY DEF Advance, Shown
<1>3. Routed(fresh) /\ Rack(fresh) = Rack(live) /\ rack = Rack(live)
  BY FreshIs DEF Kin, RackInv
<1> HIDE DEF fresh
<1> DEFINE refused == Conflicts(fresh, c)
           g == IF refused = {} THEN fresh ELSE Updated(Suspended(fresh, refused))
<1>4. Loaded(g, c, c)
  BY <1>1
<1>5. Routed(g) /\ Rack(g) = Rack(fresh)
  BY <1>3, SuspendedShows
<1> HIDE DEF g
<1>6. Rack(live') = Rack(g)
  BY <1>4, <1>5, LoadedKin DEF Kin
<1>7. QED
  BY <1>2, <1>3, <1>5, <1>6, StaysListed

LEMMA SuspendByKeyListed == RackInv /\ SuspendByKey => Listed
<1> SUFFICES ASSUME RackInv, SuspendByKey PROVE Listed
  OBVIOUS
<1> DEFINE g == Updated(Suspended(live, dialog.refused))
<1>1. dialog # Idle /\ Loaded(g, dialog.source, dialog.channels) /\ rack' = Rack(live') /\ draft' = draft
  BY DEF SuspendByKey, Shown
<1>2. Routed(live) /\ rack = Rack(live) /\ dialog.channels \in Tracks /\ dialog.source \in Tracks
  BY <1>1 DEF RackInv, Conflict
<1>3. Routed(g) /\ Rack(g) = Rack(live)
  BY <1>2, SuspendedShows
<1> HIDE DEF g
<1>4. Rack(live') = Rack(g)
  BY <1>1, <1>2, <1>3, LoadedKin DEF Kin
<1>5. QED
  BY <1>1, <1>2, <1>3, <1>4, StaysListed

LEMMA SuspendByButtonListed == RackInv /\ SuspendByButton => Listed
<1> SUFFICES ASSUME RackInv, SuspendByButton PROVE Listed
  OBVIOUS
<1> DEFINE g == Updated(Suspended(live, dialog.refused))
<1>1. dialog # Idle /\ Asked(g, dialog.source, track) /\ rack' = Rack(live') /\ draft' = draft
  BY DEF SuspendByButton, Shown
<1>2. Routed(live) /\ rack = Rack(live) /\ track \in Tracks /\ dialog.source \in Tracks
  BY <1>1 DEF RackInv, Conflict
<1>3. Routed(g) /\ Rack(g) = Rack(live)
  BY <1>2, SuspendedShows
<1> HIDE DEF g
<1>4. Rack(live') = Rack(g)
  BY <1>1, <1>2, <1>3, AskedShows
<1>5. QED
  BY <1>1, <1>2, <1>3, <1>4, StaysListed

LEMMA RemoveByButtonListed == RackInv /\ RemoveByButton => Listed
<1> SUFFICES ASSUME RackInv, RemoveByButton PROVE Listed
  OBVIOUS
<1> DEFINE g == RemoveListed(live)
<1>1. dialog # Idle /\ Asked(g, dialog.source, track) /\ rack' = Rack(live') /\ draft' = draft
  BY DEF RemoveByButton, Shown
<1>2. Routed(live) /\ rack = Rack(live) /\ track \in Tracks /\ dialog.source \in Tracks
  BY <1>1 DEF RackInv, Conflict
<1>3. Routed(g) /\ Thinned(Rack(live), Rack(g))
  BY <1>2, RemoveListedRouted
<1> HIDE DEF g
<1>4. Rack(live') = Rack(g)
  BY <1>1, <1>2, <1>3, AskedShows
<1>5. Thinned(rack, rack')
  BY <1>1, <1>2, <1>3, <1>4
<1>6. QED
  BY <1>1, <1>5, ThinnedListed

LEMMA StepListed == RackInv /\ [Next]_vars => Listed
<1> SUFFICES ASSUME RackInv, [Next]_vars PROVE Listed
  OBVIOUS
<1>1. CASE Cancel \/ Tick \/ UNCHANGED vars
  <2>1. rack' = rack /\ draft' = draft
    BY <1>1, Zenon DEF Cancel, Tick, vars
  <2>2. QED
    BY <2>1, StaysListed
<1>2. CASE Next
  BY <1>1, <1>2, AddPluginListed, RemovePluginListed, MovePluginListed, TogglePluginListed,
     ClearPluginsListed, DraftListed, DraftStepListed, PlayListed, AdvanceListed, SuspendByKeyListed,
     SuspendByButtonListed, RemoveByButtonListed DEF Next
<1>3. QED
  BY <1>1, <1>2

(* The plugin rack keeps its types: the live graph and the draft are       *)
(* graphs, whatever is edited, suspended, removed or played.               *)
THEOREM RackTypeCorrect == Spec => []TypeOK
BY RackAlways, RackInvImplies, PTL

(* The live graph could be applied as a routing at any time: after any     *)
(* sequence of rack edits, suspensions, removals and resized matrices,     *)
(* and any draft the editor applies, every wire joins channels that exist, *)
(* every input is fed and nothing loops.                                   *)
THEOREM RackRoutable == Spec => []LiveRoutable
BY RackAlways, RackInvImplies, PTL

(* However a track is started, the engine is never given a chain in which  *)
(* a plugin refuses the channels the chain was fitted to, as long as no    *)
(* plugin that counts channels follows a matrix; and those are the         *)
(* channels of the track itself, unless the dialog was answered after the  *)
(* queue had gone on to another track.                                     *)
THEOREM RackLoadsFit == Spec => LoadsFit
<1> DEFINE Fit == Load => /\ ~Clash(engine'.channels, engine'.chain)
                          /\ engine'.channels # engine'.source => Overtaken
<1>1. RackInv /\ DialogAsks /\ [Next]_vars => [Fit]_vars
  <2> SUFFICES ASSUME RackInv, DialogAsks, [Next]_vars, Load PROVE Fit
    OBVIOUS
  <2>1. ~Clash(engine'.channels, engine'.chain)
    BY SettledFits
  <2>2. Next
    BY DEF Load, vars
  <2>3. engine'.channels # engine'.source => Overtaken
    BY <2>2, LoadsItsOwn
  <2>4. QED
    BY <2>1, <2>3
<1>2. QED
  BY <1>1, DialogAlways, PTL DEF Spec, LoadsFit

(* After a load the suspended plugins are those that would refuse the      *)
(* channels it was fitted to, unless the dialog is answered after the      *)
(* engine went on to a track that suspended others.                        *)
THEOREM RackSuspendsOnlyConflicts == Spec => SuspendsOnlyConflicts
<1>1. RackInv /\ DialogAsks /\ [Next]_vars =>
        [Load /\ Linear(live') /\ (dialog' # dialog => Asleep(live) = {})
         => Asleep(live') = Conflicts(Resumed(live'), engine'.channels)]_vars
  BY SettledFits
<1>2. QED
  BY <1>1, DialogAlways, PTL DEF Spec, SuspendsOnlyConflicts

(* The rewiring of the graph amounts to editing a list of plugins: one is  *)
(* added in front of the matrix, the user's own are taken out or moved     *)
(* among themselves, the others keep their order, and playing, suspending  *)
(* and editing a draft leave the list alone (apply_linear_transaction,     *)
(* move_plugin, clear_plugins, the dialog's buttons, apply_routing_draft). *)
THEOREM RackIsAList == Spec => ImplementsRackList
<1>1. RackInv /\ [Next]_vars => [List!Next]_(<<rack, draft # NoGraph>>)
  BY StepListed DEF Listed
<1>2. QED
  BY <1>1, InitLists, RackAlways, PTL DEF Spec, ImplementsRackList, List!Spec
=============================================================================
