------------------------------ MODULE MapProofs ------------------------------
(***************************************************************************)
(* Proofs about MultiMap, for every set of items and every sequence of     *)
(* keys: chain and indexes hold the same items whatever operation stopped  *)
(* half way, and every operation is one of the sequence in SeqMap.         *)
(***************************************************************************)
EXTENDS MultiMap, WellFoundedInduction, FiniteSetTheorems, SequenceTheorems, TLAPS

Link == Item \cup {Nil}
Maps == [root : Link, tail : Link, size : Nat, key : Seq(SUBSET Item),
         up : [Item -> Link], down : [Item -> Link]]

\* The x-th of some items, and nothing beyond either end.
Node(s, x) == IF x \in 1..Len(s) THEN s[x] ELSE Nil

\* The chain of a map is s: from each node to its neighbours.
Chained(map, s) ==
  /\ map.root = Node(s, 1) /\ map.tail = Node(s, Len(s))
  /\ \A x \in 1..Len(s) : /\ map.down[s[x]] = Node(s, x + 1)
                          /\ map.up[s[x]] = Node(s, x - 1)

\* Every item once.
Once(s) == \A x, y \in 1..Len(s) : x # y => s[x] # s[y]

Sound(map, s) ==
  /\ map \in Maps /\ s \in Seq(Item) /\ Once(s)
  /\ Chained(map, s) /\ map.size = Len(s)

\* The trees are of these items, which have different places in each.
Indexed(key, S) ==
  \A k \in 1..Len(key) : key[k] = S /\ \A a, b \in S : a # b => ~Same(a, b, k)

\* The inductive invariant.  What the callers were told is kept apart from what
\* the trees hold: a map that leads to freed memory has that in a tree.
IInv ==
  /\ MapTypeOK /\ Sound(m, Downwards) /\ ToSet(Downwards) = held
  /\ Working => Indexed(m.key, held)

-----------------------------------------------------------------------------
(* Induction, and loops *)

\* What holds of 0 and is passed on from i to i + 1 holds of every i.
LEMMA SetInduction ==
    ASSUME NEW S, 0 \in S, \A i \in Nat : i \in S => i + 1 \in S
    PROVE  Nat \subseteq S
<1> SUFFICES ASSUME ~(Nat \subseteq S) PROVE FALSE
  OBVIOUS
<1> DEFINE T == {1..x : x \in Nat \ S}
<1>1. T \subseteq FiniteSubsetsOf(Nat) /\ T # {}
  <2>1. \A x \in Nat \ S : IsFiniteSet(1..x) /\ 1..x \subseteq Nat
    BY FS_Interval
  <2> QED BY <2>1 DEF FiniteSubsetsOf
<1>2. PICK u \in T : \A t \in T : <<t, u>> \notin StrictSubsetOrdering(Nat)
  <2> HIDE DEF T
  <2> QED BY <1>1, WFMin, FS_StrictSubsetOrderingWellFounded
<1>3. PICK x \in Nat \ S : u = 1..x
  OBVIOUS
<1>4. x - 1 \in Nat \ S
  OBVIOUS
<1>5. /\ 1..(x - 1) \in SUBSET Nat /\ u \in SUBSET Nat
      /\ 1..(x - 1) \subseteq u /\ 1..(x - 1) # u
  BY <1>3, <1>4
<1>6. <<1..(x - 1), u>> \in StrictSubsetOrdering(Nat)
  BY <1>5 DEF StrictSubsetOrdering
<1> QED BY <1>2, <1>4, <1>6

\* Every set of numbers has a least one.
LEMMA LeastIsThere ==
    ASSUME NEW E, E \subseteq Nat, E # {}
    PROVE  Min(E) \in E /\ \A y \in E : Min(E) <= y
<1> SUFFICES ASSUME \A y \in E : ~\A z \in E : y <= z PROVE FALSE
  BY DEF Min
<1> DEFINE S == {i \in Nat : \A z \in E : z > i}
<1>1. 0 \in S
  OBVIOUS
<1>2. ASSUME NEW i \in Nat, i \in S PROVE i + 1 \in S
  <2>1. \A z \in E : i + 1 <= z
    BY <1>2
  <2>2. i + 1 \notin E
    BY <2>1
  <2> QED BY <1>2, <2>1, <2>2
<1>3. Nat \subseteq S
  <2> HIDE DEF S
  <2> QED BY <1>1, <1>2, SetInduction
<1>4. PICK y \in E : y \in Nat
  OBVIOUS
<1>5. y > y
  BY <1>3, <1>4
<1> QED BY <1>4, <1>5

\* A loop of N turns that makes f[x][v] of v at its x-th turn, and has one of
\* V[x] after it: its values from a on.
Turns(N, V, f) == \A x \in 1..N : \A v \in V[x - 1] : f[x][v] \in V[x]
Runs(g, N, V, a, f) ==
  /\ DOMAIN g = 0..N /\ g = [x \in 0..N |-> g[x]] /\ g[0] = a
  /\ \A x \in 0..N : g[x] \in V[x]
  /\ \A x \in 1..N : g[x] = f[x][g[x - 1]]

\* It has a value after each turn.
LEMMA LoopRuns ==
    ASSUME NEW N \in Nat, NEW V, NEW a \in V[0], NEW f, Turns(N, V, f)
    PROVE  \E g : Runs(g, N, V, a, f)
<1> DEFINE S == {j \in Nat : j <= N => \E g : Runs(g, j, V, a, f)}
<1>1. 0 \in S
  <2>1. Runs([x \in 0..0 |-> a], 0, V, a, f)
    BY DEF Runs
  <2> QED BY <2>1
<1>2. ASSUME NEW j \in Nat, j \in S PROVE j + 1 \in S
  <2> SUFFICES ASSUME j + 1 <= N PROVE \E g : Runs(g, j + 1, V, a, f)
    OBVIOUS
  <2>1. PICK g : Runs(g, j, V, a, f)
    BY <1>2
  <2> DEFINE next == f[j + 1][g[j]]
             h == [x \in 0..(j + 1) |-> IF x = j + 1 THEN next ELSE g[x]]
  <2>2. j + 1 \in 1..N /\ (j + 1) - 1 = j /\ g[j] \in V[j]
    BY <2>1 DEF Runs
  <2>3. next \in V[j + 1]
    BY <2>2 DEF Turns
  <2>4. Runs(h, j + 1, V, a, f)
    <3> HIDE DEF next
    <3>0. \A x \in 0..(j + 1) : x \in 0..j \/ x = j + 1
      OBVIOUS
    <3>1. /\ DOMAIN h = 0..(j + 1) /\ h = [x \in 0..(j + 1) |-> h[x]] /\ h[0] = a
          /\ \A x \in 0..(j + 1) : h[x] \in V[x]
      <4>1. \A x \in 0..j : h[x] = g[x] /\ h[x] \in V[x]
        BY <2>1 DEF Runs
      <4>2. h[j + 1] \in V[j + 1]
        BY <2>3
      <4>3. DOMAIN h = 0..(j + 1) /\ h = [x \in 0..(j + 1) |-> h[x]]
        OBVIOUS
      <4>4. h[0] = a
        BY <2>1, <4>1 DEF Runs
      <4> HIDE DEF h
      <4> QED BY <3>0, <4>1, <4>2, <4>3, <4>4
    <3>2. ASSUME NEW x \in 1..j PROVE h[x] = f[x][h[x - 1]]
      <4>1. x \in 0..(j + 1) /\ x # j + 1 /\ x - 1 \in 0..(j + 1) /\ x - 1 # j + 1
        OBVIOUS
      <4>2. h[x] = g[x] /\ h[x - 1] = g[x - 1]
        BY <4>1
      <4> QED BY <2>1, <4>2 DEF Runs
    <3>3. h[j + 1] = next /\ h[j] = g[j] /\ (j + 1) - 1 = j
      <4>1. j + 1 \in 0..(j + 1) /\ j \in 0..(j + 1) /\ j # j + 1 /\ (j + 1) - 1 = j
        OBVIOUS
      <4> QED BY <4>1
    <3>4. h[j + 1] = f[j + 1][h[(j + 1) - 1]]
      BY <3>3 DEF next
    <3>5. \A x \in 1..(j + 1) : x \in 1..j \/ x = j + 1
      OBVIOUS
    <3> HIDE DEF h
    <3> QED BY <3>1, <3>2, <3>4, <3>5 DEF Runs
  <2> HIDE DEF h
  <2> QED BY <2>4
<1>3. N \in S
  <2> HIDE DEF S
  <2> QED BY <1>1, <1>2, SetInduction
<1> QED BY <1>3

\* What is so at the start, and after a turn when it was so before, is so after
\* every turn.
Keeps(r, N, V) == \A x \in 1..N : r[x - 1] \in V[x - 1] => r[x] \in V[x]

LEMMA LoopKeeps ==
    ASSUME NEW N \in Nat, NEW V, NEW r, r[0] \in V[0], Keeps(r, N, V)
    PROVE  \A x \in 0..N : r[x] \in V[x]
<1> DEFINE S == {x \in Nat : x <= N => r[x] \in V[x]}
<1>1. 0 \in S
  OBVIOUS
<1>2. ASSUME NEW x \in Nat, x \in S PROVE x + 1 \in S
  <2> SUFFICES ASSUME x + 1 <= N PROVE r[x + 1] \in V[x + 1]
    OBVIOUS
  <2>1. x + 1 \in 1..N /\ (x + 1) - 1 = x /\ r[x] \in V[x]
    BY <1>2
  <2> QED BY <2>1 DEF Keeps
<1>3. Nat \subseteq S
  <2> HIDE DEF S
  <2> QED BY <1>1, <1>2, SetInduction
<1> QED BY <1>3

-----------------------------------------------------------------------------
(* The chain *)

LEMMA Finite == /\ IsFiniteSet(Item) /\ Cardinality(Item) \in Nat
                /\ Nil \notin Item /\ Failure \notin Item /\ Failure # Nil
BY MapAssumption, FS_CardinalityType

LEMMA UpTo == ASSUME NEW n \in Nat PROVE Cardinality(1..n) = n
<1>1. 1 \in Int /\ n \in Int
  OBVIOUS
<1>2. Cardinality(1..n) = IF 1 > n THEN 0 ELSE n - 1 + 1
  BY <1>1, FS_Interval
<1> QED BY <1>2

\* There is room for a sequence of items in the bound of the loops.
LEMMA Fitting ==
    ASSUME NEW s \in Seq(Item), Once(s)
    PROVE  Len(s) \in 0..Cardinality(Item)
<1>1. s \in [1..Len(s) -> Item] /\ Len(s) \in Nat
  OBVIOUS
<1>2. s \in Injection(1..Len(s), Item)
  BY <1>1 DEF Injection, IsInjective, Once
<1>3. Cardinality(1..Len(s)) <= Cardinality(Item)
  BY <1>2, Finite, FS_Injection
<1>4. Cardinality(1..Len(s)) = Len(s)
  BY <1>1, UpTo
<1> QED BY <1>1, <1>3, <1>4, Finite

\* Where each item of s leads to the next one, reading gives s.
LEMMA ChainReads ==
    ASSUME NEW next \in [Item -> Link], NEW n, NEW s \in Seq(Item), Once(s),
           n = Node(s, 1), \A x \in 1..Len(s) : next[s[x]] = Node(s, x + 1)
    PROVE  Reached(next, n) = s
<1> DEFINE C == Cardinality(Item)
           at[x \in 0..Cardinality(Item)] ==
             IF x = 0 THEN n ELSE IF at[x - 1] = Nil THEN Nil ELSE next[at[x - 1]]
           nodes == {x \in 1..Cardinality(Item) : at[x - 1] # Nil}
           V == [x \in 0..C |-> {Node(s, x + 1)}]
           f == [x \in 1..C |-> [i \in Link |-> IF i = Nil THEN Nil ELSE next[i]]]
<1>1. Reached(next, n) = [x \in 1..Cardinality(nodes) |-> at[x - 1]]
  BY DEF Reached
<1>2. C \in Nat /\ Len(s) \in 0..C
  BY Finite, Fitting
<1>3. \A i \in Int : Node(s, i) \in Link
  BY DEF Node, Link
<1>4. \A x \in 0..C : V[x] = {Node(s, x + 1)}
  OBVIOUS
<1>5. ASSUME NEW x \in 1..C
      PROVE  /\ x - 1 \in 0..C /\ (x - 1) + 1 = x /\ x \in 0..C
             /\ Node(s, x + 1) = IF Node(s, x) = Nil THEN Nil ELSE next[Node(s, x)]
  <2>1. x \in Nat /\ x - 1 \in 0..C /\ (x - 1) + 1 = x /\ x \in 0..C
    BY <1>2
  <2>2. CASE x \in 1..Len(s)
    BY <2>1, <2>2, Finite DEF Node
  <2>3. CASE x \notin 1..Len(s)
    <3>1. x + 1 \notin 1..Len(s)
      BY <1>2, <2>3
    <3> QED BY <2>1, <2>3, <3>1 DEF Node
  <2> QED BY <2>1, <2>2, <2>3
<1>6. \A x \in 1..C, i \in Link : f[x][i] = IF i = Nil THEN Nil ELSE next[i]
  OBVIOUS
<1> HIDE DEF V, f, C
<1>7. Turns(C, V, f)
  <2> SUFFICES ASSUME NEW x \in 1..C, NEW v \in V[x - 1] PROVE f[x][v] \in V[x]
    BY DEF Turns
  <2>1. v = Node(s, x) /\ v \in Link
    BY <1>2, <1>3, <1>4, <1>5
  <2> QED BY <1>4, <1>5, <1>6, <2>1
<1>8. n \in V[0]
  BY <1>2, <1>4
<1>9. PICK g : Runs(g, C, V, n, f)
  BY <1>2, <1>7, <1>8, LoopRuns
<1>10. g = [x \in 0..C |-> IF x = 0 THEN n ELSE IF g[x - 1] = Nil THEN Nil ELSE next[g[x - 1]]]
  <2>1. \A x \in 0..C : x # 0 <=> x \in 1..C
    BY <1>2
  <2>2. \A x \in 1..C : g[x - 1] \in Link
    BY <1>3, <1>4, <1>5, <1>9 DEF Runs
  <2> QED BY <1>6, <1>9, <2>1, <2>2 DEF Runs
<1>11. at = [x \in 0..C |-> IF x = 0 THEN n ELSE IF at[x - 1] = Nil THEN Nil ELSE next[at[x - 1]]]
  BY <1>10 DEF C
<1> HIDE DEF at
<1>12. \A x \in 0..C : at[x] \in V[x]
  <2>1. at[0] \in V[0]
    BY <1>2, <1>8, <1>11
  <2>2. Keeps(at, C, V)
    <3> SUFFICES ASSUME NEW x \in 1..C, at[x - 1] \in V[x - 1] PROVE at[x] \in V[x]
      BY DEF Keeps
    <3>1. at[x - 1] = Node(s, x)
      BY <1>4, <1>5
    <3>2. at[x] = IF at[x - 1] = Nil THEN Nil ELSE next[at[x - 1]]
      BY <1>5, <1>11
    <3> QED BY <1>4, <1>5, <3>1, <3>2
  <2> QED BY <1>2, <2>1, <2>2, LoopKeeps
<1>13. \A x \in 1..C : at[x - 1] = Node(s, x)
  BY <1>4, <1>5, <1>12
<1>14. nodes = 1..Len(s)
  <2>1. \A x \in 1..C : at[x - 1] # Nil <=> x \in 1..Len(s)
    BY <1>13, Finite DEF Node
  <2> QED BY <1>2, <2>1 DEF C
<1>15. Cardinality(nodes) = Len(s)
  <2>1. Len(s) \in Nat
    OBVIOUS
  <2> HIDE DEF nodes
  <2> QED BY <1>14, <2>1, UpTo
<1>16. \A x \in 1..Len(s) : at[x - 1] = s[x]
  BY <1>2, <1>13 DEF Node
<1> QED BY <1>1, <1>15, <1>16

\* One item less leaves the others, in their order.
LEMMA RemoveOne ==
    ASSUME NEW s \in Seq(Item), NEW x \in 1..Len(s), Once(s)
    PROVE  /\ RemoveAt(s, x) \in Seq(Item) /\ Len(RemoveAt(s, x)) = Len(s) - 1
           /\ \A y \in 1..(Len(s) - 1) :
                RemoveAt(s, x)[y] = s[IF y < x THEN y ELSE y + 1]
           /\ Once(RemoveAt(s, x)) /\ ToSet(RemoveAt(s, x)) = ToSet(s) \ {s[x]}
<1> DEFINE u == SubSeq(s, 1, x - 1)
           v == SubSeq(s, x + 1, Len(s))
           r == RemoveAt(s, x)
           at(y) == IF y < x THEN y ELSE y + 1
<1>1. x \in 1..Len(s) /\ Len(s) \in Nat
  OBVIOUS
<1>2. u \in Seq(Item) /\ Len(u) = x - 1 /\ \A y \in 1..(x - 1) : u[y] = s[y]
  BY <1>1
<1>3. /\ v \in Seq(Item) /\ Len(v) = Len(s) - x
      /\ \A y \in 1..(Len(s) - x) : v[y] = s[x + y]
  BY <1>1
<1>4. r = u \o v
  BY DEF RemoveAt
<1> HIDE DEF u, v
<1>5. /\ u \o v \in Seq(Item) /\ Len(u \o v) = Len(s) - 1
      /\ \A y \in 1..(Len(s) - 1) :
           (u \o v)[y] = IF y < x THEN u[y] ELSE v[y - (x - 1)]
  <2>1. /\ u \o v \in Seq(Item) /\ Len(u \o v) = Len(u) + Len(v)
        /\ \A y \in 1..(Len(u) + Len(v)) :
             (u \o v)[y] = IF y <= Len(u) THEN u[y] ELSE v[y - Len(u)]
    BY <1>2, <1>3, ConcatProperties
  <2>2. Len(u) + Len(v) = Len(s) - 1 /\ \A y \in Nat : y <= Len(u) <=> y < x
    BY <1>1, <1>2, <1>3
  <2> QED BY <2>1, <2>2, <1>2
<1>6. ASSUME NEW y \in 1..(Len(s) - 1), ~(y < x)
      PROVE  v[y - (x - 1)] = s[y + 1]
  <2>1. y - (x - 1) \in 1..(Len(s) - x) /\ x + (y - (x - 1)) = y + 1
    BY <1>1, <1>6
  <2> QED BY <2>1, <1>3
<1>7. /\ r \in Seq(Item) /\ Len(r) = Len(s) - 1
      /\ \A y \in 1..(Len(s) - 1) : r[y] = s[at(y)]
  <2>1. ASSUME NEW y \in 1..(Len(s) - 1), y < x PROVE u[y] = s[y]
    BY <1>2, <2>1
  <2> HIDE DEF r
  <2> QED BY <1>4, <1>5, <1>6, <2>1
<1> HIDE DEF r
<1>8. /\ \A y \in 1..(Len(s) - 1) : at(y) \in 1..Len(s) /\ at(y) # x
      /\ \A y, z \in 1..(Len(s) - 1) : at(y) = at(z) => y = z
      /\ \A z \in 1..Len(s) : z # x => \E y \in 1..(Len(s) - 1) : at(y) = z
  <2>1. ASSUME NEW z \in 1..Len(s), z # x
        PROVE  \E y \in 1..(Len(s) - 1) : at(y) = z
    <3>1. CASE z < x
      <4>1. z \in 1..(Len(s) - 1) /\ at(z) = z
        BY <3>1
      <4> QED BY <4>1
    <3>2. CASE z > x
      <4>1. z - 1 \in 1..(Len(s) - 1) /\ at(z - 1) = z
        BY <3>2
      <4> QED BY <4>1
    <3> QED BY <3>1, <3>2, <2>1
  <2> QED BY <2>1, <1>1
<1> HIDE DEF at
<1>9. Once(r)
  BY <1>7, <1>8 DEF Once
<1>10. ToSet(r) = ToSet(s) \ {s[x]}
  <2>1. DOMAIN r = 1..(Len(s) - 1) /\ DOMAIN s = 1..Len(s)
    BY <1>7
  <2>2. \A i \in ToSet(r) : i \in ToSet(s) /\ i # s[x]
    BY <1>7, <1>8, <2>1 DEF ToSet, Once
  <2>3. ASSUME NEW i \in ToSet(s), i # s[x] PROVE i \in ToSet(r)
    <3>1. PICK z \in 1..Len(s) : i = s[z]
      BY <2>1 DEF ToSet
    <3>2. PICK y \in 1..(Len(s) - 1) : at(y) = z
      BY <1>8, <2>3, <3>1
    <3> QED BY <1>7, <2>1, <3>1, <3>2 DEF ToSet
  <2> QED BY <2>2, <2>3
<1> QED BY <1>7, <1>9, <1>10 DEF r, at

\* Unchain mends the chain on both sides of a node.
LEMMA UnchainEffect ==
    ASSUME NEW map \in Maps, NEW s \in Seq(Item), Once(s), Chained(map, s),
           NEW x \in 1..Len(s)
    PROVE  /\ Unchain(map, s[x]) \in Maps /\ Chained(Unchain(map, s[x]), RemoveAt(s, x))
           /\ Unchain(map, s[x]).size = map.size /\ Unchain(map, s[x]).key = map.key
<1> DEFINE n == s[x]
           a == Node(s, x - 1)
           b == Node(s, x + 1)
           r == RemoveAt(s, x)
           u == Unchain(map, n)
           at(y) == IF y < x THEN y ELSE y + 1
<1>1. n \in Item /\ map.up[n] = a /\ map.down[n] = b /\ Len(s) \in Nat
  BY DEF Chained
<1>2. a \in Link /\ b \in Link /\ Nil \notin Item
  BY Finite DEF Node, Link
<1>3. /\ u \in Maps /\ u.size = map.size /\ u.key = map.key
      /\ u.root = IF a = Nil THEN b ELSE map.root
      /\ u.tail = IF b = Nil THEN a ELSE map.tail
      /\ \A i \in Item : /\ u.down[i] = IF i = a THEN b ELSE map.down[i]
                         /\ u.up[i] = IF i = b THEN a ELSE map.up[i]
  <2> HIDE DEF n, a, b
  <2>1. u = PointUp(PointDown(map, a, b), b, a)
    BY <1>1 DEF Unchain
  <2> DEFINE w == PointDown(map, a, b)
  <2>2. /\ w \in Maps /\ w.size = map.size /\ w.key = map.key /\ w.tail = map.tail
        /\ w.root = IF a = Nil THEN b ELSE map.root
        /\ \A i \in Item : w.up[i] = map.up[i] /\ w.down[i] = IF i = a THEN b ELSE map.down[i]
    BY <1>2 DEF PointDown, Maps, Link
  <2> HIDE DEF w, u
  <2> QED BY <1>2, <2>1, <2>2 DEF PointUp, Maps, Link, w
<1> HIDE DEF u
<1>4. r \in Seq(Item) /\ Len(r) = Len(s) - 1 /\ \A y \in 1..(Len(s) - 1) : r[y] = s[at(y)]
  BY RemoveOne
<1> HIDE DEF r
<1>5. \A y \in Nat : Node(r, y) = Node(s, at(y))
  <2> TAKE y \in Nat
  <2>1. CASE y \in 1..(Len(s) - 1)
    BY <1>4, <2>1 DEF Node
  <2>2. CASE y \notin 1..(Len(s) - 1)
    <3>1. at(y) \notin 1..Len(s)
      BY <1>1, <2>2
    <3> QED BY <1>4, <2>2, <3>1 DEF Node
  <2> QED BY <2>1, <2>2
<1>6. \A y, z \in 1..Len(s) : Node(s, y) = Node(s, z) => y = z
  BY DEF Node, Once
<1>7. ASSUME NEW y \in 1..Len(r)
      PROVE  u.down[r[y]] = Node(r, y + 1) /\ u.up[r[y]] = Node(r, y - 1)
  <2>1. /\ at(y) \in 1..Len(s) /\ y \in Nat /\ y + 1 \in Nat /\ y - 1 \in Nat
        /\ at(y) # x
    BY <1>4
  <2>2. r[y] = s[at(y)] /\ s[at(y)] \in Item /\ s[at(y)] = Node(s, at(y))
    BY <1>4, <2>1 DEF Node
  <2>3. map.down[r[y]] = Node(s, at(y) + 1) /\ map.up[r[y]] = Node(s, at(y) - 1)
    BY <2>1, <2>2 DEF Chained
  <2>4. r[y] = a <=> at(y) = x - 1
    <3>1. CASE x - 1 \in 1..Len(s)
      BY <1>6, <2>1, <2>2, <3>1
    <3>2. CASE x - 1 \notin 1..Len(s)
      BY <1>2, <2>1, <2>2, <3>2 DEF Node
    <3> QED BY <3>1, <3>2
  <2>5. r[y] = b <=> at(y) = x + 1
    <3>1. CASE x + 1 \in 1..Len(s)
      BY <1>6, <2>1, <2>2, <3>1
    <3>2. CASE x + 1 \notin 1..Len(s)
      BY <1>2, <2>1, <2>2, <3>2 DEF Node
    <3> QED BY <3>1, <3>2
  <2>6. Node(r, y + 1) = IF at(y) = x - 1 THEN b ELSE Node(s, at(y) + 1)
    <3>1. at(y + 1) = IF at(y) = x - 1 THEN x + 1 ELSE at(y) + 1
      BY <2>1
    <3> QED BY <1>5, <2>1, <3>1
  <2>7. Node(r, y - 1) = IF at(y) = x + 1 THEN a ELSE Node(s, at(y) - 1)
    <3>1. at(y - 1) = IF at(y) = x + 1 THEN x - 1 ELSE at(y) - 1
      BY <2>1
    <3> QED BY <1>5, <2>1, <3>1
  <2> HIDE DEF at, a, b
  <2> QED BY <1>3, <2>2, <2>3, <2>4, <2>5, <2>6, <2>7
<1>8. u.root = Node(r, 1)
  <2>1. CASE x = 1
    <3>1. a = Nil /\ at(1) = x + 1
      BY <2>1 DEF Node
    <3> QED BY <1>3, <1>5, <3>1
  <2>2. CASE x # 1
    <3>1. a # Nil /\ at(1) = 1
      BY <2>2, <1>2 DEF Node
    <3> QED BY <1>3, <1>5, <3>1 DEF Chained
  <2> QED BY <2>1, <2>2
<1>9. u.tail = Node(r, Len(r))
  <2>0. Len(r) \in Nat /\ Len(r) = Len(s) - 1
    BY <1>4
  <2>1. CASE x = Len(s)
    <3>1. b = Nil /\ at(Len(r)) = x - 1
      BY <2>0, <2>1 DEF Node
    <3> QED BY <1>3, <1>5, <2>0, <3>1
  <2>2. CASE x # Len(s)
    <3>1. b # Nil /\ at(Len(r)) = Len(s)
      BY <2>0, <2>2, <1>2 DEF Node
    <3> QED BY <1>3, <1>5, <2>0, <3>1 DEF Chained
  <2> QED BY <2>1, <2>2
<1> QED BY <1>3, <1>7, <1>8, <1>9 DEF Chained, u, r

\* One item more in front, or at the end.
LEMMA FrontOne ==
    ASSUME NEW s \in Seq(Item), Once(s), NEW n \in Item, n \notin ToSet(s)
    PROVE  LET r == <<n>> \o s
           IN /\ r \in Seq(Item) /\ Len(r) = Len(s) + 1 /\ Once(r)
              /\ r[1] = n /\ \A y \in 2..(Len(s) + 1) : r[y] = s[y - 1]
              /\ ToSet(r) = ToSet(s) \cup {n}
<1> DEFINE r == <<n>> \o s
<1>1. <<n>> \in Seq(Item) /\ Len(<<n>>) = 1 /\ <<n>>[1] = n /\ Len(s) \in Nat
  OBVIOUS
<1>2. /\ r \in Seq(Item) /\ Len(r) = 1 + Len(s)
      /\ \A y \in 1..(1 + Len(s)) : r[y] = IF y <= 1 THEN <<n>>[y] ELSE s[y - 1]
  BY <1>1, ConcatProperties
<1> HIDE DEF r
<1>3. r[1] = n /\ \A y \in 2..(Len(s) + 1) : r[y] = s[y - 1]
  BY <1>1, <1>2
<1>4. DOMAIN s = 1..Len(s) /\ DOMAIN r = 1..(Len(s) + 1)
  BY <1>1, <1>2
<1>5. \A y \in 1..(Len(s) + 1) : y = 1 \/ (y \in 2..(Len(s) + 1) /\ y - 1 \in 1..Len(s))
  BY <1>1
<1>6. \A x \in 1..Len(s) : x + 1 \in 2..(Len(s) + 1) /\ x + 1 \in 1..(Len(s) + 1) /\ (x + 1) - 1 = x
  BY <1>1
<1>7. ToSet(r) = ToSet(s) \cup {n}
  <2>1. ASSUME NEW i \in ToSet(r) PROVE i \in ToSet(s) \cup {n}
    <3>1. PICK y \in 1..(Len(s) + 1) : i = r[y]
      BY <1>4 DEF ToSet
    <3> QED BY <1>3, <1>4, <1>5, <3>1 DEF ToSet
  <2>2. ASSUME NEW i \in ToSet(s) PROVE i \in ToSet(r)
    <3>1. PICK x \in 1..Len(s) : i = s[x]
      BY <1>4 DEF ToSet
    <3>2. r[x + 1] = i
      BY <1>3, <1>6, <3>1
    <3> QED BY <1>4, <1>6, <3>2 DEF ToSet
  <2>3. 1 \in 1..(Len(s) + 1)
    BY <1>1
  <2>4. n \in ToSet(r)
    BY <1>3, <1>4, <2>3 DEF ToSet
  <2> QED BY <2>1, <2>2, <2>4
<1>8. Once(r)
  <2> SUFFICES ASSUME NEW x \in 1..(Len(s) + 1), NEW y \in 1..(Len(s) + 1), x # y
               PROVE  r[x] # r[y]
    BY <1>1, <1>2 DEF Once
  <2>1. \A z \in 1..Len(s) : s[z] # n
    BY <1>4 DEF ToSet
  <2>2. CASE x = 1 \/ y = 1
    BY <1>3, <1>5, <2>1, <2>2
  <2>3. CASE x # 1 /\ y # 1
    <3>1. x - 1 \in 1..Len(s) /\ y - 1 \in 1..Len(s) /\ x - 1 # y - 1
      BY <2>3
    <3> QED BY <1>3, <1>5, <2>3, <3>1 DEF Once
  <2> QED BY <2>2, <2>3
<1> QED BY <1>1, <1>2, <1>3, <1>7, <1>8 DEF r

LEMMA BackOne ==
    ASSUME NEW s \in Seq(Item), Once(s), NEW n \in Item, n \notin ToSet(s)
    PROVE  LET r == Append(s, n)
           IN /\ r \in Seq(Item) /\ Len(r) = Len(s) + 1 /\ Once(r)
              /\ r[Len(s) + 1] = n /\ \A y \in 1..Len(s) : r[y] = s[y]
              /\ ToSet(r) = ToSet(s) \cup {n}
<1> DEFINE r == Append(s, n)
<1>1. /\ r \in Seq(Item) /\ Len(r) = Len(s) + 1 /\ Len(s) \in Nat
      /\ r[Len(s) + 1] = n /\ \A y \in 1..Len(s) : r[y] = s[y]
  OBVIOUS
<1> HIDE DEF r
<1>2. DOMAIN s = 1..Len(s) /\ DOMAIN r = 1..(Len(s) + 1)
  BY <1>1
<1>3. \A y \in 1..(Len(s) + 1) : y = Len(s) + 1 \/ y \in 1..Len(s)
  BY <1>1
<1>4. 1..Len(s) \subseteq 1..(Len(s) + 1) /\ Len(s) + 1 \in 1..(Len(s) + 1)
  BY <1>1
<1>5. ToSet(r) = ToSet(s) \cup {n}
  BY <1>1, <1>2, <1>3, <1>4 DEF ToSet
<1>6. Once(r)
  <2>1. \A z \in 1..Len(s) : s[z] # n
    BY <1>2 DEF ToSet
  <2> QED BY <1>1, <1>3, <2>1 DEF Once
<1> QED BY <1>1, <1>5, <1>6 DEF r

\* The node in front: the old root has it above itself.
LEMMA ChainFrontEffect ==
    ASSUME NEW map \in Maps, NEW s \in Seq(Item), Once(s), Chained(map, s),
           NEW n \in Item, n \notin ToSet(s)
    PROVE  /\ ChainFront(map, n) \in Maps /\ Chained(ChainFront(map, n), <<n>> \o s)
           /\ ChainFront(map, n).size = map.size /\ ChainFront(map, n).key = map.key
<1> DEFINE u == ChainFront(map, n)
           r == <<n>> \o s
           root == Node(s, 1)
<1>1. /\ r \in Seq(Item) /\ Len(r) = Len(s) + 1 /\ Len(s) \in Nat
      /\ r[1] = n /\ \A y \in 2..(Len(s) + 1) : r[y] = s[y - 1]
  BY FrontOne
<1> HIDE DEF r
<1>2. root \in Link /\ map.root = root /\ root # n /\ Nil \notin Item
  <2>1. \A y \in 1..Len(s) : s[y] # n
    BY DEF ToSet
  <2> QED BY <2>1, Finite DEF Node, Link, Chained
<1>3. /\ u \in Maps /\ u.size = map.size /\ u.key = map.key /\ u.root = n
      /\ u.tail = IF root = Nil THEN n ELSE map.tail
      /\ \A i \in Item : /\ u.down[i] = IF i = n THEN root ELSE map.down[i]
                         /\ u.up[i] = IF i = n THEN Nil ELSE IF i = root THEN n ELSE map.up[i]
  <2> HIDE DEF root
  <2> DEFINE w == PointUp(map, root, n)
  <2>1. /\ w \in Maps /\ w.size = map.size /\ w.key = map.key /\ w.root = map.root
        /\ w.tail = IF root = Nil THEN n ELSE map.tail
        /\ \A i \in Item : w.down[i] = map.down[i] /\ w.up[i] = IF i = root THEN n ELSE map.up[i]
    BY <1>2 DEF PointUp, Maps, Link
  <2>2. u = [w EXCEPT !.up[n] = Nil, !.down[n] = root, !.root = n]
    BY <1>2 DEF ChainFront
  <2> HIDE DEF w, u
  <2> QED BY <1>2, <2>1, <2>2 DEF Maps, Link
<1> HIDE DEF u
<1>4. \A y \in Nat : y > 0 => Node(r, y + 1) = Node(s, y)
  <2> TAKE y \in Nat
  <2> HAVE y > 0
  <2>1. /\ y \in 1..Len(s) <=> y + 1 \in 1..Len(r)
        /\ y \in 1..Len(s) => y + 1 \in 2..(Len(s) + 1) /\ (y + 1) - 1 = y
    BY <1>1
  <2> QED BY <1>1, <2>1 DEF Node
<1>5. Node(r, 1) = n /\ Node(r, 0) = Nil /\ Node(s, 0) = Nil
  BY <1>1 DEF Node
<1>6. ASSUME NEW y \in 1..Len(r)
      PROVE  u.down[r[y]] = Node(r, y + 1) /\ u.up[r[y]] = Node(r, y - 1)
  <2>1. CASE y = 1
    BY <1>1, <1>3, <1>4, <1>5, <2>1
  <2>2. CASE y # 1
    <3> DEFINE x == y - 1
    <3>1. x \in 1..Len(s) /\ x \in Nat /\ x > 0 /\ y = x + 1 /\ y \in 2..(Len(s) + 1)
      BY <1>1, <2>2
    <3>2. r[y] = s[x] /\ s[x] \in Item /\ s[x] # n
      BY <1>1, <3>1 DEF ToSet
    <3>3. map.down[s[x]] = Node(s, x + 1) /\ map.up[s[x]] = Node(s, x - 1)
      BY <3>1 DEF Chained
    <3>4. u.down[r[y]] = Node(r, y + 1)
      <4>1. x + 1 \in Nat /\ x + 1 > 0 /\ (x + 1) + 1 = y + 1
        BY <3>1
      <4> QED BY <1>3, <1>4, <3>2, <3>3, <4>1
    <3>5. CASE x = 1
      <4>1. s[x] = root
        BY <3>1, <3>5 DEF Node
      <4> QED BY <1>3, <1>5, <3>1, <3>2, <3>4, <3>5, <4>1
    <3>6. CASE x # 1
      <4>1. s[x] # root
        BY <3>1, <3>6, <1>2 DEF Node, Once
      <4>2. x - 1 \in Nat /\ x - 1 > 0 /\ (x - 1) + 1 = y - 1
        BY <3>1, <3>6
      <4> QED BY <1>3, <1>4, <3>2, <3>3, <3>4, <4>1, <4>2
    <3> QED BY <3>5, <3>6
  <2> QED BY <2>1, <2>2
<1>7. u.tail = Node(r, Len(r))
  <2>1. CASE Len(s) = 0
    BY <1>1, <1>3, <1>5, <2>1 DEF Node
  <2>2. CASE Len(s) > 0
    <3>1. root # Nil
      BY <1>2, <2>2 DEF Node
    <3> QED BY <1>1, <1>3, <1>4, <2>2, <3>1 DEF Chained
  <2> QED BY <1>1, <2>1, <2>2
<1> QED BY <1>3, <1>5, <1>6, <1>7 DEF Chained, u, r

\* map_push_back, once the trees have the node.
LEMMA SoundBack ==
    ASSUME NEW map, NEW s, Sound(map, s), NEW n \in Item, n \notin ToSet(s)
    PROVE  /\ Sound([ChainBack(map, n) EXCEPT !.size = @ + 1], Append(s, n))
           /\ [ChainBack(map, n) EXCEPT !.size = @ + 1].key = map.key
<1> DEFINE u == [ChainBack(map, n) EXCEPT !.size = @ + 1]
           r == Append(s, n)
           tail == Node(s, Len(s))
<1>1. /\ map \in Maps /\ s \in Seq(Item) /\ Once(s) /\ map.size = Len(s)
      /\ map.tail = tail /\ Chained(map, s)
  BY DEF Sound, Chained
<1>2. /\ r \in Seq(Item) /\ Len(r) = Len(s) + 1 /\ Len(s) \in Nat /\ Once(r)
      /\ r[Len(s) + 1] = n /\ \A y \in 1..Len(s) : r[y] = s[y]
  BY <1>1, BackOne
<1> HIDE DEF r
<1>3. tail \in Link /\ tail # n /\ Nil \notin Item
  <2>1. \A y \in 1..Len(s) : s[y] # n
    BY <1>1 DEF ToSet
  <2> QED BY <1>1, <2>1, Finite DEF Node, Link
<1>4. /\ u \in Maps /\ u.size = map.size + 1 /\ u.key = map.key /\ u.tail = n
      /\ u.root = IF tail = Nil THEN n ELSE map.root
      /\ \A i \in Item : /\ u.up[i] = IF i = n THEN tail ELSE map.up[i]
                         /\ u.down[i] = IF i = n THEN Nil ELSE IF i = tail THEN n ELSE map.down[i]
  <2> HIDE DEF tail
  <2> DEFINE w == PointDown(map, tail, n)
  <2>1. /\ w \in Maps /\ w.size = map.size /\ w.key = map.key
        /\ w.root = IF tail = Nil THEN n ELSE map.root
        /\ \A i \in Item : w.up[i] = map.up[i] /\ w.down[i] = IF i = tail THEN n ELSE map.down[i]
    BY <1>1, <1>3 DEF PointDown, Maps, Link
  <2> DEFINE c == ChainBack(map, n)
  <2>2. c = [w EXCEPT !.up[n] = tail, !.down[n] = Nil, !.tail = n]
    BY <1>1 DEF ChainBack
  <2>3. map.size + 1 \in Nat /\ n \in Link /\ Nil \in Link
    BY <1>1, <1>2 DEF Link
  <2> HIDE DEF w, c
  <2>4. /\ c.up = [w.up EXCEPT ![n] = tail] /\ c.down = [w.down EXCEPT ![n] = Nil]
        /\ c.root = w.root /\ c.tail = n /\ c.size = map.size /\ c.key = map.key
        /\ c \in Maps
    BY <1>3, <2>1, <2>2, <2>3 DEF Maps
  <2>5. u = [c EXCEPT !.size = @ + 1]
    BY DEF c
  <2> HIDE DEF u
  <2>6. /\ u.up = c.up /\ u.down = c.down /\ u.root = c.root /\ u.tail = c.tail
        /\ u.size = map.size + 1 /\ u.key = map.key /\ u \in Maps
    BY <2>3, <2>4, <2>5 DEF Maps
  <2> QED BY <2>1, <2>4, <2>6 DEF Maps
<1> HIDE DEF u
<1>5. \A y \in Int : y <= Len(s) => Node(r, y) = Node(s, y)
  BY <1>2 DEF Node
<1>6. /\ Node(r, Len(s) + 1) = n /\ Node(r, Len(s) + 2) = Nil
      /\ Node(s, 0) = Nil /\ Node(s, Len(s) + 1) = Nil
  BY <1>2 DEF Node
<1>7. ASSUME NEW y \in 1..Len(r)
      PROVE  u.down[r[y]] = Node(r, y + 1) /\ u.up[r[y]] = Node(r, y - 1)
  <2>1. CASE y = Len(s) + 1
    BY <1>2, <1>4, <1>5, <1>6, <2>1
  <2>2. CASE y # Len(s) + 1
    <3>1. y \in 1..Len(s) /\ y - 1 \in Int /\ y - 1 <= Len(s)
      BY <1>2, <2>2
    <3>2. r[y] = s[y] /\ s[y] \in Item /\ s[y] # n
      BY <1>1, <1>2, <3>1 DEF ToSet
    <3>3. map.down[s[y]] = Node(s, y + 1) /\ map.up[s[y]] = Node(s, y - 1)
      BY <1>1, <3>1 DEF Chained
    <3>4. u.up[r[y]] = Node(r, y - 1)
      BY <1>4, <1>5, <3>1, <3>2, <3>3
    <3>5. CASE y = Len(s)
      <4>1. s[y] = tail
        BY <3>1, <3>5 DEF Node
      <4> QED BY <1>4, <1>6, <3>2, <3>4, <3>5, <4>1
    <3>6. CASE y # Len(s)
      <4>1. s[y] # tail
        BY <1>1, <3>1, <3>6 DEF Node, Once
      <4>2. y + 1 \in Int /\ y + 1 <= Len(s)
        BY <3>1, <3>6
      <4> QED BY <1>4, <1>5, <3>2, <3>3, <3>4, <4>1, <4>2
    <3> QED BY <3>5, <3>6
  <2> QED BY <2>1, <2>2
<1>8. u.root = Node(r, 1)
  <2>1. CASE Len(s) = 0
    <3>1. tail = Nil
      BY <2>1 DEF Node
    <3> QED BY <1>4, <1>6, <2>1, <3>1
  <2>2. CASE Len(s) > 0
    <3>1. tail # Nil
      BY <1>1, <1>3, <2>2 DEF Node
    <3> QED BY <1>1, <1>2, <1>4, <1>5, <2>2, <3>1 DEF Chained
  <2> QED BY <1>2, <2>1, <2>2
<1>9. Chained(u, r) /\ u.size = Len(r)
  BY <1>1, <1>2, <1>4, <1>6, <1>7, <1>8 DEF Chained
<1> QED BY <1>2, <1>4, <1>9 DEF Sound, u, r

\* map_push, once the trees have the node; the chain does not care for them.
LEMMA SoundKey ==
    ASSUME NEW map, NEW s, Sound(map, s), NEW key \in Seq(SUBSET Item)
    PROVE  Sound([map EXCEPT !.key = key], s) /\ [map EXCEPT !.key = key].key = key
BY DEF Sound, Chained, Maps

LEMMA SoundFront ==
    ASSUME NEW map, NEW s, Sound(map, s), NEW n \in Item, n \notin ToSet(s)
    PROVE  /\ Sound([ChainFront(map, n) EXCEPT !.size = @ + 1], <<n>> \o s)
           /\ [ChainFront(map, n) EXCEPT !.size = @ + 1].key = map.key
<1> DEFINE u == ChainFront(map, n)
           w == [u EXCEPT !.size = @ + 1]
           r == <<n>> \o s
<1>1. map \in Maps /\ s \in Seq(Item) /\ Once(s) /\ Chained(map, s) /\ map.size = Len(s)
  BY DEF Sound
<1>2. u \in Maps /\ Chained(u, r) /\ u.size = map.size /\ u.key = map.key
  BY <1>1, ChainFrontEffect
<1>3. r \in Seq(Item) /\ Once(r) /\ Len(r) = Len(s) + 1
  BY <1>1, FrontOne
<1> HIDE DEF u, r
<1>4. /\ w \in Maps /\ w.size = u.size + 1 /\ w.key = u.key /\ w.root = u.root
      /\ w.tail = u.tail /\ w.up = u.up /\ w.down = u.down
  BY <1>2 DEF Maps
<1> HIDE DEF w
<1>5. Chained(w, r)
  BY <1>2, <1>4 DEF Chained
<1> QED BY <1>1, <1>2, <1>3, <1>4, <1>5 DEF Sound, u, r, w

\* map_flag_shift: out of the chain and in front again.
LEMMA SoundShift ==
    ASSUME NEW map, NEW s, Sound(map, s), NEW x \in 1..Len(s)
    PROVE  /\ Sound(ChainFront(Unchain(map, s[x]), s[x]), <<s[x]>> \o RemoveAt(s, x))
           /\ ChainFront(Unchain(map, s[x]), s[x]).key = map.key
<1> DEFINE n == s[x]
           u == Unchain(map, n)
           r == RemoveAt(s, x)
<1>1. map \in Maps /\ s \in Seq(Item) /\ Once(s) /\ Chained(map, s) /\ map.size = Len(s)
  BY DEF Sound
<1>2. u \in Maps /\ Chained(u, r) /\ u.size = map.size /\ u.key = map.key
  BY <1>1, UnchainEffect
<1>3. /\ r \in Seq(Item) /\ Once(r) /\ Len(r) = Len(s) - 1
      /\ n \in Item /\ n \notin ToSet(r) /\ Len(s) \in Nat
  BY <1>1, RemoveOne
<1> HIDE DEF n, u, r
<1>4. /\ ChainFront(u, n) \in Maps /\ Chained(ChainFront(u, n), <<n>> \o r)
      /\ ChainFront(u, n).size = u.size /\ ChainFront(u, n).key = u.key
  BY <1>2, <1>3, ChainFrontEffect
<1>5. <<n>> \o r \in Seq(Item) /\ Once(<<n>> \o r) /\ Len(<<n>> \o r) = Len(r) + 1
  BY <1>3, FrontOne
<1>6. Sound(ChainFront(u, n), <<n>> \o r)
  BY <1>1, <1>2, <1>3, <1>4, <1>5 DEF Sound
<1> QED BY <1>2, <1>4, <1>6 DEF n, u, r

\* map_remove: the node is in no tree any more, and the others still are.
LEMMA SoundRemoved ==
    ASSUME NEW map, NEW s, Sound(map, s), NEW x \in 1..Len(s)
    PROVE  LET u == Unlinked(map, s[x])
           IN /\ Sound(u, RemoveAt(s, x)) /\ Len(u.key) = Len(map.key)
              /\ Indexed(map.key, ToSet(s)) => Indexed(u.key, ToSet(s) \ {s[x]})
<1> DEFINE n == s[x]
           w == Unchain(map, n)
           key == [k \in 1..Len(w.key) |-> Delete(w.key[k], n, k)]
           u == Unlinked(map, n)
           r == RemoveAt(s, x)
<1>1. map \in Maps /\ s \in Seq(Item) /\ Once(s) /\ Chained(map, s) /\ map.size = Len(s)
  BY DEF Sound
<1>2. w \in Maps /\ Chained(w, r) /\ w.size = map.size /\ w.key = map.key
  BY <1>1, UnchainEffect
<1>3. /\ r \in Seq(Item) /\ Once(r) /\ Len(r) = Len(s) - 1
      /\ n \in Item /\ n \notin ToSet(r) /\ n \in ToSet(s) /\ Len(s) \in Nat /\ Len(s) > 0
  <2>1. n \in ToSet(s)
    BY <1>1 DEF ToSet
  <2> QED BY <1>1, <2>1, RemoveOne
<1>4. map.key \in Seq(SUBSET Item)
  BY <1>1 DEF Maps
<1> HIDE DEF n, w, r
<1>5. /\ key \in Seq(SUBSET Item) /\ Len(key) = Len(map.key)
      /\ \A k \in 1..Len(map.key) : key[k] = Delete(map.key[k], n, k)
  <2>1. \A k \in 1..Len(map.key) : Delete(map.key[k], n, k) \subseteq Item
    BY <1>4 DEF Delete
  <2>2. Len(map.key) \in Nat
    BY <1>4
  <2> QED BY <1>2, <2>1, <2>2
<1> HIDE DEF key
<1>6. /\ u \in Maps /\ u.size = map.size - 1 /\ u.root = w.root /\ u.tail = w.tail
      /\ u.key = key
      /\ \A i \in Item : i # n => u.up[i] = w.up[i] /\ u.down[i] = w.down[i]
  <2>1. u = [w EXCEPT !.size = @ - 1, !.up[n] = Nil, !.down[n] = Nil, !.key = key]
    BY DEF Unlinked, w, key
  <2>2. map.size \in Nat /\ map.size - 1 \in Nat
    BY <1>1, <1>3
  <2> HIDE DEF u
  <2> QED BY <1>2, <1>3, <1>5, <2>1, <2>2 DEF Maps, Link
<1> HIDE DEF u
<1>7. Chained(u, r)
  <2>1. \A y \in 1..Len(r) : r[y] \in Item /\ r[y] # n
    BY <1>3 DEF ToSet
  <2> QED BY <1>2, <1>6, <2>1 DEF Chained
<1>8. ASSUME Indexed(map.key, ToSet(s)) PROVE Indexed(key, ToSet(s) \ {n})
  <2> SUFFICES ASSUME NEW k \in 1..Len(map.key)
               PROVE  /\ key[k] = ToSet(s) \ {n}
                      /\ \A a, b \in ToSet(s) \ {n} : a # b => ~Same(a, b, k)
    BY <1>5 DEF Indexed
  <2>1. map.key[k] = ToSet(s) /\ \A a, b \in ToSet(s) : a # b => ~Same(a, b, k)
    BY <1>8 DEF Indexed
  <2>2. Same(n, n, k)
    BY DEF Same
  <2> QED BY <1>3, <1>5, <2>1, <2>2 DEF Delete, Find
<1>9. Sound(u, r) /\ Len(u.key) = Len(map.key)
  BY <1>1, <1>3, <1>5, <1>6, <1>7 DEF Sound
<1> QED BY <1>6, <1>8, <1>9 DEF n, u, r

-----------------------------------------------------------------------------
(* The indexes *)

\* What map_key leaves behind: the node in every tree, or, when one of them
\* stopped it, the trees as they were.
Entered(e, key, S, n, short) ==
  \/ /\ e.find = Nil /\ Indexed(e.key, S \cup {n}) /\ short \notin 1..Len(key)
     /\ \A a \in S, k \in 1..Len(key) : ~Same(n, a, k)
  \/ e.find \in S \cup {Failure} /\ e.key = key

LEMMA EnterEffect ==
    ASSUME NEW key \in Seq(SUBSET Item), NEW S \in SUBSET Item, Indexed(key, S),
           NEW n \in Item, n \notin S, NEW short \in Nat
    PROVE  LET e == Enter(key, n, 1, short)
           IN /\ e.key \in Seq(SUBSET Item) /\ Len(e.key) = Len(key)
              /\ Entered(e, key, S, n, short)
<1> DEFINE e == Enter(key, n, 1, short)
           N == Len(key)
           stops == {x \in 1..Len(key) : x = short \/ Find(key[x], n, x) # {}}
           first == Min(stops)
           equal == Find(key[first], n, first)
           all == [x \in 1..Len(key) |-> IF x < 1 THEN key[x] ELSE key[x] \cup {n}]
           back == [x \in 1..Len(key) |->
                      IF x \in 1..(first - 1) THEN Undone(key[x], n, x) ELSE key[x]]
<1>1. /\ N \in Nat /\ key = [x \in 1..N |-> key[x]]
      /\ \A x \in 1..N : key[x] = S /\ \A a, b \in S : a # b => ~Same(a, b, x)
  BY DEF Indexed
<1>2. \A a, k : Same(a, n, k) <=> Same(n, a, k)
  BY DEF Same
<1>3. e = IF stops = {} THEN [find |-> Nil, key |-> all]
          ELSE [find |-> IF first = 1 /\ equal # {} THEN CHOOSE i \in equal : TRUE ELSE Failure,
                key |-> back]
  BY DEF Enter
<1>4. ASSUME NEW x \in 1..N, x \notin stops
      PROVE  x # short /\ \A a \in S : ~Same(n, a, x) /\ ~Same(a, n, x)
  <2>1. x # short /\ Find(S, n, x) = {}
    BY <1>1, <1>4
  <2> QED BY <1>2, <2>1 DEF Find
<1>5. CASE stops = {}
  <2>1. e.find = Nil /\ e.key = all
    <3> HIDE DEF e, all, stops, first, equal, back
    <3> QED BY <1>3, <1>5
  <2>2. \A x \in 1..N : all[x] = S \cup {n}
    BY <1>1
  <2>3. all \in Seq(SUBSET Item) /\ Len(all) = N
    <3>1. all \in [1..N -> SUBSET Item]
      BY <1>1
    <3> HIDE DEF all
    <3> QED BY <1>1, <3>1
  <2>4. \A x \in 1..N : x # short /\ \A a \in S : ~Same(n, a, x) /\ ~Same(a, n, x)
    BY <1>4, <1>5
  <2> HIDE DEF all, stops, N, e
  <2>5. Indexed(all, S \cup {n})
    BY <1>1, <2>2, <2>3, <2>4 DEF Indexed
  <2> QED BY <2>1, <2>3, <2>4, <2>5 DEF N, e, Entered
<1>6. CASE stops # {}
  <2>1. first \in stops /\ \A y \in stops : first <= y
    <3>1. stops \subseteq Nat
      OBVIOUS
    <3> HIDE DEF stops
    <3> QED BY <1>6, <3>1, LeastIsThere
  <2>2. e.find = (IF first = 1 /\ equal # {} THEN CHOOSE i \in equal : TRUE ELSE Failure)
    <3> HIDE DEF e, all, stops, first, equal, back
    <3> QED BY <1>3, <1>6
  <2>3. e.key = back
    <3> HIDE DEF e, all, stops, first, equal, back
    <3> QED BY <1>3, <1>6
  <2>4. equal \subseteq S
    BY <1>1, <2>1 DEF Find
  <2>5. e.find \in S \cup {Failure}
    <3> HIDE DEF equal
    <3> QED BY <2>2, <2>4
  <2>6. ASSUME NEW x \in 1..N, x \in 1..(first - 1) PROVE Undone(key[x], n, x) = S
    <3>1. x \notin stops
      <4> HIDE DEF stops, first
      <4>1. first \in Nat
        BY <2>1 DEF stops
      <4>2. x < first
        BY <2>6, <4>1
      <4> QED BY <2>1, <4>1, <4>2
    <3>2. key[x] = S /\ \A a \in S : ~Same(a, n, x)
      BY <1>1, <1>4, <3>1
    <3>3. Same(n, n, x)
      BY DEF Same
    <3> QED BY <3>2, <3>3 DEF Undone, Delete, Find
  <2>7. back = key
    <3> HIDE DEF first
    <3> QED BY <1>1, <2>6
  <2> HIDE DEF back, e, first
  <2> QED BY <1>1, <2>3, <2>5, <2>7 DEF Entered, e
<1> QED BY <1>5, <1>6

\* The items that are below n under key k.
Before(S, n, k) == {a \in S : Key[k][a] < Key[k][n]}

\* twalk2 visits every node once, in the order of the key.
LEMMA WalkEffect ==
    ASSUME NEW S \in SUBSET Item, NEW k \in 1..Len(Key),
           \A a, b \in S : a # b => ~Same(a, b, k)
    PROVE  LET s == Walk(S, k)
           IN /\ s \in Seq(Item) /\ Len(s) = Cardinality(S) /\ Once(s)
              /\ ToSet(s) = S
              /\ \A x, y \in 1..Len(s) : x < y => Key[k][s[x]] < Key[k][s[y]]
<1> DEFINE s == Walk(S, k)
           N == Cardinality(S)
           place == [n \in S |-> Key[k][n]]
           rank == [n \in S |-> Cardinality(Before(S, n, k))]
<1>1. IsFiniteSet(S) /\ N \in Nat
  BY Finite, FS_Subset, FS_CardinalityType
<1>2. /\ \A n \in S : place[n] \in Int /\ Key[k][n] = place[n]
      /\ \A a, b \in S : a # b => place[a] # place[b]
  <2>1. Key[k] \in [Item -> Int]
    BY MapAssumption
  <2> QED BY <2>1 DEF Same
<1> HIDE DEF place
<1>3. \A n \in S : Before(S, n, k) = {a \in S : place[a] < place[n]}
  BY <1>2 DEF Before
<1>4. ASSUME NEW n \in S
      PROVE  /\ IsFiniteSet(Before(S, n, k)) /\ rank[n] \in 0..(N - 1)
  <2>1. /\ Before(S, n, k) \in SUBSET S /\ n \in S /\ n \notin Before(S, n, k)
    BY <1>2, <1>3
  <2>2. /\ IsFiniteSet(Before(S, n, k)) /\ Cardinality(Before(S, n, k)) <= N
        /\ Cardinality(Before(S, n, k)) # N
    BY <1>1, <2>1, FS_Subset
  <2>3. Cardinality(Before(S, n, k)) \in Nat
    BY <2>2, FS_CardinalityType
  <2> QED BY <1>1, <2>2, <2>3
<1>5. ASSUME NEW a \in S, NEW b \in S, place[a] < place[b] PROVE rank[a] < rank[b]
  <2>1. Before(S, a, k) \in SUBSET Before(S, b, k) /\ a \in Before(S, b, k) \ Before(S, a, k)
    BY <1>2, <1>3, <1>5
  <2>2. /\ Cardinality(Before(S, a, k)) <= Cardinality(Before(S, b, k))
        /\ Cardinality(Before(S, a, k)) # Cardinality(Before(S, b, k))
    BY <1>4, <2>1, FS_Subset
  <2> QED BY <1>4, <2>2
<1>6. \A a, b \in S : a # b => rank[a] # rank[b]
  <2> SUFFICES ASSUME NEW a \in S, NEW b \in S, a # b PROVE rank[a] # rank[b]
    OBVIOUS
  <2>1. place[a] < place[b] \/ place[b] < place[a]
    BY <1>2
  <2>2. rank[a] \in Int /\ rank[b] \in Int
    BY <1>4
  <2> HIDE DEF rank
  <2> QED BY <1>5, <2>1, <2>2
<1>7. \A x \in 1..N : \E n \in S : rank[n] = x - 1
  <2>1. rank \in Injection(S, 0..(N - 1))
    <3>1. rank \in [S -> 0..(N - 1)]
      BY <1>4
    <3> HIDE DEF rank
    <3> QED BY <1>6, <3>1 DEF Injection, IsInjective
  <2>2. IsFiniteSet(0..(N - 1)) /\ Cardinality(0..(N - 1)) = N
    <3>1. 0 \in Int /\ N - 1 \in Int
      BY <1>1
    <3>2. /\ IsFiniteSet(0..(N - 1))
          /\ Cardinality(0..(N - 1)) = IF 0 > N - 1 THEN 0 ELSE (N - 1) - 0 + 1
      BY <3>1, FS_Interval
    <3> QED BY <1>1, <3>2
  <2>3. rank \in Surjection(S, 0..(N - 1))
    BY <2>1, <2>2, FS_Injection
  <2>4. \A y \in 0..(N - 1) : \E n \in S : rank[n] = y
    BY <2>3 DEF Surjection
  <2>5. \A x \in 1..N : x - 1 \in 0..(N - 1)
    BY <1>1
  <2> QED BY <2>4, <2>5
<1>8. /\ DOMAIN s = 1..N /\ s = [x \in 1..N |-> s[x]]
      /\ \A x \in 1..N : s[x] \in S /\ rank[s[x]] = x - 1
  <2>1. s = [x \in 1..N |-> CHOOSE n \in S : Cardinality(Before(S, n, k)) = x - 1]
    BY DEF Walk, Before
  <2>2. \A x \in 1..N : \E n \in S : Cardinality(Before(S, n, k)) = x - 1
    BY <1>7
  <2> HIDE DEF s
  <2>3. \A x \in 1..N : s[x] \in S /\ Cardinality(Before(S, s[x], k)) = x - 1
    BY <2>1, <2>2
  <2> QED BY <2>1, <2>3
<1> HIDE DEF s, rank, N
<1>9. s \in Seq(Item) /\ Len(s) = N /\ Len(s) = Cardinality(S)
  <2>1. s \in [1..N -> Item]
    BY <1>8
  <2> QED BY <1>1, <2>1 DEF N
<1>10. Once(s)
  BY <1>1, <1>8, <1>9 DEF Once
<1>11. ToSet(s) = S
  <2>1. ASSUME NEW n \in S PROVE n \in ToSet(s)
    <3> DEFINE x == rank[n] + 1
    <3>1. x \in 1..N /\ x - 1 = rank[n]
      BY <1>1, <1>4
    <3>2. rank[s[x]] = rank[n]
      BY <1>8, <3>1
    <3>3. s[x] = n
      BY <1>6, <1>8, <3>1, <3>2
    <3> QED BY <1>8, <3>1, <3>3 DEF ToSet
  <2>2. ToSet(s) \subseteq S
    BY <1>8 DEF ToSet
  <2> QED BY <2>1, <2>2
<1>12. ASSUME NEW x \in 1..N, NEW y \in 1..N, x < y PROVE Key[k][s[x]] < Key[k][s[y]]
  <2>1. s[x] \in S /\ s[y] \in S /\ rank[s[x]] < rank[s[y]] /\ s[x] # s[y]
    BY <1>1, <1>8, <1>12
  <2>2. ~(place[s[y]] < place[s[x]])
    BY <1>1, <1>5, <1>8, <1>12, <2>1
  <2> QED BY <1>2, <2>1, <2>2
<1> QED BY <1>9, <1>10, <1>11, <1>12 DEF s

-----------------------------------------------------------------------------
(* States and steps *)

\* The chain reads the same from either end.
LEMMA Reads ==
    ASSUME NEW map, NEW s, Sound(map, s)
    PROVE  Reached(map.down, map.root) = s /\ Reached(map.up, map.tail) = Reverse(s)
<1> DEFINE r == Reverse(s)
           back(x) == Len(s) + 1 - x
<1>1. /\ map \in Maps /\ s \in Seq(Item) /\ Once(s) /\ Chained(map, s) /\ Len(s) \in Nat
      /\ map.down \in [Item -> Link] /\ map.up \in [Item -> Link]
  BY DEF Sound, Maps
<1>2. /\ r \in Seq(Item) /\ Len(r) = Len(s)
      /\ \A x \in 1..Len(s) : r[x] = s[back(x)]
  BY <1>1 DEF Reverse
<1> HIDE DEF r
<1>3. \A x \in 1..Len(s) : back(x) \in 1..Len(s)
  BY <1>1
<1>4. Once(r)
  BY <1>1, <1>2, <1>3 DEF Once
<1>5. map.tail = Node(r, 1)
  BY <1>1, <1>2 DEF Chained, Node
<1>6. ASSUME NEW x \in 1..Len(r) PROVE map.up[r[x]] = Node(r, x + 1)
  <2>1. r[x] = s[back(x)] /\ map.up[s[back(x)]] = Node(s, back(x) - 1)
    BY <1>1, <1>2, <1>3 DEF Chained
  <2>2. CASE x = Len(s)
    BY <1>1, <1>2, <2>1, <2>2 DEF Node
  <2>3. CASE x # Len(s)
    <3>1. x + 1 \in 1..Len(s) /\ back(x + 1) = back(x) - 1 /\ back(x) - 1 \in 1..Len(s)
      BY <1>1, <1>2, <2>3
    <3> QED BY <1>2, <2>1, <3>1 DEF Node
  <2> QED BY <2>2, <2>3
<1>7. Reached(map.up, map.tail) = r
  BY <1>1, <1>2, <1>4, <1>5, <1>6, ChainReads
<1>8. Reached(map.down, map.root) = s
  BY <1>1, ChainReads DEF Chained
<1> QED BY <1>7, <1>8 DEF r

\* What the invariant says of the chain, from either end.
LEMMA Facts ==
    ASSUME IInv
    PROVE  /\ Sound(m, Downwards) /\ ToSet(Downwards) = held /\ held \in SUBSET Item
           /\ Downwards \in Seq(Item) /\ Len(Downwards) \in Nat
           /\ DOMAIN Downwards = 1..Len(Downwards) /\ m.size = Len(Downwards)
           /\ Upwards = Reverse(Downwards) /\ Once(Downwards)
           /\ m \in Maps /\ m.key \in Seq(SUBSET Item) /\ Len(m.key) \in 0..Len(Key)
           /\ broken \in BOOLEAN
<1>1. Sound(m, Downwards) /\ ToSet(Downwards) = held /\ MapTypeOK
  BY DEF IInv
<1>2. Upwards = Reverse(Downwards)
  BY <1>1, Reads DEF Upwards
<1>3. Downwards \in Seq(Item) /\ Once(Downwards) /\ m \in Maps /\ m.size = Len(Downwards)
  BY <1>1 DEF Sound
<1>4. held \in SUBSET Item /\ broken \in BOOLEAN /\ Len(m.key) <= Len(Key)
  BY <1>1 DEF MapTypeOK
<1>5. m.key \in Seq(SUBSET Item) /\ Len(m.key) \in Nat /\ Len(Key) \in Nat
  BY <1>3, MapAssumption DEF Maps
<1>6. DOMAIN Downwards = 1..Len(Downwards) /\ Len(Downwards) \in Nat
  BY <1>3
<1> HIDE DEF Downwards
<1> QED BY <1>1, <1>2, <1>3, <1>4, <1>5, <1>6

\* A step that leaves the chain s.
LEMMA StepTo ==
    ASSUME NEW s, Sound(m', s), ToSet(s) = held', Len(m'.key) <= Len(Key),
           broken' \in BOOLEAN, ~broken' => Indexed(m'.key, held')
    PROVE  IInv' /\ Downwards' = s
<1>1. Downwards' = s
  BY Reads DEF Downwards
<1>2. MapTypeOK'
  <2>1. m' \in Maps /\ s \in Seq(Item)
    BY DEF Sound
  <2>2. held' \subseteq Item
    BY <2>1 DEF ToSet
  <2> QED BY <2>1, <2>2 DEF MapTypeOK, Maps, Link
<1> QED BY <1>1, <1>2 DEF IInv, Working

\* Item i may join the items of s.
LEMMA FitsIn ==
    ASSUME IInv, NEW i \in Item, i \notin held,
           \A a \in held, k \in 1..Len(m.key) : ~Same(i, a, k)
    PROVE  Contents!Fits(i)
<1>1. ToSet(Downwards) = held
  BY DEF IInv
<1>2. \A x \in DOMAIN Downwards : Downwards[x] \in held
  BY <1>1 DEF ToSet
<1> QED BY <1>2 DEF Contents!Fits, Contents!Apart, Same

\* map_push: in front, or not at all.
LEMMA PushedEffect ==
    ASSUME NEW map, NEW s, Sound(map, s), Indexed(map.key, ToSet(s)),
           NEW i \in Item, i \notin ToSet(s), NEW short \in Nat
    PROVE  LET u == Pushed(map, i, short)
           IN \/ /\ Sound(u, <<i>> \o s) /\ Indexed(u.key, ToSet(s) \cup {i})
                 /\ Len(u.key) = Len(map.key)
                 /\ \A a \in ToSet(s), k \in 1..Len(map.key) : ~Same(i, a, k)
              \/ u = map
<1> DEFINE e == Enter(map.key, i, 1, short)
           w == [map EXCEPT !.key = e.key]
           u == Pushed(map, i, short)
<1>1. map \in Maps /\ s \in Seq(Item) /\ map.key \in Seq(SUBSET Item)
  BY DEF Sound, Maps
<1>2. ToSet(s) \in SUBSET Item
  BY <1>1 DEF ToSet
<1>3. /\ e.key \in Seq(SUBSET Item) /\ Len(e.key) = Len(map.key)
      /\ Entered(e, map.key, ToSet(s), i, short)
  BY <1>1, <1>2, EnterEffect
<1>4. u = IF e.find = Nil THEN [ChainFront(w, i) EXCEPT !.size = @ + 1] ELSE w
  BY DEF Pushed
<1> HIDE DEF e, u
<1>5. CASE e.find = Nil
  <2>1. Sound(w, s) /\ w.key = e.key
    BY <1>3, SoundKey
  <2> HIDE DEF w
  <2>2. Sound(u, <<i>> \o s) /\ u.key = e.key
    BY <1>4, <1>5, <2>1, SoundFront
  <2>3. /\ Indexed(e.key, ToSet(s) \cup {i})
        /\ \A a \in ToSet(s), k \in 1..Len(map.key) : ~Same(i, a, k)
    BY <1>2, <1>3, <1>5, Finite DEF Entered
  <2> QED BY <1>3, <2>2, <2>3 DEF u
<1>6. CASE e.find # Nil
  <2>1. e.key = map.key
    BY <1>3, <1>6 DEF Entered
  <2>2. w = map
    BY <1>1, <2>1 DEF Maps
  <2> QED BY <1>4, <1>6, <2>2 DEF u
<1> QED BY <1>5, <1>6

LEMMA PushStep ==
    ASSUME IInv, NEW i \in Item, NEW short \in Nat, map_push(i, short)
    PROVE  IInv' /\ [Contents!Next]_(Contents!vars)
<1> DEFINE s == Downwards
           r == <<i>> \o s
<1>1. /\ Working /\ i \notin held /\ m' = Pushed(m, i, short) /\ UNCHANGED broken
      /\ held' = IF m'.size > m.size THEN held \cup {i} ELSE held
  BY DEF map_push
<1>2. /\ Sound(m, s) /\ ToSet(s) = held /\ m.size = Len(s) /\ Len(s) \in Nat
      /\ s \in Seq(Item) /\ Once(s) /\ Len(m.key) \in 0..Len(Key) /\ broken \in BOOLEAN
  BY Facts
<1>3. Indexed(m.key, held)
  BY <1>1 DEF IInv
<1> HIDE DEF s
<1>4. CASE /\ Sound(m', r) /\ Indexed(m'.key, held \cup {i}) /\ Len(m'.key) = Len(m.key)
           /\ \A a \in held, k \in 1..Len(m.key) : ~Same(i, a, k)
  <2>1. ToSet(r) = held \cup {i} /\ Len(r) = Len(s) + 1
    BY <1>1, <1>2, FrontOne
  <2> HIDE DEF r
  <2>2. m'.size = Len(r)
    BY <1>4 DEF Sound
  <2>3. held' = held \cup {i}
    BY <1>1, <1>2, <2>1, <2>2
  <2>4. /\ Sound(m', r) /\ ToSet(r) = held' /\ Len(m'.key) <= Len(Key)
        /\ broken' \in BOOLEAN /\ Indexed(m'.key, held')
    BY <1>1, <1>2, <1>4, <2>1, <2>3
  <2>5. IInv' /\ Downwards' = r
    BY <2>4, StepTo
  <2>6. Contents!Fits(i)
    BY <1>1, <1>4, FitsIn
  <2>7. Contents!Push(i)
    BY <1>4, <2>5, <2>6 DEF Contents!Push, r, s
  <2> QED BY <2>5, <2>7 DEF Contents!Next
<1>5. CASE m' = m
  <2>1. held' = held
    BY <1>1, <1>2, <1>5
  <2>2. IInv' /\ Downwards' = s
    BY <1>1, <1>2, <1>3, <1>5, <2>1, StepTo
  <2> QED BY <1>5, <2>2 DEF Contents!vars, s
<1>6. \/ /\ Sound(m', r) /\ Indexed(m'.key, held \cup {i}) /\ Len(m'.key) = Len(m.key)
         /\ \A a \in held, k \in 1..Len(m.key) : ~Same(i, a, k)
      \/ m' = m
  <2> DEFINE u == Pushed(m, i, short)
  <2>1. \/ /\ Sound(u, r) /\ Indexed(u.key, ToSet(s) \cup {i}) /\ Len(u.key) = Len(m.key)
           /\ \A a \in ToSet(s), k \in 1..Len(m.key) : ~Same(i, a, k)
        \/ u = m
    BY <1>1, <1>2, <1>3, PushedEffect
  <2> HIDE DEF u, r
  <2>2. m' = u
    BY <1>1 DEF u
  <2> QED BY <1>2, <2>1, <2>2
<1> QED BY <1>4, <1>5, <1>6

LEMMA PushBackStep ==
    ASSUME IInv, NEW i \in Item, NEW short \in Nat, map_push_back(i, short)
    PROVE  IInv' /\ [Contents!Next]_(Contents!vars)
<1> DEFINE s == Downwards
           r == Append(s, i)
           e == Enter(m.key, i, 1, short)
           w == [m EXCEPT !.key = e.key]
           u == [ChainBack(w, i) EXCEPT !.size = @ + 1]
<1>1. Working /\ i \notin held /\ UNCHANGED broken
  BY DEF map_push_back
<1>2. /\ Sound(m, s) /\ ToSet(s) = held /\ held \in SUBSET Item /\ m \in Maps
      /\ s \in Seq(Item) /\ Once(s) /\ Len(m.key) \in 0..Len(Key) /\ broken \in BOOLEAN
      /\ m.key \in Seq(SUBSET Item)
  BY Facts
<1>3. Indexed(m.key, held)
  BY <1>1 DEF IInv
<1>4. /\ e.key \in Seq(SUBSET Item) /\ Len(e.key) = Len(m.key)
      /\ Entered(e, m.key, held, i, short)
  BY <1>1, <1>2, <1>3, EnterEffect
<1>5. IF e.find = Nil THEN m' = u /\ held' = held \cup {i}
                      ELSE m' = w /\ held' = held
  BY DEF map_push_back
<1> HIDE DEF s, e
<1>6. CASE e.find = Nil
  <2>0. Sound(u, r) /\ u.key = e.key
    <3>1. Sound(w, s) /\ w.key = e.key
      BY <1>2, <1>4, SoundKey
    <3> HIDE DEF w
    <3> QED BY <1>1, <1>2, <3>1, SoundBack
  <2>1. m' = u /\ held' = held \cup {i}
    <3> HIDE DEF u
    <3> QED BY <1>5, <1>6
  <2>2. ToSet(r) = held \cup {i}
    BY <1>1, <1>2, BackOne
  <2>3. /\ Indexed(e.key, held \cup {i})
        /\ \A a \in held, k \in 1..Len(m.key) : ~Same(i, a, k)
    BY <1>2, <1>4, <1>6, Finite DEF Entered
  <2> HIDE DEF r, u
  <2>4. /\ Sound(m', r) /\ ToSet(r) = held' /\ Len(m'.key) <= Len(Key)
        /\ broken' \in BOOLEAN /\ Indexed(m'.key, held')
    BY <1>1, <1>2, <1>4, <2>0, <2>1, <2>2, <2>3
  <2>5. IInv' /\ Downwards' = r
    BY <2>4, StepTo
  <2>6. Contents!Fits(i)
    BY <1>1, <2>3, FitsIn
  <2>7. Contents!PushBack(i)
    BY <1>4, <2>0, <2>1, <2>5, <2>6 DEF Contents!PushBack, r, s
  <2> QED BY <2>5, <2>7 DEF Contents!Next
<1>7. CASE e.find # Nil
  <2>1. m' = m /\ held' = held
    BY <1>2, <1>4, <1>5, <1>7 DEF Entered, Maps
  <2>2. IInv' /\ Downwards' = s
    BY <1>1, <1>2, <1>3, <2>1, StepTo
  <2> QED BY <2>1, <2>2 DEF Contents!vars, s
<1> QED BY <1>6, <1>7

\* map_push_find: in front, or one that was there moves to the front; without
\* memory for the copy the chain is left as it was.
LEMMA PushFindStep ==
    ASSUME IInv, NEW i \in Item, NEW short \in Nat, NEW shift \in BOOLEAN,
           NEW copied \in BOOLEAN, map_push_find(i, short, shift, copied)
    PROVE  IInv' /\ [Contents!Next]_(Contents!vars)
<1> DEFINE s == Downwards
           r == <<i>> \o s
           e == Enter(m.key, i, 1, short)
           w == [m EXCEPT !.key = e.key]
           u == [ChainFront(w, i) EXCEPT !.size = @ + 1]
<1>1. Working /\ i \notin held
  BY DEF map_push_find
<1>2. /\ Sound(m, s) /\ ToSet(s) = held /\ held \in SUBSET Item /\ m \in Maps
      /\ s \in Seq(Item) /\ Once(s) /\ Len(m.key) \in 0..Len(Key) /\ broken \in BOOLEAN
      /\ m.key \in Seq(SUBSET Item) /\ Len(s) \in Nat /\ DOMAIN s = 1..Len(s)
  BY Facts
<1>3. Indexed(m.key, held)
  BY <1>1 DEF IInv
<1>4. /\ e.key \in Seq(SUBSET Item) /\ Len(e.key) = Len(m.key)
      /\ Entered(e, m.key, held, i, short)
  BY <1>1, <1>2, <1>3, EnterEffect
<1>5. \/ /\ e.find = Nil /\ m' = (IF copied THEN u ELSE w)
         /\ held' = (IF copied THEN held \cup {i} ELSE held) /\ broken' = ~copied
      \/ /\ e.find \in Item /\ UNCHANGED <<held, broken>>
         /\ m' = IF shift THEN ChainFront(Unchain(w, e.find), e.find) ELSE w
      \/ e.find = Failure /\ m' = w /\ UNCHANGED <<held, broken>>
  BY DEF map_push_find
<1>6. Sound(w, s) /\ w.key = e.key
  BY <1>2, <1>4, SoundKey
<1> HIDE DEF s, e, w
<1>7. CASE e.find = Nil /\ copied
  <2>1. Sound(u, r) /\ u.key = e.key
    BY <1>1, <1>2, <1>6, SoundFront
  <2> HIDE DEF u
  <2>2. m' = u /\ held' = held \cup {i} /\ ~broken'
    BY <1>5, <1>7, Finite
  <2>3. ToSet(r) = held \cup {i}
    BY <1>1, <1>2, FrontOne
  <2>4. /\ Indexed(e.key, held \cup {i})
        /\ \A a \in held, k \in 1..Len(m.key) : ~Same(i, a, k)
    BY <1>2, <1>4, <1>7, Finite DEF Entered
  <2> HIDE DEF r
  <2>5. /\ Sound(m', r) /\ ToSet(r) = held' /\ Len(m'.key) <= Len(Key)
        /\ broken' \in BOOLEAN /\ Indexed(m'.key, held')
    <3>1. broken' = FALSE
      BY <1>5, <1>7, Finite
    <3>2. Sound(m', r) /\ Indexed(m'.key, held')
      BY <2>1, <2>2, <2>4
    <3>3. Len(m'.key) <= Len(Key)
      BY <1>2, <1>4, <2>1, <2>2
    <3> QED BY <2>2, <2>3, <3>1, <3>2, <3>3
  <2>6. IInv' /\ Downwards' = r
    BY <2>5, StepTo
  <2>7. Contents!Fits(i)
    BY <1>1, <2>4, FitsIn
  <2>8. Contents!Push(i)
    BY <1>4, <2>1, <2>2, <2>6, <2>7 DEF Contents!Push, r, s
  <2> QED BY <2>6, <2>8 DEF Contents!Next
<1>8. CASE e.find = Nil /\ ~copied
  <2>1. m' = w /\ held' = held /\ broken' = TRUE
    BY <1>5, <1>8, Finite
  <2>2. /\ Sound(m', s) /\ ToSet(s) = held' /\ Len(m'.key) <= Len(Key)
        /\ broken' \in BOOLEAN /\ (~broken' => Indexed(m'.key, held'))
    BY <1>2, <1>4, <1>6, <2>1
  <2>3. IInv' /\ Downwards' = s
    BY <2>2, StepTo
  <2> QED BY <1>4, <1>6, <2>1, <2>3 DEF Contents!vars, s
<1>9. CASE e.find # Nil
  <2>1. e.key = m.key /\ e.find \in held \cup {Failure}
    BY <1>4, <1>9 DEF Entered
  <2>2. w = m
    BY <1>2, <2>1 DEF w, Maps
  <2>3. held' = held /\ broken' = broken
    BY <1>5, <1>9
  <2>4. CASE m' = m
    <3>1. IInv' /\ Downwards' = s
      BY <1>1, <1>2, <1>3, <2>3, <2>4, StepTo
    <3> QED BY <2>4, <3>1 DEF Contents!vars, s
  <2>5. CASE e.find \in Item /\ m' = ChainFront(Unchain(m, e.find), e.find)
    <3>1. PICK x \in 1..Len(s) : e.find = s[x]
      BY <1>2, <2>1, <2>5, Finite DEF ToSet
    <3> DEFINE n == s[x]
               t == <<n>> \o RemoveAt(s, x)
    <3>2. Sound(m', t) /\ m'.key = m.key
      <4> DEFINE v == ChainFront(Unchain(m, n), n)
      <4>1. Sound(v, t) /\ v.key = m.key
        BY <1>2, SoundShift
      <4>2. m' = v
        BY <2>5, <3>1
      <4> HIDE DEF v, t
      <4> QED BY <4>1, <4>2
    <3>3. ToSet(t) = held
      <4>1. /\ RemoveAt(s, x) \in Seq(Item) /\ Once(RemoveAt(s, x))
            /\ ToSet(RemoveAt(s, x)) = held \ {n}
        BY <1>2, RemoveOne
      <4>2. n \in Item /\ n \in held
        BY <1>2 DEF ToSet
      <4>3. ToSet(t) = (held \ {n}) \cup {n}
        <5> HIDE DEF n
        <5> QED BY <4>1, <4>2, FrontOne
      <4> QED BY <4>2, <4>3
    <3> HIDE DEF t
    <3>4. IInv' /\ Downwards' = t
      <4>1. /\ Sound(m', t) /\ ToSet(t) = held' /\ Len(m'.key) <= Len(Key)
            /\ broken' \in BOOLEAN /\ Indexed(m'.key, held')
        BY <1>2, <1>3, <2>3, <3>2, <3>3
      <4> QED BY <4>1, StepTo
    <3>5. Contents!Shift(x)
      BY <3>2, <3>4 DEF Contents!Shift, Contents!Without, RemoveAt, t, s
    <3> QED BY <1>2, <3>4, <3>5 DEF Contents!Next, s
  <2> QED BY <1>5, <1>9, <2>2, <2>4, <2>5
<1> QED BY <1>7, <1>8, <1>9

\* map_remove of one of the items takes it out.
LEMMA RemoveStep ==
    ASSUME IInv, Working, NEW x \in 1..Len(Downwards), Remove_(Downwards[x])
    PROVE  IInv' /\ [Contents!Next]_(Contents!vars)
<1> DEFINE s == Downwards
           n == s[x]
           r == RemoveAt(s, x)
<1>1. m' = Unlinked(m, n) /\ held' = held \ {n} /\ broken' = broken
  BY DEF Remove_
<1>2. /\ Sound(m, s) /\ ToSet(s) = held /\ Len(m.key) \in 0..Len(Key)
      /\ s \in Seq(Item) /\ Once(s) /\ broken \in BOOLEAN /\ DOMAIN s = 1..Len(s)
      /\ x \in 1..Len(s)
  BY Facts
<1>3. Indexed(m.key, held)
  BY DEF IInv
<1> HIDE DEF s
<1>4. Sound(m', r) /\ Len(m'.key) = Len(m.key) /\ Indexed(m'.key, held')
  <2> DEFINE u == Unlinked(m, n)
  <2>1. /\ Sound(u, r) /\ Len(u.key) = Len(m.key)
        /\ Indexed(m.key, ToSet(s)) => Indexed(u.key, ToSet(s) \ {n})
    BY <1>2, SoundRemoved
  <2> HIDE DEF u, r, n
  <2>2. Indexed(u.key, held \ {n})
    BY <1>2, <1>3, <2>1
  <2>3. m' = u
    BY <1>1 DEF u
  <2> QED BY <1>1, <2>1, <2>2, <2>3
<1>5. ToSet(r) = held'
  BY <1>1, <1>2, RemoveOne DEF s
<1> HIDE DEF r
<1>6. IInv' /\ Downwards' = r
  <2>1. Len(m'.key) <= Len(Key) /\ broken' \in BOOLEAN
    BY <1>1, <1>2, <1>4
  <2> QED BY <1>4, <1>5, <2>1, StepTo
<1>7. Contents!Take(x)
  BY <1>4, <1>6 DEF Contents!Take, Contents!Without, RemoveAt, r, s
<1> QED BY <1>2, <1>6, <1>7 DEF Contents!Next, s

LEMMA GetStep ==
    ASSUME IInv, NEW i \in Item, NEW k \in 1..Len(Key), map_get(i, k)
    PROVE  IInv' /\ [Contents!Next]_(Contents!vars)
<1>1. Working /\ k \in 1..Len(m.key)
  BY DEF map_get
<1>2. PICK n \in Found(i, k) : Remove_(n)
  BY DEF map_get
<1>3. n \in ToSet(Downwards)
  BY <1>1, <1>2, Facts DEF IInv, Indexed, Found, Find
<1>4. PICK x \in 1..Len(Downwards) : n = Downwards[x]
  BY <1>3, Facts DEF ToSet
<1> HIDE DEF Downwards
<1> QED BY <1>1, <1>2, <1>4, RemoveStep

\* The node at either end is the first or the last of the items.
LEMMA PopStep ==
    ASSUME IInv, map_pop \/ map_pop_back
    PROVE  IInv' /\ [Contents!Next]_(Contents!vars)
<1> DEFINE s == Downwards
<1>1. Working /\ ((m.root # Nil /\ Remove_(m.root)) \/ (m.tail # Nil /\ Remove_(m.tail)))
  BY DEF map_pop, map_pop_back
<1>2. m.root = Node(s, 1) /\ m.tail = Node(s, Len(s))
  BY Facts DEF Sound, Chained
<1>3. \E x \in 1..Len(s) : Remove_(s[x])
  <2> HIDE DEF s
  <2> QED BY <1>1, <1>2 DEF Node
<1> HIDE DEF Remove_
<1> QED BY <1>1, <1>3, RemoveStep

LEMMA PopBackWhenStep ==
    ASSUME IInv, NEW yes \in SUBSET Item, map_pop_back_when(yes)
    PROVE  IInv' /\ [Contents!Next]_(Contents!vars)
<1> DEFINE s == Downwards
<1>1. PICK x \in 1..Len(Upwards) : Remove_(Upwards[x])
  BY DEF map_pop_back_when
<1>2. Working
  BY DEF map_pop_back_when
<1>3. s \in Seq(Item) /\ Upwards = Reverse(s)
  BY Facts
<1> HIDE DEF s, Upwards
<1>4. /\ Len(Upwards) = Len(s) /\ Len(s) \in Nat
      /\ \A y \in 1..Len(s) : Upwards[y] = s[(Len(s) - y) + 1]
  BY <1>3 DEF Reverse
<1>5. (Len(s) - x) + 1 \in 1..Len(s) /\ Upwards[x] = s[(Len(s) - x) + 1]
  BY <1>4
<1> QED BY <1>1, <1>2, <1>5, RemoveStep DEF s

-----------------------------------------------------------------------------
(* The operations that are loops *)

\* A map of the items t, with N keys.
Holds(w, t, N) == Sound(w, t) /\ Len(w.key) = N /\ Indexed(w.key, ToSet(t))

LEMMA HoldsRemoved ==
    ASSUME NEW w, NEW t, NEW N, Holds(w, t, N), NEW y \in 1..Len(t)
    PROVE  /\ Holds(Unlinked(w, t[y]), RemoveAt(t, y), N) /\ t \in Seq(Item)
           /\ RemoveAt(t, y) \in Seq(Item) /\ Len(RemoveAt(t, y)) = Len(t) - 1
           /\ \A z \in 1..(Len(t) - 1) : RemoveAt(t, y)[z] = t[IF z < y THEN z ELSE z + 1]
<1> DEFINE u == Unlinked(w, t[y])
           r == RemoveAt(t, y)
<1>1. Sound(w, t) /\ Len(w.key) = N /\ Indexed(w.key, ToSet(t))
  BY DEF Holds
<1>2. t \in Seq(Item) /\ Once(t)
  BY <1>1 DEF Sound
<1>3. /\ r \in Seq(Item) /\ Len(r) = Len(t) - 1 /\ ToSet(r) = ToSet(t) \ {t[y]}
      /\ \A z \in 1..(Len(t) - 1) : r[z] = t[IF z < y THEN z ELSE z + 1]
  BY <1>2, RemoveOne
<1>4. /\ Sound(u, r) /\ Len(u.key) = Len(w.key)
      /\ Indexed(w.key, ToSet(t)) => Indexed(u.key, ToSet(t) \ {t[y]})
  BY <1>1, SoundRemoved
<1> HIDE DEF u, r
<1>5. Holds(u, r, N)
  BY <1>1, <1>3, <1>4 DEF Holds
<1> QED BY <1>2, <1>3, <1>5 DEF u, r

\* A turn of map_until leaves a sequence without its last item, or as it is.
UntilTurn(w, yes) == IF w.tail \notin yes THEN w ELSE Unlinked(w, w.tail)
Tops(s, N) == {w \in Maps : \E n \in 0..Len(s) : Holds(w, SubSeq(s, 1, n), N)}

LEMMA UntilTurnEffect ==
    ASSUME NEW s \in Seq(Item), NEW N, NEW yes \in SUBSET Item, NEW w \in Tops(s, N)
    PROVE  UntilTurn(w, yes) \in Tops(s, N)
<1>1. PICK n \in 0..Len(s) : Holds(w, SubSeq(s, 1, n), N)
  BY DEF Tops
<1> DEFINE t == SubSeq(s, 1, n)
<1>2. t \in Seq(Item) /\ Len(t) = n /\ \A y \in 1..n : t[y] = s[y]
  OBVIOUS
<1> HIDE DEF t
<1>3. CASE w.tail \notin yes
  BY <1>3 DEF UntilTurn
<1>4. CASE w.tail \in yes
  <2>1. w.tail = Node(t, Len(t))
    BY <1>1 DEF Holds, Sound, Chained, t
  <2>2. n \in 1..Len(t) /\ w.tail = t[n]
    BY <1>2, <1>4, <2>1, Finite DEF Node
  <2> DEFINE r == RemoveAt(t, n)
             top == SubSeq(s, 1, n - 1)
  <2>3. /\ Holds(Unlinked(w, t[n]), r, N) /\ r \in Seq(Item) /\ Len(r) = n - 1
        /\ \A z \in 1..(n - 1) : r[z] = t[IF z < n THEN z ELSE z + 1]
    BY <1>1, <1>2, <2>2, HoldsRemoved DEF t
  <2> HIDE DEF r
  <2>4. /\ top \in Seq(Item) /\ Len(top) = n - 1 /\ \A z \in 1..(n - 1) : top[z] = s[z]
        /\ n - 1 \in 0..Len(s)
    BY <2>2, <1>2
  <2> HIDE DEF top
  <2>5. r = top
    <3>1. \A z \in 1..(n - 1) : r[z] = top[z]
      BY <1>2, <2>3, <2>4
    <3> QED BY <2>3, <2>4, <3>1, SeqEqual
  <2>6. UntilTurn(w, yes) = Unlinked(w, t[n])
    BY <1>4, <2>2 DEF UntilTurn
  <2>7. Holds(UntilTurn(w, yes), SubSeq(s, 1, n - 1), N)
    BY <2>3, <2>5, <2>6 DEF top
  <2> QED BY <2>4, <2>7 DEF Tops, Holds, Sound
<1> QED BY <1>3, <1>4

\* map_until keeps the first items, in their order.
LEMMA UntilEffect ==
    ASSUME NEW map, NEW s, NEW N, Holds(map, s, N), NEW yes \in SUBSET Item
    PROVE  Until(map, yes) \in Tops(s, N)
<1> DEFINE C == Cardinality(Item)
           rest[x \in 0..Cardinality(Item)] ==
             IF x = 0 THEN map
             ELSE IF rest[x - 1].tail \notin yes THEN rest[x - 1]
             ELSE Unlinked(rest[x - 1], rest[x - 1].tail)
           V == [x \in 0..C |-> Tops(s, N)]
           f == [x \in 1..C |-> [w \in Tops(s, N) |-> UntilTurn(w, yes)]]
<1>1. Until(map, yes) = rest[C]
  BY DEF Until
<1>2. C \in Nat /\ s \in Seq(Item) /\ map \in Tops(s, N)
  <2>1. s \in Seq(Item) /\ map \in Maps
    BY DEF Holds, Sound
  <2>2. SubSeq(s, 1, Len(s)) = s /\ Len(s) \in 0..Len(s)
    BY <2>1
  <2> QED BY <2>1, <2>2, Finite DEF Tops
<1>3. /\ \A x \in 0..C : V[x] = Tops(s, N)
      /\ \A x \in 1..C : x \in 0..C /\ x - 1 \in 0..C /\ x # 0
      /\ \A x \in 1..C, w \in Tops(s, N) : f[x][w] = UntilTurn(w, yes)
  BY <1>2
<1>4. \A w \in Tops(s, N) : UntilTurn(w, yes) \in Tops(s, N)
  BY <1>2, UntilTurnEffect
<1> HIDE DEF V, f, C
<1>5. PICK g : Runs(g, C, V, map, f)
  <2>1. Turns(C, V, f) /\ map \in V[0]
    BY <1>2, <1>3, <1>4 DEF Turns
  <2> QED BY <1>2, <2>1, LoopRuns
<1>6. g = [x \in 0..C |-> IF x = 0 THEN map ELSE UntilTurn(g[x - 1], yes)]
  <2>1. \A x \in 0..C : x # 0 <=> x \in 1..C
    BY <1>2
  <2>2. \A x \in 1..C : g[x] = UntilTurn(g[x - 1], yes)
    BY <1>3, <1>5 DEF Runs
  <2> QED BY <1>5, <2>1, <2>2 DEF Runs
<1>7. rest = [x \in 0..C |-> IF x = 0 THEN map ELSE UntilTurn(rest[x - 1], yes)]
  BY <1>6 DEF C, UntilTurn
<1> HIDE DEF rest
<1>8. Keeps(rest, C, V) /\ rest[0] \in V[0]
  <2>1. rest[0] = map
    BY <1>2, <1>7
  <2>2. \A x \in 1..C : rest[x] = UntilTurn(rest[x - 1], yes)
    BY <1>3, <1>7
  <2> QED BY <1>2, <1>3, <1>4, <2>1, <2>2 DEF Keeps
<1>9. rest[C] \in V[C] /\ C \in 0..C
  BY <1>2, <1>8, LoopKeeps
<1> QED BY <1>1, <1>3, <1>9

\* A turn of map_erase leaves one item less, if there is one.
EraseTurn(w) == IF w.root = Nil THEN w ELSE Unlinked(w, w.root)
Rests(n, N) == {w \in Maps : \E t \in Seq(Item) : Holds(w, t, N) /\ Len(t) <= n}

LEMMA EraseTurnEffect ==
    ASSUME NEW n \in Nat, NEW N, NEW w \in Rests(n + 1, N)
    PROVE  EraseTurn(w) \in Rests(n, N)
<1>1. PICK t \in Seq(Item) : Holds(w, t, N) /\ Len(t) <= n + 1
  BY DEF Rests
<1>2. w.root = Node(t, 1) /\ w \in Maps
  BY <1>1 DEF Holds, Sound, Chained
<1>3. CASE w.root = Nil
  <2>1. Len(t) \in Nat /\ (Len(t) >= 1 => t[1] \in Item)
    OBVIOUS
  <2>2. ~(1 \in 1..Len(t))
    BY <1>2, <1>3, <2>1, Finite DEF Node
  <2>3. Len(t) <= n
    BY <2>1, <2>2
  <2> QED BY <1>1, <1>2, <1>3, <2>3 DEF EraseTurn, Rests
<1>4. CASE w.root # Nil
  <2>1. 1 \in 1..Len(t) /\ w.root = t[1]
    BY <1>2, <1>4 DEF Node
  <2> DEFINE r == RemoveAt(t, 1)
  <2>2. Holds(Unlinked(w, t[1]), r, N) /\ r \in Seq(Item) /\ Len(r) = Len(t) - 1
    BY <1>1, <2>1, HoldsRemoved
  <2> HIDE DEF r
  <2>3. EraseTurn(w) = Unlinked(w, t[1]) /\ Len(r) <= n
    BY <1>1, <1>4, <2>1, <2>2 DEF EraseTurn
  <2>4. EraseTurn(w) \in Maps
    BY <2>2, <2>3 DEF Holds, Sound
  <2> QED BY <2>2, <2>3, <2>4 DEF Rests
<1> QED BY <1>3, <1>4

\* map_erase goes on until there is none.
LEMMA EraseEffect ==
    ASSUME NEW map, NEW s, NEW N, Holds(map, s, N)
    PROVE  Erased(map) \in Rests(0, N)
<1> DEFINE C == Cardinality(Item)
           rest[x \in 0..Cardinality(Item)] ==
             IF x = 0 THEN map
             ELSE IF rest[x - 1].root = Nil THEN rest[x - 1]
             ELSE Unlinked(rest[x - 1], rest[x - 1].root)
           V == [x \in 0..C |-> Rests(C - x, N)]
           f == [x \in 1..C |-> [w \in Rests(C - (x - 1), N) |-> EraseTurn(w)]]
<1>1. Erased(map) = rest[C]
  BY DEF Erased
<1>2. C \in Nat /\ map \in Rests(C, N)
  <2>1. s \in Seq(Item) /\ Once(s) /\ map \in Maps
    BY DEF Holds, Sound
  <2>2. Len(s) <= C
    BY <2>1, Fitting
  <2> QED BY <2>1, <2>2, Finite DEF Rests
<1>3. /\ \A x \in 0..C : V[x] = Rests(C - x, N)
      /\ \A x \in 1..C : x \in 0..C /\ x - 1 \in 0..C /\ x # 0
      /\ \A x \in 1..C : \A w \in Rests(C - (x - 1), N) : f[x][w] = EraseTurn(w)
  BY <1>2
<1>4. \A x \in 1..C : \A w \in Rests(C - (x - 1), N) : EraseTurn(w) \in Rests(C - x, N)
  <2> TAKE x \in 1..C
  <2>1. C - x \in Nat /\ C - (x - 1) = (C - x) + 1
    BY <1>2
  <2> QED BY <2>1, EraseTurnEffect
<1> HIDE DEF V, f, C
<1>5. PICK g : Runs(g, C, V, map, f)
  <2>1. Turns(C, V, f)
    BY <1>3, <1>4 DEF Turns
  <2>2. map \in V[0]
    BY <1>2, <1>3
  <2> QED BY <1>2, <2>1, <2>2, LoopRuns
<1>6. g = [x \in 0..C |-> IF x = 0 THEN map ELSE EraseTurn(g[x - 1])]
  <2>1. \A x \in 0..C : x # 0 <=> x \in 1..C
    BY <1>2
  <2>2. \A x \in 1..C : g[x] = EraseTurn(g[x - 1])
    BY <1>3, <1>5 DEF Runs
  <2> QED BY <1>5, <2>1, <2>2 DEF Runs
<1>7. rest = [x \in 0..C |-> IF x = 0 THEN map ELSE EraseTurn(rest[x - 1])]
  BY <1>6 DEF C, EraseTurn
<1> HIDE DEF rest
<1>8. Keeps(rest, C, V) /\ rest[0] \in V[0]
  <2>1. rest[0] = map /\ V[0] = Rests(C, N)
    BY <1>2, <1>3, <1>7
  <2>2. \A x \in 1..C : rest[x] = EraseTurn(rest[x - 1])
    BY <1>3, <1>7
  <2> QED BY <1>2, <1>3, <1>4, <2>1, <2>2 DEF Keeps
<1>9. rest[C] \in V[C] /\ C \in 0..C /\ C - C = 0
  BY <1>2, <1>8, LoopKeeps
<1> QED BY <1>1, <1>3, <1>9

\* A turn of map_map leaves the items it has taken so far, the last in front;
\* one that was refused is missing from then on.
Part(w, t, order, x, N) ==
  /\ Holds(w, t, N) /\ ToSet(t) \subseteq {order[y] : y \in 1..x} /\ Len(t) <= x
  /\ Len(t) = x => \A y \in 1..x : t[y] = order[(x - y) + 1]
Parts(order, x, N) == {w \in Maps : \E t \in Seq(Item) : Part(w, t, order, x, N)}

LEMMA FillTurnEffect ==
    ASSUME NEW order \in Seq(Item), Once(order), NEW short \in Nat, NEW N,
           NEW x \in 1..Len(order), NEW w \in Parts(order, x - 1, N)
    PROVE  Pushed(w, order[x], short) \in Parts(order, x, N)
<1>1. PICK t \in Seq(Item) : Part(w, t, order, x - 1, N)
  BY DEF Parts
<1> DEFINE i == order[x]
           u == Pushed(w, i, short)
           r == <<i>> \o t
<1>2. /\ Sound(w, t) /\ Len(w.key) = N /\ Indexed(w.key, ToSet(t)) /\ w \in Maps
      /\ ToSet(t) \subseteq {order[y] : y \in 1..(x - 1)} /\ Len(t) <= x - 1
      /\ Once(t) /\ Len(t) \in Nat /\ x \in Nat /\ x - 1 \in Nat
  BY <1>1 DEF Part, Holds, Sound
<1>3. i \in Item /\ i \notin ToSet(t)
  <2>1. \A y \in 1..(x - 1) : order[y] # i
    BY DEF Once
  <2> QED BY <1>2, <2>1
<1>4. {order[y] : y \in 1..(x - 1)} \cup {i} \subseteq {order[y] : y \in 1..x}
  BY <1>2
<1>5. \/ Sound(u, r) /\ Indexed(u.key, ToSet(t) \cup {i}) /\ Len(u.key) = Len(w.key)
      \/ u = w
  BY <1>2, <1>3, PushedEffect
<1> HIDE DEF u
<1>6. CASE Sound(u, r) /\ Indexed(u.key, ToSet(t) \cup {i}) /\ Len(u.key) = Len(w.key)
  <2>1. /\ r \in Seq(Item) /\ Len(r) = Len(t) + 1 /\ ToSet(r) = ToSet(t) \cup {i}
        /\ r[1] = i /\ \A y \in 2..(Len(t) + 1) : r[y] = t[y - 1]
    BY <1>2, <1>3, FrontOne
  <2> HIDE DEF r
  <2>2. Holds(u, r, N) /\ u \in Maps
    BY <1>2, <1>6, <2>1 DEF Holds, Sound
  <2>3. ToSet(r) \subseteq {order[y] : y \in 1..x} /\ Len(r) <= x
    BY <1>2, <1>4, <2>1
  <2>4. ASSUME Len(r) = x, NEW y \in 1..x PROVE r[y] = order[(x - y) + 1]
    <3>0. Len(t) = x - 1
      BY <1>2, <2>1, <2>4
    <3>1. \A z \in 1..(x - 1) : t[z] = order[((x - 1) - z) + 1]
      BY <1>1, <3>0 DEF Part
    <3>2. CASE y = 1
      BY <1>2, <2>1, <3>2
    <3>3. CASE y # 1
      <4>1. /\ y \in 2..(Len(t) + 1) /\ y - 1 \in 1..(x - 1)
            /\ ((x - 1) - (y - 1)) + 1 = (x - y) + 1
        BY <1>2, <3>0, <3>3
      <4>2. r[y] = t[y - 1] /\ t[y - 1] = order[((x - 1) - (y - 1)) + 1]
        BY <2>1, <3>1, <4>1
      <4> QED BY <4>1, <4>2
    <3> QED BY <3>2, <3>3
  <2>5. Part(u, r, order, x, N)
    BY <2>2, <2>3, <2>4 DEF Part
  <2> QED BY <2>1, <2>2, <2>5 DEF Parts, u
<1>7. CASE u = w
  <2>1. ToSet(t) \subseteq {order[y] : y \in 1..x} /\ Len(t) <= x /\ Len(t) # x
    BY <1>2, <1>4
  <2>2. Part(w, t, order, x, N)
    BY <1>1, <2>1 DEF Part
  <2> QED BY <1>2, <1>7, <2>2 DEF Parts, u
<1> QED BY <1>5, <1>6, <1>7

\* A map without items holds none.
LEMMA EmptyHolds ==
    ASSUME NEW N \in Nat
    PROVE  Holds([EmptyMap EXCEPT !.key = [k \in 1..N |-> {}]], <<>>, N)
<1> DEFINE key == [k \in 1..N |-> {}]
           w == [EmptyMap EXCEPT !.key = key]
<1>1. key \in Seq(SUBSET Item) /\ Len(key) = N /\ \A k \in 1..N : key[k] = {}
  OBVIOUS
<1> HIDE DEF key
<1>2. /\ w \in Maps /\ w.root = Nil /\ w.tail = Nil /\ w.size = 0 /\ w.key = key
  BY <1>1 DEF EmptyMap, Maps, Link
<1>3. ToSet(<<>>) = {} /\ Len(<<>>) = 0 /\ <<>> \in Seq(Item)
  BY DEF ToSet
<1> HIDE DEF w
<1>4. Sound(w, <<>>)
  BY <1>2, <1>3 DEF Sound, Chained, Once, Node
<1>5. Indexed(key, ToSet(<<>>))
  BY <1>1, <1>3 DEF Indexed
<1> QED BY <1>1, <1>2, <1>4, <1>5 DEF Holds, w, key

\* map_map fills a new map in this order.
LEMMA FilledEffect ==
    ASSUME NEW order \in Seq(Item), Once(order), NEW short \in Nat, Len(m.key) \in Nat
    PROVE  Filled(order, short) \in Parts(order, Len(order), Len(m.key))
<1> DEFINE C == Len(order)
           N == Len(m.key)
           none == [EmptyMap EXCEPT !.key = [k \in 1..Len(m.key) |-> {}]]
           map[x \in 0..Len(order)] ==
             IF x = 0 THEN [EmptyMap EXCEPT !.key = [k \in 1..Len(m.key) |-> {}]]
             ELSE Pushed(map[x - 1], order[x], short)
           V == [x \in 0..C |-> Parts(order, x, N)]
           f == [x \in 1..C |-> [w \in Parts(order, x - 1, N) |-> Pushed(w, order[x], short)]]
<1>1. Filled(order, short) = map[C]
  BY DEF Filled
<1>2. C \in Nat /\ none \in Parts(order, 0, N)
  <2>1. Holds(none, <<>>, N)
    BY EmptyHolds
  <2> HIDE DEF none
  <2>2. none \in Maps /\ <<>> \in Seq(Item) /\ Len(<<>>) = 0 /\ ToSet(<<>>) = {}
    BY <2>1 DEF Holds, Sound, ToSet
  <2>3. Part(none, <<>>, order, 0, N)
    <3> DEFINE t == <<>>
    <3>1. Holds(none, t, N) /\ ToSet(t) = {} /\ Len(t) <= 0 /\ \A y \in 1..0 : FALSE
      BY <2>1, <2>2
    <3> HIDE DEF t
    <3>2. Part(none, t, order, 0, N)
      BY <3>1 DEF Part
    <3> QED BY <3>2 DEF t
  <2>4. \E t \in Seq(Item) : Part(none, t, order, 0, N)
    <3> HIDE DEF N
    <3> WITNESS <<>> \in Seq(Item)
    <3> QED BY <2>3
  <2> HIDE DEF N
  <2> QED BY <2>2, <2>4 DEF Parts
<1>3. /\ \A x \in 0..C : V[x] = Parts(order, x, N)
      /\ \A x \in 1..C : x \in 0..C /\ x - 1 \in 0..C /\ x # 0
      /\ \A x \in 1..C : \A w \in Parts(order, x - 1, N) : f[x][w] = Pushed(w, order[x], short)
  BY <1>2
<1>4. \A x \in 1..C : \A w \in Parts(order, x - 1, N) :
        Pushed(w, order[x], short) \in Parts(order, x, N)
  BY FillTurnEffect
<1> HIDE DEF V, f, C, N, none
<1>5. PICK g : Runs(g, C, V, none, f)
  <2>1. Turns(C, V, f)
    BY <1>3, <1>4 DEF Turns
  <2>2. none \in V[0]
    BY <1>2, <1>3
  <2> QED BY <1>2, <2>1, <2>2, LoopRuns
<1>6. g = [x \in 0..C |-> IF x = 0 THEN none ELSE Pushed(g[x - 1], order[x], short)]
  <2>1. \A x \in 0..C : x # 0 <=> x \in 1..C
    BY <1>2
  <2>2. \A x \in 1..C : g[x] = Pushed(g[x - 1], order[x], short)
    BY <1>3, <1>5 DEF Runs
  <2> QED BY <1>5, <2>1, <2>2 DEF Runs
<1>7. map = [x \in 0..C |-> IF x = 0 THEN none ELSE Pushed(map[x - 1], order[x], short)]
  BY <1>6 DEF C, none
<1> HIDE DEF map
<1>8. Keeps(map, C, V) /\ map[0] \in V[0]
  <2>1. map[0] = none /\ V[0] = Parts(order, 0, N)
    BY <1>2, <1>3, <1>7
  <2>2. \A x \in 1..C : map[x] = Pushed(map[x - 1], order[x], short)
    BY <1>3, <1>7
  <2> QED BY <1>2, <1>3, <1>4, <2>1, <2>2 DEF Keeps
<1>9. map[C] \in V[C] /\ C \in 0..C
  BY <1>2, <1>8, LoopKeeps
<1> QED BY <1>1, <1>3, <1>9 DEF C, N

-----------------------------------------------------------------------------
(* The steps that are loops, and the key that is added *)

LEMMA UntilStep ==
    ASSUME IInv, NEW yes \in SUBSET Item, map_until(yes)
    PROVE  IInv' /\ [Contents!Next]_(Contents!vars)
<1> DEFINE s == Downwards
           N == Len(m.key)
<1>1. Working /\ m' = Until(m, yes) /\ broken' = broken
  BY DEF map_until
<1>2. held' = held \ (ToSet(Downwards) \ ToSet(Downwards'))
  BY DEF map_until
<1>3. /\ Sound(m, s) /\ ToSet(s) = held /\ N \in 0..Len(Key) /\ s \in Seq(Item)
      /\ broken \in BOOLEAN
  BY Facts
<1>4. Indexed(m.key, held)
  BY <1>1 DEF IInv
<1> HIDE DEF s
<1>5. Holds(m, s, N)
  BY <1>3, <1>4 DEF Holds
<1>6. m' \in Tops(s, N)
  BY <1>1, <1>5, UntilEffect
<1>7. PICK n \in 0..Len(s) : Holds(m', SubSeq(s, 1, n), N)
  BY <1>6 DEF Tops
<1> DEFINE t == SubSeq(s, 1, n)
<1>8. ToSet(t) \subseteq ToSet(s)
  <2>1. t \in Seq(Item) /\ Len(t) = n /\ \A y \in 1..n : t[y] = s[y] /\ y \in 1..Len(s)
    BY <1>3
  <2>2. DOMAIN t = 1..n /\ DOMAIN s = 1..Len(s)
    BY <1>3, <2>1
  <2> HIDE DEF t
  <2> QED BY <2>1, <2>2 DEF ToSet
<1> HIDE DEF t, N
<1>9. Sound(m', t) /\ Len(m'.key) = N /\ Indexed(m'.key, ToSet(t))
  BY <1>7 DEF Holds, t
<1>10. Downwards' = t
  BY <1>9, Reads DEF Downwards
<1>11. held' = ToSet(t)
  BY <1>2, <1>3, <1>8, <1>10 DEF s
<1>12. IInv'
  <2>1. /\ Len(m'.key) <= Len(Key) /\ broken' \in BOOLEAN
        /\ ToSet(t) = held' /\ Indexed(m'.key, held')
    BY <1>1, <1>3, <1>9, <1>11
  <2> QED BY <1>9, <2>1, StepTo
<1>13. Contents!Keep(n)
  BY <1>9, <1>10 DEF Contents!Keep, t, s, N
<1> QED BY <1>12, <1>13 DEF Contents!Next, s

LEMMA EraseStep ==
    ASSUME IInv, map_erase
    PROVE  IInv' /\ [Contents!Next]_(Contents!vars)
<1> DEFINE s == Downwards
           N == Len(m.key)
<1>1. Working /\ m' = Erased(m) /\ held' = {} /\ broken' = broken
  BY DEF map_erase
<1>2. /\ Sound(m, s) /\ ToSet(s) = held /\ N \in 0..Len(Key) /\ s \in Seq(Item)
      /\ broken \in BOOLEAN /\ Len(s) \in Nat
  BY Facts
<1>3. Indexed(m.key, held)
  BY <1>1 DEF IInv
<1> HIDE DEF s, N
<1>4. m' \in Rests(0, N)
  <2>1. Holds(m, s, N)
    BY <1>2, <1>3 DEF Holds, N
  <2> QED BY <1>1, <2>1, EraseEffect
<1>5. PICK t \in Seq(Item) : Holds(m', t, N) /\ Len(t) <= 0
  BY <1>4 DEF Rests
<1>6. t = <<>> /\ ToSet(t) = {}
  BY <1>5 DEF ToSet
<1>7. Sound(m', t) /\ Len(m'.key) = N /\ Indexed(m'.key, ToSet(t))
  BY <1>5 DEF Holds
<1>8. IInv' /\ Downwards' = t
  <2>1. ToSet(t) = held' /\ Indexed(m'.key, held')
    BY <1>1, <1>6, <1>7
  <2>2. Len(m'.key) <= Len(Key) /\ broken' \in BOOLEAN
    BY <1>1, <1>2, <1>7
  <2> QED BY <1>7, <2>1, <2>2, StepTo
<1>9. Contents!Keep(0) /\ 0 \in 0..Len(s)
  BY <1>2, <1>6, <1>7, <1>8 DEF Contents!Keep, s, N
<1> QED BY <1>8, <1>9 DEF Contents!Next, s

\* Items that are there once are as many as their places.
LEMMA OnceCounts ==
    ASSUME NEW s \in Seq(Item), Once(s)
    PROVE  Cardinality(ToSet(s)) = Len(s)
<1> DEFINE N == Len(s)
<1>1. N \in Nat /\ DOMAIN s = 1..N /\ s = [x \in 1..N |-> s[x]]
  OBVIOUS
<1>2. s \in [1..N -> ToSet(s)] /\ \A i \in ToSet(s) : \E x \in 1..N : s[x] = i
  BY <1>1 DEF ToSet
<1> HIDE DEF N
<1>3. s \in Injection(1..N, ToSet(s)) /\ s \in Surjection(1..N, ToSet(s))
  BY <1>2 DEF Injection, IsInjective, Surjection, Once, N
<1>4. ExistsBijection(1..N, ToSet(s))
  BY <1>3 DEF ExistsBijection, Bijection
<1> QED BY <1>1, <1>4, FS_CountingElements DEF N

\* map_map: the same items in the order of a key, the last in front, or no
\* change at all.
LEMMA MapMapStep ==
    ASSUME IInv, NEW k \in 1..Len(Key), NEW short \in Nat, map_map(k, short)
    PROVE  IInv' /\ [Contents!Next]_(Contents!vars)
<1> DEFINE s == Downwards
           N == Len(m.key)
           order == Walk(m.key[k], k)
           full == Filled(order, short)
<1>1. Working /\ k \in 1..N /\ held' = held /\ broken' = broken
  BY DEF map_map
<1>2. m' = IF full.size = m.size THEN full ELSE m
  BY DEF map_map
<1>3. /\ Sound(m, s) /\ ToSet(s) = held /\ N \in 0..Len(Key) /\ s \in Seq(Item) /\ Once(s)
      /\ broken \in BOOLEAN /\ Len(s) \in Nat /\ m.size = Len(s) /\ held \in SUBSET Item
      /\ DOMAIN s = 1..Len(s) /\ N \in Nat
  BY Facts
<1>4. /\ Indexed(m.key, held) /\ m.key[k] = held
      /\ \A a, b \in held : a # b => ~Same(a, b, k)
  BY <1>1 DEF IInv, Indexed
<1> HIDE DEF s
<1>5. /\ order \in Seq(Item) /\ Len(order) = Cardinality(held) /\ Once(order)
      /\ ToSet(order) = held
      /\ \A x, y \in 1..Len(order) : x < y => Key[k][order[x]] < Key[k][order[y]]
  BY <1>3, <1>4, WalkEffect
<1>6. Len(order) = Len(s)
  BY <1>3, <1>5, OnceCounts
<1> HIDE DEF order
<1>7. full \in Parts(order, Len(order), N)
  BY <1>3, <1>5, FilledEffect
<1> HIDE DEF full
<1>8. CASE full.size = m.size
  <2> DEFINE L == Len(s)
  <2>1. PICK t \in Seq(Item) : Part(full, t, order, L, N)
    BY <1>6, <1>7 DEF Parts
  <2>2. Sound(m', t) /\ Len(m'.key) = N /\ Indexed(m'.key, ToSet(t)) /\ Len(t) = L
    BY <1>2, <1>3, <1>8, <2>1 DEF Part, Holds, Sound
  <2>3. \A y \in 1..L : t[y] = order[(L - y) + 1]
    BY <2>1, <2>2 DEF Part
  <2>4. DOMAIN t = 1..L /\ DOMAIN order = 1..L /\ L \in Nat
    BY <1>3, <1>5, <1>6, <2>2
  <2> HIDE DEF L, N
  <2>5. \A y \in 1..L : (L - y) + 1 \in 1..L /\ (L - ((L - y) + 1)) + 1 = y
    BY <2>4
  <2>6. ToSet(t) = held
    <3>1. \A y \in 1..L : t[y] \in held
      BY <1>5, <2>3, <2>4, <2>5 DEF ToSet
    <3>2. \A y \in 1..L : order[y] \in ToSet(t)
      BY <2>3, <2>4, <2>5 DEF ToSet
    <3> QED BY <1>5, <2>4, <3>1, <3>2 DEF ToSet
  <2>7. IInv' /\ Downwards' = t
    <3>1. ToSet(t) = held' /\ Indexed(m'.key, held')
      BY <1>1, <2>2, <2>6
    <3>2. Len(m'.key) <= Len(Key) /\ broken' \in BOOLEAN
      BY <1>1, <1>3, <2>2
    <3> QED BY <2>2, <3>1, <3>2, StepTo
  <2>8. \A x, y \in 1..L : x < y => Key[k][t[x]] > Key[k][t[y]]
    <3> SUFFICES ASSUME NEW x \in 1..L, NEW y \in 1..L, x < y
                 PROVE  Key[k][t[x]] > Key[k][t[y]]
      OBVIOUS
    <3> DEFINE a == (L - x) + 1
               b == (L - y) + 1
    <3>1. a \in 1..L /\ b \in 1..L /\ b < a
      BY <2>4, <2>5
    <3> HIDE DEF a, b
    <3>2. Key[k][order[b]] < Key[k][order[a]] /\ t[x] = order[a] /\ t[y] = order[b]
      BY <1>5, <1>6, <2>3, <3>1 DEF L, a, b
    <3> QED BY <3>2
  <2>9. t \in [1..L -> {s[x] : x \in 1..L}]
    <3>1. held = {s[x] : x \in 1..L}
      BY <1>3 DEF ToSet, L
    <3>2. \A y \in 1..L : t[y] \in held
      BY <2>4, <2>6 DEF ToSet
    <3>3. t = [y \in 1..L |-> t[y]]
      BY <2>2, <2>4
    <3> QED BY <3>1, <3>2, <3>3
  <2>10. Contents!Sort(k)
    BY <1>3, <2>2, <2>7, <2>8, <2>9 DEF Contents!Sort, L, N, s
  <2> QED BY <1>1, <2>7, <2>10 DEF Contents!Next, N
<1>9. CASE full.size # m.size
  <2>1. m' = m
    BY <1>2, <1>9
  <2>2. IInv' /\ Downwards' = s
    BY <1>1, <1>3, <1>4, <2>1, StepTo
  <2> QED BY <2>1, <2>2 DEF Contents!vars, s
<1> QED BY <1>8, <1>9

\* map_add_key: one more tree of the same items.
LEMMA AddKeyStep ==
    ASSUME IInv, NEW short \in BOOLEAN, map_add_key(short)
    PROVE  IInv' /\ [Contents!Next]_(Contents!vars)
<1> DEFINE s == Downwards
           N == Len(m.key)
           key == Append(m.key, held)
<1>1. Working /\ N + 1 <= Len(Key) /\ held' = held
  BY DEF map_add_key
<1>2. /\ Sound(m, s) /\ ToSet(s) = held /\ N \in 0..Len(Key) /\ s \in Seq(Item) /\ Once(s)
      /\ broken \in BOOLEAN /\ held \in SUBSET Item /\ DOMAIN s = 1..Len(s) /\ N \in Nat
      /\ m.key \in Seq(SUBSET Item)
  BY Facts
<1>3. \/ broken' = TRUE /\ m' = m
      \/ /\ m' = [m EXCEPT !.key = key] /\ broken' = broken
         /\ \A a, b \in held : a # b => ~Same(a, b, N + 1)
  BY <1>2 DEF map_add_key
<1>4. Indexed(m.key, held)
  BY <1>1 DEF IInv
<1> HIDE DEF s
<1>5. CASE broken' = TRUE /\ m' = m
  <2>1. IInv' /\ Downwards' = s
    BY <1>1, <1>2, <1>5, StepTo
  <2> QED BY <1>5, <2>1 DEF Contents!vars, s
<1>6. CASE /\ m' = [m EXCEPT !.key = key] /\ broken' = broken
           /\ \A a, b \in held : a # b => ~Same(a, b, N + 1)
  <2>1. /\ key \in Seq(SUBSET Item) /\ Len(key) = N + 1 /\ key[N + 1] = held
        /\ \A k \in 1..N : key[k] = m.key[k]
    BY <1>2
  <2> HIDE DEF key
  <2>2. Sound(m', s) /\ m'.key = key
    BY <1>2, <1>6, <2>1, SoundKey
  <2>3. Indexed(key, held)
    <3>1. \A k \in 1..(N + 1) : k \in 1..N \/ k = N + 1
      BY <1>2
    <3> QED BY <1>4, <1>6, <2>1, <3>1 DEF Indexed
  <2>4. IInv' /\ Downwards' = s
    <3>1. ToSet(s) = held' /\ Indexed(m'.key, held')
      BY <1>1, <1>2, <2>2, <2>3
    <3>2. Len(m'.key) <= Len(Key) /\ broken' \in BOOLEAN
      BY <1>1, <1>2, <1>6, <2>1, <2>2
    <3> QED BY <2>2, <3>1, <3>2, StepTo
  <2>5. Contents!AddKey
    <3>1. N < Len(Key) /\ Len(m'.key) = N + 1
      BY <1>1, <1>2, <2>1, <2>2
    <3>2. \A x, y \in DOMAIN s : x # y => Key[N + 1][s[x]] # Key[N + 1][s[y]]
      <4> SUFFICES ASSUME NEW x \in 1..Len(s), NEW y \in 1..Len(s), x # y
                   PROVE  Key[N + 1][s[x]] # Key[N + 1][s[y]]
        BY <1>2
      <4>1. s[x] \in held /\ s[y] \in held /\ s[x] # s[y]
        BY <1>2 DEF ToSet, Once
      <4> QED BY <1>6, <4>1 DEF Same
    <3> QED BY <2>4, <3>1, <3>2 DEF Contents!AddKey, s
  <2> QED BY <2>4, <2>5 DEF Contents!Next
<1> QED BY <1>3, <1>5, <1>6

-----------------------------------------------------------------------------
(* The theorems *)

LEMMA MapInitOK ==
    ASSUME MapInit PROVE IInv /\ Contents!Init
<1>1. m = EmptyMap /\ held = {} /\ broken = FALSE
  BY DEF MapInit
<1> DEFINE w == [EmptyMap EXCEPT !.key = [k \in 1..0 |-> {}]]
<1>2. Holds(w, <<>>, 0)
  BY EmptyHolds
<1>3. w = EmptyMap
  BY DEF EmptyMap
<1> HIDE DEF w
<1>4. Sound(m, <<>>) /\ Len(m.key) = 0 /\ Indexed(m.key, ToSet(<<>>))
  BY <1>1, <1>2, <1>3 DEF Holds
<1>5. Downwards = <<>> /\ ToSet(<<>>) = {}
  <2>1. Downwards = <<>>
    BY <1>4, Reads DEF Downwards
  <2> QED BY <2>1 DEF ToSet
<1>6. MapTypeOK
  <2>1. m \in Maps
    BY <1>4 DEF Sound
  <2>2. Len(Key) \in Nat
    BY MapAssumption
  <2>3. Len(m.key) = 0
    BY <1>4
  <2>4. Len(m.key) <= Len(Key)
    BY <2>2, <2>3
  <2>5. held \subseteq Item /\ broken \in BOOLEAN
    BY <1>1
  <2> QED BY <2>1, <2>4, <2>5 DEF MapTypeOK, Maps, Link
<1>7. IInv
  BY <1>1, <1>4, <1>5, <1>6 DEF IInv
<1> QED BY <1>4, <1>5, <1>7 DEF Contents!Init

LEMMA MapStep ==
    ASSUME IInv, [MapNext]_mapVars
    PROVE  IInv' /\ [Contents!Next]_(Contents!vars)
<1>1. ASSUME NEW i \in Item, NEW short \in 0..Len(Key),
             map_push(i, short) \/ map_push_back(i, short)
      PROVE  IInv' /\ [Contents!Next]_(Contents!vars)
  BY <1>1, PushStep, PushBackStep
<1>2. ASSUME NEW i \in Item, NEW short \in 0..Len(Key), NEW shift \in BOOLEAN,
             NEW copied \in BOOLEAN, map_push_find(i, short, shift, copied)
      PROVE  IInv' /\ [Contents!Next]_(Contents!vars)
  BY <1>2, PushFindStep
<1>3. ASSUME NEW i \in Item, NEW k \in 1..Len(Key), map_get(i, k)
      PROVE  IInv' /\ [Contents!Next]_(Contents!vars)
  BY <1>3, GetStep
<1>4. ASSUME map_pop \/ map_pop_back PROVE IInv' /\ [Contents!Next]_(Contents!vars)
  BY <1>4, PopStep
<1>5. ASSUME map_erase PROVE IInv' /\ [Contents!Next]_(Contents!vars)
  BY <1>5, EraseStep
<1>6. ASSUME NEW yes \in SUBSET Item, map_pop_back_when(yes) \/ map_until(yes)
      PROVE  IInv' /\ [Contents!Next]_(Contents!vars)
  BY <1>6, PopBackWhenStep, UntilStep
<1>7. ASSUME NEW k \in 1..Len(Key), NEW short \in 0..Len(Key), map_map(k, short)
      PROVE  IInv' /\ [Contents!Next]_(Contents!vars)
  BY <1>7, MapMapStep
<1>8. ASSUME NEW short \in BOOLEAN, map_add_key(short)
      PROVE  IInv' /\ [Contents!Next]_(Contents!vars)
  BY <1>8, AddKeyStep
<1>9. CASE UNCHANGED mapVars
  BY <1>9 DEF mapVars, IInv, MapTypeOK, Downwards, Working, Contents!vars
<1> QED BY <1>1, <1>2, <1>3, <1>4, <1>5, <1>6, <1>7, <1>8, <1>9 DEF MapNext

\* What map_push, map_get, map_until, map_map and the others keep: the
\* chain, its size and the trees are of the same items.
THEOREM MapInvariant == MapSpec => []IInv
<1>1. MapInit => IInv
  BY MapInitOK
<1>2. IInv /\ [MapNext]_mapVars => IInv'
  BY MapStep
<1> QED BY <1>1, <1>2, PTL DEF MapSpec

\* The chain read from root is the chain read from tail, backwards; it and
\* every tree are of the items that callers were told are in the map, no
\* two of them equal under a key: map_key has undone what it could not finish.
THEOREM MapIsExact == MapSpec => []MapExact
<1>1. IInv => MapExact
  <2> SUFFICES ASSUME IInv PROVE MapExact
    OBVIOUS
  <2> DEFINE s == Downwards
  <2>1. /\ ToSet(s) = held /\ m.size = Len(s) /\ Upwards = Reverse(s) /\ s \in Seq(Item)
        /\ Len(s) \in Nat
    BY Facts
  <2> HIDE DEF s, Upwards
  <2>2. Reverse(Upwards) = s
    <3> DEFINE r == Reverse(s)
               q == Reverse(r)
               back(x) == (Len(s) - x) + 1
    <3>1. \A x \in 1..Len(s) : back(x) \in 1..Len(s) /\ back(back(x)) = x
      BY <2>1
    <3>2. r \in Seq(Item) /\ Len(r) = Len(s) /\ \A x \in 1..Len(s) : r[x] = s[back(x)]
      BY <2>1, <3>1 DEF Reverse
    <3> HIDE DEF r
    <3>3. q \in Seq(Item) /\ Len(q) = Len(s) /\ \A x \in 1..Len(s) : q[x] = r[back(x)]
      BY <2>1, <3>1, <3>2 DEF Reverse
    <3> HIDE DEF q, back
    <3>4. \A x \in 1..Len(q) : q[x] = s[x]
      BY <3>1, <3>2, <3>3
    <3>5. q = s
      BY <2>1, <3>3, <3>4, SeqEqual
    <3> QED BY <2>1, <3>5 DEF q, r
  <2>3. ChainExact
    BY <2>1, <2>2 DEF ChainExact, s
  <2>4. IndexesAgree
    BY DEF IndexesAgree, IInv, Indexed
  <2> QED BY <2>3, <2>4 DEF MapExact
<1> QED BY <1>1, MapInvariant, PTL

\* Every operation of the map is one of the sequence of its items (SeqMap),
\* or leaves it as it was.
THEOREM MapImplements == MapSpec => Implements
<1>1. MapInit => Contents!Init
  BY MapInitOK
<1>2. IInv /\ [MapNext]_mapVars => [Contents!Next]_(Contents!vars)
  BY MapStep
<1> QED BY <1>1, <1>2, MapInvariant, PTL DEF MapSpec, Implements, Contents!Spec
=============================================================================
