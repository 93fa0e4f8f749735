------------------------------- MODULE SeqMap -------------------------------
(***************************************************************************)
(* What a map of src/lib/common/map.c promises: a sequence of items, no    *)
(* two of them equal under any of the keys in use, that are added at       *)
(* either end, taken out from anywhere, and moved to the front.            *)
(***************************************************************************)
EXTENDS Integers, Sequences

CONSTANTS Item,         \* what may be put in the map
          Key           \* Key[k][i]: the value of item i under key k

VARIABLES seq,          \* the items, from root down to tail
          max           \* the first max keys are in use

vars == <<seq, max>>

\* Items i and j may both be in a map with n keys.
Apart(i, j, n) == i # j /\ \A k \in 1..n : Key[k][i] # Key[k][j]

Fits(i) == \A x \in DOMAIN seq : Apart(i, seq[x], max)

\* The sequence without its x-th item.
Without(x) == SubSeq(seq, 1, x - 1) \o SubSeq(seq, x + 1, Len(seq))

Init == seq = <<>> /\ max = 0

\* map_add_key: one more key, under which the items differ too.
AddKey ==
  /\ max < Len(Key)
  /\ \A x, y \in DOMAIN seq : x # y => Key[max + 1][seq[x]] # Key[max + 1][seq[y]]
  /\ max' = max + 1 /\ UNCHANGED seq

\* map_push and map_push_find; map_push_back.
Push(i) == Fits(i) /\ seq' = <<i>> \o seq /\ UNCHANGED max
PushBack(i) == Fits(i) /\ seq' = Append(seq, i) /\ UNCHANGED max

\* map_get, map_pure, map_pop, map_pop_back, map_delete.
Take(x) == seq' = Without(x) /\ UNCHANGED max

\* map_until, and map_erase that keeps nothing: the items after the n-th go.
Keep(n) == seq' = SubSeq(seq, 1, n) /\ UNCHANGED max

\* map_push_find with map_flag_shift: the item found moves up to the front.
Shift(x) == seq' = <<seq[x]>> \o Without(x) /\ UNCHANGED max

\* map_map: the same items anew, the last under key k in front.
Sort(k) ==
  /\ seq' \in [1..Len(seq) -> {seq[x] : x \in DOMAIN seq}]
  /\ \A x, y \in 1..Len(seq) : x < y => Key[k][seq'[x]] > Key[k][seq'[y]]
  /\ UNCHANGED max

Next ==
  \/ AddKey
  \/ \E k \in 1..max : Sort(k)
  \/ \E i \in Item : Push(i) \/ PushBack(i)
  \/ \E x \in DOMAIN seq : Take(x) \/ Shift(x)
  \/ \E n \in 0..Len(seq) : Keep(n)

Spec == Init /\ [][Next]_vars

-----------------------------------------------------------------------------
\* The first max keys and a sequence of items.
TypeOK == seq \in Seq(Item) /\ max \in 0..Len(Key)

\* No two items of a map are equal under a key it uses: a search by any of
\* its keys has one answer.
KeysUnique ==
  \A x, y \in DOMAIN seq : x # y => Apart(seq[x], seq[y], max)
=============================================================================
