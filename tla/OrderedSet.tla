----------------------------- MODULE OrderedSet -----------------------------
(***************************************************************************)
(* One tree of src/lib/common/map.c under any sequence of searches and     *)
(* deletions: an ordered set whose shape stays that of a red-black tree.   *)
(***************************************************************************)
EXTENDS RedBlack

CONSTANT Key            \* the keys that may be searched for

VARIABLES tree,         \* what map->key[i].root leads to
          set           \* the keys a caller put in and did not take out

vars == <<tree, set>>

\* The comparison of the keys themselves.
Order == [k \in Key |-> k]

Init == tree = Leaf /\ set = {}

\* tsearch2: finds k or links it; without memory for a node it links nothing.
Enter(k, memory) ==
  LET s == Search(tree, k, Order, memory)
  IN /\ tree' = s.tree
     /\ set' = IF s.node = <<>> THEN set ELSE set \cup {k}

\* tdelete2, of a key that may not be there.
Erase(k) == tree' = Delete(tree, k, Order) /\ set' = set \ {k}

Next == \E k \in Key : Erase(k) \/ \E memory \in BOOLEAN : Enter(k, memory)

Spec == Init /\ [][Next]_vars

-----------------------------------------------------------------------------
\* The tree is the set, in order: no rotation of tsearch2 or tdelete2 and no
\* unchained successor loses a key or moves it to where tfind2 does not look.
\* After every search, which splits nodes even when it finds its key, and
\* every deletion the tree is balanced, which is why the stack of 100 nodes in
\* tdelete2 is enough.
TreeExact ==
  /\ Ordered(tree, Order) /\ Keys(tree) = set
  /\ \A k \in Key : Find(tree, k, Order) = IF k \in set THEN <<k>> ELSE <<>>
  /\ Balanced(tree)
=============================================================================
