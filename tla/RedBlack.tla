------------------------------ MODULE RedBlack ------------------------------
(***************************************************************************)
(* The balanced tree under every index of a map: tsearch2, tfind2,         *)
(* tdelete2 and twalk2 of src/lib/common/map.c.                            *)
(*                                                                         *)
(* A node pointer is the subtree it leads to; the address of a pointer     *)
(* (rootp, parentp, the entries of nodestack) is the path of sides that    *)
(* leads to it.  The two symmetric halves of every case are one operator   *)
(* of the side.  ord[k] is the position the comparison function gives k.   *)
(***************************************************************************)
EXTENDS Integers, Sequences, SequencesExt

\* A missing child: "NULL nodes are considered black throughout".
Leaf == [red |-> FALSE]

NewNode(k) == [key |-> k, red |-> TRUE, L |-> Leaf, R |-> Leaf]

Other(side) == IF side = "L" THEN "R" ELSE "L"

\* The subtree at the end of a path, and the tree with another one there.
RECURSIVE At(_, _)
At(t, path) == IF path = <<>> THEN t ELSE At(t[Head(path)], Tail(path))

RECURSIVE Put(_, _, _)
Put(t, path, s) ==
  IF path = <<>> THEN s ELSE [t EXCEPT ![Head(path)] = Put(@, Tail(path), s)]

Black(t) == [t EXCEPT !.red = FALSE]

Red(t) == [t EXCEPT !.red = TRUE]

\* The side of node n on which k is looked for; n does not hold k itself.
SideOf(k, n, ord) == IF ord[k] < ord[n.key] THEN "L" ELSE "R"

-----------------------------------------------------------------------------
(* Search and insertion *)

\* Two red edges in a row end at path: the child between parent and
\* grandparent comes to the top, or the parent does.
Raise(t, path) ==
  LET d == path[Len(path)]
      a == path[Len(path) - 1]
      g == SubSeq(path, 1, Len(path) - 2)
      gp == At(t, g)
      p == gp[a]
      n == p[d]
  IN IF a # d
     THEN [tree |-> Put(t, g, [n EXCEPT !.red = FALSE,
                                 ![a] = [p EXCEPT !.red = TRUE, ![d] = n[a]],
                                 ![d] = [gp EXCEPT !.red = TRUE, ![a] = n[d]]]),
           at |-> g]
     ELSE [tree |-> Put(t, g, [p EXCEPT !.red = FALSE,
                                 ![Other(d)] = [gp EXCEPT !.red = TRUE,
                                                          ![d] = p[Other(d)]]]),
           at |-> Append(g, d)]

\* The node at path turns red and its children black; where that puts two red
\* edges in a row the tree is rotated.  "at" is where the node is afterwards.
Split(t, path) ==
  LET n == At(t, path)
      u == Put(t, path, [n EXCEPT !.red = TRUE, !.L = Black(@), !.R = Black(@)])
  IN IF path # <<>> /\ At(t, Front(path)).red THEN Raise(u, path)
     ELSE [tree |-> u, at |-> path]

\* One turn of the loop of tsearch2: a node with two red children is split,
\* then the search goes one level down.  The new node is linked where the
\* search runs out, unless there is no memory for it.
RECURSIVE Descend(_, _, _, _, _)
Below(s, side, k, ord, memory) ==
  LET next == Append(s.at, side)
  IN IF At(s.tree, next) # Leaf THEN Descend(s.tree, next, k, ord, memory)
     ELSE IF ~memory THEN [tree |-> s.tree, node |-> <<>>]
     ELSE [tree |-> Split(Put(s.tree, next, NewNode(k)), next).tree,
           node |-> <<k>>]
Descend(t, path, k, ord, memory) ==
  LET n == At(t, path)
  IN IF ord[k] = ord[n.key] THEN [tree |-> t, node |-> <<n.key>>]
     ELSE Below(IF n.L.red /\ n.R.red THEN Split(t, path)
                ELSE [tree |-> t, at |-> path],
                SideOf(k, n, ord), k, ord, memory)

\* tsearch2: the tree after the search and the node found or linked, none when
\* there was no memory.
Search(t, k, ord, memory) ==
  IF t # Leaf THEN Descend(Black(t), <<>>, k, ord, memory)
  ELSE IF memory THEN [tree |-> NewNode(k), node |-> <<k>>]
  ELSE [tree |-> t, node |-> <<>>]

\* tfind2: the node equal to k, none if there is none.
RECURSIVE Find(_, _, _)
Find(t, k, ord) ==
  IF t = Leaf THEN <<>>
  ELSE IF ord[k] = ord[t.key] THEN <<t.key>>
  ELSE Find(t[SideOf(k, t, ord)], k, ord)

-----------------------------------------------------------------------------
(* Deletion *)

\* Where the search for k ends: at the node equal to k, or at a leaf.
RECURSIVE PathTo(_, _, _)
PathTo(t, k, ord) ==
  IF t = Leaf \/ ord[k] = ord[t.key] THEN <<>>
  ELSE LET d == SideOf(k, t, ord) IN <<d>> \o PathTo(t[d], k, ord)

\* The path of left children down to the last of them.
RECURSIVE LeftEnd(_)
LeftEnd(t) == IF t.L = Leaf THEN <<>> ELSE <<"L">> \o LeftEnd(t.L)

\* The subtree at path, rotated so that the child on side o comes to the top.
Rotate(p, o) == [p[o] EXCEPT ![Other(o)] = [p EXCEPT ![o] = p[o][Other(o)]]]

\* Bug: the red child of the brother stays red, and the parent.
RepairKeepsRed(p, d) ==
  Rotate([p EXCEPT ![Other(d)] = [p[Other(d)] EXCEPT !.red = p.red]], Other(d))
\* The brother q of a short subtree is black and has a red child: one rotation
\* gives the subtree the black edge it lacks.  The top takes the colour of p.
Repair(p, d) ==
  LET o == Other(d)
      q == p[o]
      near == q[d]
  IN IF q[o].red
     THEN Rotate([p EXCEPT !.red = FALSE,
                           ![o] = [q EXCEPT !.red = p.red, ![o] = Black(@)]], o)
     ELSE [near EXCEPT !.red = p.red,
                       ![d] = [p EXCEPT !.red = FALSE, ![o] = near[d]],
                       ![o] = [q EXCEPT ![d] = near[o]]]

\* The subtree at path lacks a black edge: the loop of tdelete2 up its stack.
RECURSIVE Balance(_, _)
Balance(t, path) ==
  IF path = <<>> \/ At(t, path).red THEN Put(t, path, Black(At(t, path)))
  ELSE LET pp == Front(path)
           d == Last(path)
           o == Other(d)
           p == At(t, pp)
           q == p[o]
       IN IF q.red
          THEN Balance(Put(t, pp, Rotate([Red(p) EXCEPT ![o] = Black(q)], o)),
                       pp \o <<d, d>>)
          ELSE IF ~q.L.red /\ ~q.R.red
          THEN Balance(Put(t, pp, [p EXCEPT ![o] = Red(q)]), pp)
          ELSE Put(t, pp, Repair(p, d))

\* tdelete2: the node equal to k takes the key of its successor, and the
\* successor is the node that is unchained.
Delete(t, k, ord) ==
  LET path == PathTo(t, k, ord)
      n == At(t, path)
      last == IF n.L = Leaf \/ n.R = Leaf THEN path
              ELSE path \o <<"R">> \o LeftEnd(n.R)
      unchained == At(t, last)
      r == IF unchained.L # Leaf THEN unchained.L ELSE unchained.R
      u == Put(Put(t, path, [n EXCEPT !.key = unchained.key]), last, r)
  IN IF n = Leaf THEN t
     ELSE IF unchained.red THEN u ELSE Balance(u, last)

-----------------------------------------------------------------------------
(* What a tree holds, and when it is one *)

\* The keys in the order twalk2 visits them: a leaf at once, an inner node
\* between its two sides.
RECURSIVE Walk(_)
Walk(t) == IF t = Leaf THEN <<>> ELSE Walk(t.L) \o <<t.key>> \o Walk(t.R)

Keys(t) == ToSet(Walk(t))

\* Black nodes on every way down, -1 when two ways differ.
RECURSIVE BlackHeight(_)
BlackHeight(t) ==
  IF t = Leaf THEN 0
  ELSE LET h == BlackHeight(t.L)
       IN IF h = -1 \/ h # BlackHeight(t.R) THEN -1
          ELSE h + (IF t.red THEN 0 ELSE 1)

\* No red node has a red child.
RECURSIVE NoRedPair(_)
NoRedPair(t) ==
  t = Leaf \/ /\ t.red => ~t.L.red /\ ~t.R.red
              /\ NoRedPair(t.L) /\ NoRedPair(t.R)

Ordered(t, ord) ==
  \A i, j \in DOMAIN Walk(t) : i < j => ord[Walk(t)[i]] < ord[Walk(t)[j]]

Balanced(t) == BlackHeight(t) # -1 /\ NoRedPair(t)
=============================================================================
