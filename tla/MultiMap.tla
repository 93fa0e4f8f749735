------------------------------ MODULE MultiMap ------------------------------
(***************************************************************************)
(* The map of src/lib/common/map.c: every table of the program (sessions,  *)
(* net events, the transactions of an event, packets to be sent, contacts, *)
(* queries) is one.  A node hangs in a doubly linked chain, from root down *)
(* to tail, and in one tree per key; each operation has to keep them all   *)
(* in step, also when it finds a second item with the same key or runs out *)
(* of memory half way.                                                     *)
(*                                                                         *)
(* A tree is the set of its nodes: that tsearch2, tfind2 and tdelete2 make *)
(* it one is what OrderedSet shows of the trees themselves.  A node and    *)
(* its item are one thing here: an item is in the map at most once.        *)
(* Memory that was freed is not modelled; an operation that leaves the map *)
(* with a pointer to it ends the behaviour (broken).                       *)
(***************************************************************************)
EXTENDS Integers, FiniteSets, SequencesExt

CONSTANTS Item,         \* what may be put in the map
          Key,          \* Key[k][i]: the position cmp number k gives item i
          Nil,          \* the null pointer
          Failure       \* MAP_NODE_FAILURE, no pointer to a node

ASSUME MapAssumption ==
  /\ IsFiniteSet(Item) /\ Nil \notin Item /\ Failure \notin Item \cup {Nil}
  /\ Key \in Seq([Item -> Int])

VARIABLES m,            \* the map_t: root, tail, size, the indexes, and the
                        \* chain fields of the nodes
          held,         \* the items a caller was told are in the map
          broken        \* the map leads to freed memory

mapVars == <<m, held, broken>>

\* map_init: no items and no keys yet.
EmptyMap == [root |-> Nil, tail |-> Nil, size |-> 0, key |-> <<>>,
             up |-> [i \in Item |-> Nil], down |-> [i \in Item |-> Nil]]

MapInit == m = EmptyMap /\ held = {} /\ broken = FALSE

-----------------------------------------------------------------------------
(* The indexes *)

\* map_internal_cmp: two items are equal under key k.
Same(a, b, k) == Key[k][a] = Key[k][b]

\* tfind2 and tdelete2: the node of a tree that is equal to i, if there is one.
Find(index, i, k) == {n \in index : Same(n, i, k)}
Delete(index, i, k) == index \ Find(index, i, k)

\* The nodes in the order twalk2 visits them.
Walk(index, k) ==
  LET before(n) == {a \in index : Key[k][a] < Key[k][n]}
  IN [x \in 1..Cardinality(index) |-> CHOOSE n \in index : Cardinality(before(n)) = x - 1]

\* A tree that the node has entered, and is taken out of again.
\* Bug: it keeps the node.
UndoneNot(index, n, k) == index \cup {n}
Undone(index, n, k) == Delete(index \cup {n}, n, k)

\* map_key: node n enters the trees from the k-th on.  A tree that already has
\* such a node stops it, and what was entered before is deleted again; only
\* the tree it started with reports the node found.  There is no memory for
\* the node of tree number "short".
Enter(key, n, k, short) ==
  LET stops == {x \in k..Len(key) : x = short \/ Find(key[x], n, x) # {}}
      first == Min(stops)
      equal == Find(key[first], n, first)
  IN IF stops = {}
     THEN [find |-> Nil,
           key |-> [x \in 1..Len(key) |-> IF x < k THEN key[x] ELSE key[x] \cup {n}]]
     ELSE [find |-> IF first = k /\ equal # {} THEN CHOOSE e \in equal : TRUE ELSE Failure,
           key |-> [x \in 1..Len(key) |->
                      IF x \in k..(first - 1) THEN Undone(key[x], n, x) ELSE key[x]]]

\* map_search: the node whose item is equal to i under key k, if any.
Found(i, k) == Find(m.key[k], i, k)

-----------------------------------------------------------------------------
(* The chain *)

\* What is above b points down to b, what is below a points up to a; at an end
\* the map itself does.
PointDown(map, a, b) ==
  IF a = Nil THEN [map EXCEPT !.root = b] ELSE [map EXCEPT !.down[a] = b]
PointUp(map, b, a) ==
  IF b = Nil THEN [map EXCEPT !.tail = a] ELSE [map EXCEPT !.up[b] = a]

\* The neighbours of a node are chained past it.
Unchain(map, n) ==
  PointUp(PointDown(map, map.up[n], map.down[n]), map.down[n], map.up[n])

\* The node becomes the first: the old root goes below it.
ChainFront(map, n) ==
  [PointUp(map, map.root, n) EXCEPT !.up[n] = Nil, !.down[n] = map.root, !.root = n]

\* The node becomes the last: the old tail goes above it.
ChainBack(map, n) ==
  [PointDown(map, map.tail, n) EXCEPT !.up[n] = map.tail, !.down[n] = Nil, !.tail = n]

\* map_remove: out of the chain and of every tree, then freed.
Unlinked(map, n) ==
  [Unchain(map, n) EXCEPT !.size = @ - 1, !.up[n] = Nil, !.down[n] = Nil,
                          !.key = [k \in 1..Len(@) |-> Delete(@[k], n, k)]]

\* The items reached by following one field from one end (map_iter_begin and
\* map_iter_down, map_iter_end and map_iter_up), as far as the map can be long.
Reached(next, n) ==
  LET at[x \in 0..Cardinality(Item)] ==
        IF x = 0 THEN n ELSE IF at[x - 1] = Nil THEN Nil ELSE next[at[x - 1]]
      nodes == {x \in 1..Cardinality(Item) : at[x - 1] # Nil}
  IN [x \in 1..Cardinality(nodes) |-> at[x - 1]]

Downwards == Reached(m.down, m.root)

Upwards == Reached(m.up, m.tail)

-----------------------------------------------------------------------------
(* The operations *)

Working == ~broken

\* map_push of an item that is not in the map: returns 0 and the item is in
\* front, or -1 and it is not in the map.
Pushed(map, i, short) ==
  LET e == Enter(map.key, i, 1, short)
      u == [map EXCEPT !.key = e.key]
  IN IF e.find = Nil THEN [ChainFront(u, i) EXCEPT !.size = @ + 1] ELSE u

\* An index has no memory for a node, or (short = 0) every one has.
map_push(i, short) ==
  /\ Working /\ i \notin held
  /\ m' = Pushed(m, i, short)
  /\ held' = IF m'.size > m.size THEN held \cup {i} ELSE held
  /\ UNCHANGED broken

map_push_back(i, short) ==
  /\ Working /\ i \notin held
  /\ LET e == Enter(m.key, i, 1, short)
         u == [m EXCEPT !.key = e.key]
     IN IF e.find = Nil
        THEN m' = [ChainBack(u, i) EXCEPT !.size = @ + 1] /\ held' = held \cup {i}
        ELSE m' = u /\ UNCHANGED held
  /\ UNCHANGED broken

\* map_push_find: a new item is copied (when cpy has no memory the node is
\* freed that the trees were just given); one found under the first key is
\* moved up when the caller asked for it.
map_push_find(i, short, shift, copied) ==
  /\ Working /\ i \notin held
  /\ LET e == Enter(m.key, i, 1, short)
         u == [m EXCEPT !.key = e.key]
     IN \/ /\ e.find = Nil
           /\ m' = IF copied THEN [ChainFront(u, i) EXCEPT !.size = @ + 1] ELSE u
           /\ held' = IF copied THEN held \cup {i} ELSE held
           /\ broken' = ~copied
        \/ /\ e.find \in Item
           /\ m' = IF shift THEN ChainFront(Unchain(u, e.find), e.find) ELSE u
           /\ UNCHANGED <<held, broken>>
        \/ e.find = Failure /\ m' = u /\ UNCHANGED <<held, broken>>

Remove_(n) == m' = Unlinked(m, n) /\ held' = held \ {n} /\ UNCHANGED broken

\* map_get and map_pure: by key, whichever item the caller's one is equal to.
map_get(i, k) ==
  Working /\ k \in 1..Len(m.key) /\ \E n \in Found(i, k) : Remove_(n)

map_pop == Working /\ m.root # Nil /\ Remove_(m.root)

map_pop_back == Working /\ m.tail # Nil /\ Remove_(m.tail)

\* map_pop_back_when: the first item from the tail for which the test says yes.
map_pop_back_when(yes) ==
  /\ Working
  /\ \E x \in 1..Len(Upwards) :
       /\ Upwards[x] \in yes /\ \A y \in 1..(x - 1) : Upwards[y] \notin yes
       /\ Remove_(Upwards[x])

\* map_until: from the tail, as long as the test says yes.
\* Bug: the newest items go instead of the oldest.
UntilFront(map, yes) ==
  LET rest[x \in 0..Cardinality(Item)] ==
        IF x = 0 THEN map
        ELSE IF rest[x - 1].root \notin yes THEN rest[x - 1]
        ELSE Unlinked(rest[x - 1], rest[x - 1].root)
  IN rest[Cardinality(Item)]
Until(map, yes) ==
  LET rest[x \in 0..Cardinality(Item)] ==
        IF x = 0 THEN map
        ELSE IF rest[x - 1].tail \notin yes THEN rest[x - 1]
        ELSE Unlinked(rest[x - 1], rest[x - 1].tail)
  IN rest[Cardinality(Item)]

map_until(yes) ==
  /\ Working /\ m' = Until(m, yes)
  /\ held' = held \ (ToSet(Downwards) \ ToSet(Downwards'))
  /\ UNCHANGED broken

\* map_erase: from the root until there is none.
Erased(map) ==
  LET rest[x \in 0..Cardinality(Item)] ==
        IF x = 0 THEN map
        ELSE IF rest[x - 1].root = Nil THEN rest[x - 1]
        ELSE Unlinked(rest[x - 1], rest[x - 1].root)
  IN rest[Cardinality(Item)]

map_erase == Working /\ m' = Erased(m) /\ held' = {} /\ UNCHANGED broken

\* map_map: a new map, filled in the order of one key of the old one; a map
\* that could not take an item is emptied again and the old one stays.
Filled(order, short) ==
  LET map[x \in 0..Len(order)] ==
        IF x = 0 THEN [EmptyMap EXCEPT !.key = [k \in 1..Len(m.key) |-> {}]]
        ELSE Pushed(map[x - 1], order[x], short)
  IN map[Len(order)]

map_map(k, short) ==
  /\ Working /\ k \in 1..Len(m.key)
  /\ LET full == Filled(Walk(m.key[k], k), short)
     IN m' = IF full.size = m.size THEN full ELSE m
  /\ UNCHANGED <<held, broken>>

\* map_add_key: every item enters the tree of the new key.  One that cannot, for
\* one before it is equal or there is no memory, is the end: the half filled
\* tree is destroyed through a wrong pointer.
map_add_key(short) ==
  LET k == Len(m.key) + 1
      items == ToSet(Downwards)
      fails == \/ short /\ items # {}
               \/ \E a, b \in items : a # b /\ Same(a, b, k)
  IN /\ Working /\ k <= Len(Key)
     /\ IF fails THEN broken' = TRUE /\ UNCHANGED m
        ELSE m' = [m EXCEPT !.key = Append(@, items)] /\ UNCHANGED broken
     /\ UNCHANGED held

MapNext ==
  \/ \E i \in Item, short \in 0..Len(Key) :
       map_push(i, short) \/ map_push_back(i, short)
  \/ \E i \in Item, short \in 0..Len(Key), shift, copied \in BOOLEAN :
       map_push_find(i, short, shift, copied)
  \/ \E i \in Item, k \in 1..Len(Key) : map_get(i, k)
  \/ map_pop \/ map_pop_back \/ map_erase
  \/ \E yes \in SUBSET Item : map_pop_back_when(yes) \/ map_until(yes)
  \/ \E k \in 1..Len(Key), short \in 0..Len(Key) : map_map(k, short)
  \/ \E short \in BOOLEAN : map_add_key(short)

MapSpec == MapInit /\ [][MapNext]_mapVars

-----------------------------------------------------------------------------
\* Nodes lead to nodes; one tree of nodes for each key in use.
MapTypeOK ==
  LET Link == Item \cup {Nil}
  IN /\ m \in [root : Link, tail : Link, size : Nat, key : Seq(SUBSET Item),
              up : [Item -> Link], down : [Item -> Link]]
     /\ Len(m.key) <= Len(Key) /\ held \subseteq Item /\ broken \in BOOLEAN

\* The chain is the same read from either end, and holds the items the
\* callers were told are in the map: a map_remove at an end or in the middle,
\* or a shift of the only node, leaves no pointer behind.
ChainExact ==
  /\ Downwards = Reverse(Upwards)
  /\ ToSet(Downwards) = held /\ Len(Downwards) = m.size

\* Every tree indexes exactly those items, and no two that are equal under its
\* key: a push that failed at a later key, for a duplicate or for lack of
\* memory, has been taken back out of the trees before it.
IndexesAgree ==
  Working => \A k \in 1..Len(m.key) :
               /\ m.key[k] = held
               /\ \A a, b \in held : a # b => ~Same(a, b, k)

MapExact == ChainExact /\ IndexesAgree

\* A map is the sequence of items its chain is, and every operation is one of
\* that sequence or changes nothing.
Contents == INSTANCE SeqMap WITH seq <- Downwards, max <- Len(m.key)

Implements == Contents!Spec
=============================================================================
