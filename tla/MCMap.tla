------------------------------- MODULE MCMap -------------------------------
(***************************************************************************)
(* Instances of MultiMap and OrderedSet for TLC.  A behaviour uses a map,  *)
(* or it uses one tree alone.                                              *)
(***************************************************************************)
EXTENDS MultiMap

CONSTANT TreeKey        \* the keys of the tree

VARIABLES tree, set     \* those of OrderedSet

T == INSTANCE OrderedSet WITH Key <- TreeKey

\* Two items of six are equal under the first key, two others under the
\* second, whose order is another one.
MCKey == <<[i \in 1..6 |-> <<1, 2, 3, 4, 5, 4>>[i]],
           [i \in 1..6 |-> <<3, 1, 5, 3, 2, 6>>[i]]>>

MCMapInit == MapInit /\ T!Init

MCMapNext ==
  \/ T!Init /\ MapNext /\ UNCHANGED <<tree, set>>
  \/ MapInit /\ T!Next /\ UNCHANGED mapVars

\* One tree is an ordered set and stays balanced (see OrderedSet).
TreeExact == T!TreeExact
=============================================================================
