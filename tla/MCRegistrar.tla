---------------------------- MODULE MCRegistrar ----------------------------
(***************************************************************************)
(* A contact at a named host and one whose host is an address; requests    *)
(* with one contact, with two, with the same twice and with "*".           *)
(***************************************************************************)
EXTENDS Registrar

CONSTANTS a, b

MCHost == [x \in {a, b} |-> IF x = a THEN "one" ELSE "two"]

Plain(x) == [contact |-> x, expires |-> Learned]
Ended(x) == [contact |-> x, expires |-> 0]

MCRequests == {<<Plain(a)>>, <<Plain(a), Plain(b)>>, <<Plain(a), Plain(a)>>,
               <<Plain(b), Ended(a)>>, <<Plain(Star)>>}
=============================================================================
