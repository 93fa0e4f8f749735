--------------------------------- MODULE Link ---------------------------------
(***************************************************************************)
(* What the connection to the broker promises the rest of the daemon:      *)
(* cmd_initiate_* asks two things of it, whether there is a connection     *)
(* (__con) and whether it is ready.  A connection has a port of its own,   *)
(* which names its topics; it is ready once, and ends for good.            *)
(***************************************************************************)
EXTENDS Naturals

VARIABLES
    port,  \* the connection in __con, 0 when there is none
    ready  \* transport_t.ready

vars == <<port, ready>>

(* main opens the first connection. *)
Init == port = 1 /\ ready = FALSE

(* The last subscription is acknowledged. *)
Subscribed ==
    /\ port # 0 /\ ~ready
    /\ ready' = TRUE
    /\ UNCHANGED port

(* cmd_release: the next connection has another port and is not ready; or  *)
(* there is none and there will be none.                                   *)
Dropped ==
    /\ port # 0
    /\ port' \in {0, port + 1}
    /\ ready' = FALSE

Next == Subscribed \/ Dropped

Spec == Init /\ [][Next]_vars
=============================================================================
