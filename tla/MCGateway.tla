----------------------------- MODULE MCGateway -----------------------------
(* Gateway with the temporal properties that speak of one token or one      *)
(* transaction at a time: an instance makes finitely many of them.          *)
EXTENDS Gateway

(* Each transmission of a caller makes at most one query, hence one token,  *)
(* and at most two transactions: the caller's and the callee's.             *)
MaxToken == Cardinality(Branch) * MaxSends
MaxTid == 2 * MaxToken

(* Every request that was sent to a callee is answered to Route: by a       *)
(* response, by sip_redo giving up, or by the sweep of sip_timeout.         *)
SentRequestsAnswered ==
    \A k \in 1..MaxToken :
        k \in DOMAIN token /\ wire[k].sent > 0 ~>
            k \in DOMAIN token /\ token[k].uses = 1

(* Every transaction is freed in the end, but those that could not be sent: *)
(* sip_loop put it where sip_timeout looks for it.                          *)
TransactionsFreed ==
    \A t \in 1..MaxTid :
        t \in DOMAIN txn /\ txn[t].state # "TERMINATED" ~> t \notin DOMAIN txn
=============================================================================
