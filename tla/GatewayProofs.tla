--------------------------- MODULE GatewayProofs ---------------------------
(***************************************************************************)
(* Theorems about Gateway, for all its constants.                          *)
(*                                                                         *)
(* The callbacks end in Keep or Delete, applied to a successor tx of the   *)
(* transactions, ss of the sessions and ch of the messages.  Lemmas Keep-  *)
(* Core and DeleteCore show once that these two ways of ending preserve    *)
(* the invariant when tx, ss and ch are legal successors; the lemmas of    *)
(* the actions show that theirs are.                                       *)
(***************************************************************************)
EXTENDS Gateway, TLAPS

-----------------------------------------------------------------------------
(* The inductive invariant *)

WireEntry == [branch : Branch, sent : Nat, heard : BOOLEAN]

(* The types of the state a callback changes through Keep and Delete. *)
CoreTypes ==
    /\ tid \in Nat
    /\ DOMAIN txn \subseteq 1..tid
    /\ \A t \in DOMAIN txn : txn[t] \in Transaction
    /\ timer \subseteq DOMAIN txn
    /\ entities \in [Net -> SUBSET (1..tid)]
    /\ ses \subseteq [id : 1..tid, uuid : Uuid]
    /\ token \in Seq([port : Nat, uses : Nat])
    /\ requests \in Seq(Uuid)
    /\ Len(token) = Len(requests)
    /\ wire \in Seq(WireEntry)
    /\ Len(wire) = Len(requests)
    /\ chan \subseteq Message

(* Only a client transaction is left terminated, with its timer off. *)
Terminated ==
    \A t \in DOMAIN txn : txn[t].state = "TERMINATED" =>
        Client(txn[t]) /\ t \notin timer

(* A uuid made by cmd_session_get belongs to its id, one made by Route is  *)
(* in Route's map: neither kind can clash with a new session.              *)
SessionUuids ==
    /\ \A r, s \in ses : r.id = s.id \/ r.uuid = s.uuid => r = s
    /\ \A s \in ses :
          \/ s.uuid = <<"sip", s.id>>
          \/ \E k \in 1..Len(requests) : s.uuid = <<"route", k>>
    /\ \A s \in ses :
          s.id \in DOMAIN txn /\ ~Client(txn[s.id]) => s.uuid = <<"sip", s.id>>

(* u is the uuid of a query about b: its session is there to stay and if   *)
(* the transaction it names still exists, it is the server transaction of b*)
QueryUuid(u, b, tx, ss) ==
    \E t \in Nat :
        /\ u = <<"sip", t>>
        /\ [id |-> t, uuid |-> u] \in ss
        /\ t \in DOMAIN tx => ~Client(tx[t]) /\ tx[t].branch = b

(* A message on the broker can be traced to the query it comes from. *)
Traceable(m, tx, ss) ==
    \/ /\ m.status = None
       /\ QueryUuid(m.uuid, m.branch, tx, ss)
    \/ /\ m.status # None
       /\ \E k \in 1..Len(requests) :
             m.uuid = <<"route", k>> /\ QueryUuid(requests[k], m.branch, tx, ss)

Traces ==
    /\ \A m \in chan : Traceable(m, txn, ses)
    /\ \A t \in DOMAIN txn : Client(txn[t]) =>
          QueryUuid(requests[txn[t].opaque], txn[t].branch, txn, ses)

(* The transaction of Route's request k is alive: the sweep will find it. *)
Alive(k) ==
    \E t \in DOMAIN txn :
        Client(txn[t]) /\ txn[t].state # "TERMINATED" /\ txn[t].opaque = k

(* A request that was sent and not answered has its transaction. *)
Remembered ==
    \A k \in 1..Len(requests) : token[k].uses = 0 /\ wire[k].sent > 0 => Alive(k)

(* The client transactions of a branch are of one kind, and the requests   *)
(* of Route they stand for came in the order of their ids.                 *)
Ordered ==
    \A t \in DOMAIN txn : Client(txn[t]) =>
        /\ txn[t].kind = ClientKind(txn[t].branch)
        /\ \A u \in DOMAIN txn :
              Client(txn[u]) /\ u < t => txn[u].opaque < txn[t].opaque

Core ==
    /\ CoreTypes
    /\ Terminated
    /\ EntityMapExact
    /\ SessionUuids
    /\ TokenOwned
    /\ TokenFreedOnce
    /\ Traces
    /\ Remembered
    /\ Ordered

-----------------------------------------------------------------------------
(* Legal successors *)

(* A callback changes no transaction's identity, terminates none that it   *)
(* leaves in place, and creates at most the server transaction tid + 1.    *)
LegalTxn(tx) ==
    /\ tid' \in {tid, tid + 1}
    /\ DOMAIN txn \subseteq DOMAIN tx
    /\ DOMAIN tx \subseteq DOMAIN txn \cup {tid + 1}
    /\ tid + 1 \in DOMAIN tx => tid' = tid + 1
    /\ \A t \in DOMAIN tx : tx[t] \in Transaction
    /\ \A t \in DOMAIN txn :
          /\ tx[t].kind = txn[t].kind
          /\ tx[t].branch = txn[t].branch
          /\ tx[t].net = txn[t].net
          /\ tx[t].opaque = txn[t].opaque
          /\ tx[t].state = "TERMINATED" <=> txn[t].state = "TERMINATED"
    /\ tid + 1 \in DOMAIN tx =>
          ~Client(tx[tid + 1]) /\ tx[tid + 1].state # "TERMINATED"

(* A callback adds at most the session of a server transaction. *)
LegalSes(ss, tx) ==
    \/ ss = ses
    \/ \E t \in DOMAIN tx :
          /\ ~Client(tx[t])
          /\ \A s \in ses : s.id # t
          /\ ss = ses \cup {[id |-> t, uuid |-> <<"sip", t>>]}

LegalChan(ch, tx, ss) ==
    /\ ch \subseteq Message
    /\ \A m \in ch : m \in chan \/ Traceable(m, tx, ss)

(* A callback sends no request of Route without its transaction. *)
LegalWire ==
    /\ wire' \in Seq(WireEntry)
    /\ Len(wire') = Len(wire)
    /\ \A k \in 1..Len(wire) : wire'[k].sent > 0 => wire[k].sent > 0 \/ Alive(k)

Legal(tx, ss, ch) == LegalTxn(tx) /\ LegalSes(ss, tx) /\ LegalChan(ch, tx, ss)

-----------------------------------------------------------------------------
(* What it means to be a sequence over S. *)
LEMMA SeqFacts ==
    ASSUME NEW S, NEW q \in Seq(S)
    PROVE  /\ Len(q) \in Nat
           /\ DOMAIN q = 1..Len(q)
           /\ \A k \in DOMAIN q : q[k] \in S
OBVIOUS

(* A function on 1..n is a sequence of length n. *)
LEMMA FunctionIsSeq ==
    ASSUME NEW S, NEW n \in Nat, NEW f \in [1..n -> S]
    PROVE  f \in Seq(S) /\ Len(f) = n
OBVIOUS

(* A status code is never the 0 that stands for no status. *)
LEMMA StatusIsSome ==
    ASSUME NEW code \in Status
    PROVE  code # None
BY DEF Status, None

(* Sessions a callback adds keep cmd_session_find unambiguous. *)
LEMMA SessionsLegal ==
    ASSUME Core, NEW tx, LegalTxn(tx), NEW ss, LegalSes(ss, tx)
    PROVE  /\ ses \subseteq ss
           /\ ss \subseteq [id : 1..tid', uuid : Uuid]
           /\ \A r, s \in ss : r.id = s.id \/ r.uuid = s.uuid => r = s
           /\ \A s \in ss :
                 \/ s.uuid = <<"sip", s.id>>
                 \/ \E k \in 1..Len(requests) : s.uuid = <<"route", k>>
           /\ \A s \in ss :
                 s.id \in DOMAIN tx /\ ~Client(tx[s.id]) => s.uuid = <<"sip", s.id>>
<1> USE DEF Core, CoreTypes
<1>1. tid \in Nat /\ tid' \in Nat /\ tid <= tid' /\ DOMAIN tx \subseteq 1..tid'
  BY DEF LegalTxn
<1>2. ses \subseteq [id : 1..tid', uuid : Uuid]
  BY <1>1
<1>0. \A s \in ses :
         s.id \in DOMAIN tx /\ ~Client(tx[s.id]) => s.uuid = <<"sip", s.id>>
  <2> TAKE s \in ses
  <2> HAVE s.id \in DOMAIN tx /\ ~Client(tx[s.id])
  <2>1. s.id \in DOMAIN txn
    BY DEF LegalTxn
  <2> QED BY <2>1 DEF SessionUuids, LegalTxn, Client
<1>3. CASE ss = ses
  BY <1>0, <1>2, <1>3 DEF SessionUuids
<1>4. ASSUME NEW t \in DOMAIN tx, \A s \in ses : s.id # t,
             ss = ses \cup {[id |-> t, uuid |-> <<"sip", t>>]}
      PROVE  /\ ses \subseteq ss
             /\ ss \subseteq [id : 1..tid', uuid : Uuid]
             /\ \A r, s \in ss : r.id = s.id \/ r.uuid = s.uuid => r = s
             /\ \A s \in ss :
                   \/ s.uuid = <<"sip", s.id>>
                   \/ \E k \in 1..Len(requests) : s.uuid = <<"route", k>>
             /\ \A s \in ss :
                   s.id \in DOMAIN tx /\ ~Client(tx[s.id]) => s.uuid = <<"sip", s.id>>
  <2> DEFINE new == [id |-> t, uuid |-> <<"sip", t>>]
  <2>1. t \in 1..tid' /\ t \in Nat
    BY <1>1
  <2>2. new \in [id : 1..tid', uuid : Uuid]
    BY <2>1 DEF Uuid
  <2>3. \A s \in ses : s.uuid # <<"sip", t>>
    <3>1. \A s \in ses : \/ s.uuid = <<"sip", s.id>>
                         \/ \E k \in 1..Len(requests) : s.uuid = <<"route", k>>
      BY DEF SessionUuids
    <3> QED BY SMTT(60), <1>4, <3>1
  <2>4. new.id = t /\ new.uuid = <<"sip", t>>
    OBVIOUS
  <2>5. \A r, s \in ss : r.id = s.id \/ r.uuid = s.uuid => r = s
    BY <1>4, <2>3, <2>4 DEF SessionUuids
  <2>6. \A s \in ss : \/ s.uuid = <<"sip", s.id>>
                      \/ \E k \in 1..Len(requests) : s.uuid = <<"route", k>>
    BY <1>4, <2>4 DEF SessionUuids
  <2>7. \A s \in ss :
           s.id \in DOMAIN tx /\ ~Client(tx[s.id]) => s.uuid = <<"sip", s.id>>
    BY <1>0, <1>4, <2>4
  <2> QED BY <1>2, <1>4, <2>2, <2>5, <2>6, <2>7
<1> QED BY <1>3, <1>4 DEF LegalSes

(* The messages and sessions of a legal successor stay traceable. *)
LEMMA QueryUuidKept ==
    ASSUME Core, NEW tx, LegalTxn(tx), NEW ss, LegalSes(ss, tx),
           NEW u, NEW b, QueryUuid(u, b, txn, ses)
    PROVE  QueryUuid(u, b, tx, ss)
<1>1. PICK t \in Nat : /\ u = <<"sip", t>>
                       /\ [id |-> t, uuid |-> u] \in ses
                       /\ t \in DOMAIN txn => ~Client(txn[t]) /\ txn[t].branch = b
  BY DEF QueryUuid
<1>2. [id |-> t, uuid |-> u] \in ss
  BY <1>1, SessionsLegal
<1>3. t # tid + 1
  <2> DEFINE s0 == [id |-> t, uuid |-> u]
  <2>1. s0 \in [id : 1..tid, uuid : Uuid] /\ s0.id = t
    BY <1>1 DEF Core, CoreTypes
  <2>2. s0.id \in 1..tid /\ tid \in Nat
    BY <2>1 DEF Core, CoreTypes
  <2> QED BY <2>1, <2>2
<1>4. t \in DOMAIN tx => ~Client(tx[t]) /\ tx[t].branch = b
  BY <1>1, <1>3 DEF LegalTxn, Client
<1> QED BY <1>1, <1>2, <1>4 DEF QueryUuid

(* A callback breaks no trace from a client transaction to its query. *)
LEMMA TracesKept ==
    ASSUME Core, NEW tx, NEW ss, NEW ch, Legal(tx, ss, ch)
    PROVE  /\ \A m \in ch : Traceable(m, tx, ss)
           /\ \A t \in DOMAIN tx : Client(tx[t]) =>
                 QueryUuid(requests[tx[t].opaque], tx[t].branch, tx, ss)
<1> USE DEF Legal
<1>1. \A m \in ch : Traceable(m, tx, ss)
  <2> SUFFICES ASSUME NEW m \in ch, m \in chan PROVE Traceable(m, tx, ss)
    BY DEF LegalChan
  <2>1. Traceable(m, txn, ses)
    BY DEF Core, Traces
  <2> QED BY <2>1, QueryUuidKept DEF Traceable
<1>2. ASSUME NEW t \in DOMAIN tx, Client(tx[t])
      PROVE  QueryUuid(requests[tx[t].opaque], tx[t].branch, tx, ss)
  <2>1. t \in DOMAIN txn
    BY <1>2 DEF LegalTxn
  <2>2. Client(txn[t]) /\ tx[t].opaque = txn[t].opaque /\ tx[t].branch = txn[t].branch
    BY <1>2, <2>1 DEF LegalTxn, Client
  <2>3. QueryUuid(requests[txn[t].opaque], txn[t].branch, txn, ses)
    BY <2>1, <2>2 DEF Core, Traces
  <2> QED BY <2>2, <2>3, QueryUuidKept
<1> QED BY <1>1, <1>2

(* A callback that ends in Keep preserves the invariant. *)
LEMMA KeepCore ==
    ASSUME Core, NEW tx, NEW armed, NEW ss, NEW ch, Legal(tx, ss, ch),
           armed \subseteq {t \in DOMAIN tx : tx[t].state # "TERMINATED"},
           Keep(tx, armed, ss, ch), UNCHANGED requests, LegalWire
    PROVE  Core'
<1> USE DEF Keep
<1>0. LegalTxn(tx) /\ LegalSes(ss, tx) /\ LegalChan(ch, tx, ss)
  BY DEF Legal
<1>t. tid \in Nat /\ tid' \in Nat /\ tid <= tid' /\ DOMAIN tx \subseteq 1..tid' /\ tid + 1 \notin DOMAIN txn
  BY SMTT(60), <1>0 DEF LegalTxn, Core, CoreTypes
<1>1. CoreTypes'
  <2>1. ses' \subseteq [id : 1..tid', uuid : Uuid]
    BY <1>0, SessionsLegal
  <2>2. \A t \in DOMAIN tx : tx[t] \in Transaction
    BY <1>0 DEF LegalTxn
  <2>3. ch \subseteq Message
    BY <1>0 DEF LegalChan
  <2>4. entities' \in [Net -> SUBSET (1..tid')]
    BY <1>t DEF Pushed, Core, CoreTypes
  <2>5. wire' \in Seq(WireEntry) /\ Len(wire') = Len(wire)
    BY DEF LegalWire
  <2> QED BY <1>t, <2>1, <2>2, <2>3, <2>4, <2>5 DEF Core, CoreTypes
<1>2. Terminated'
  <2>1. ASSUME NEW t \in DOMAIN tx, tx[t].state = "TERMINATED"
        PROVE  Client(tx[t]) /\ t \notin armed
    <3>1. t \in DOMAIN txn /\ txn[t].state = "TERMINATED" /\ tx[t].kind = txn[t].kind
      BY <1>0, <2>1 DEF LegalTxn
    <3> QED BY <2>1, <3>1 DEF Core, Terminated, Client
  <2> QED BY <2>1 DEF Terminated, Client
<1>3. EntityMapExact'
  <2> SUFFICES ASSUME NEW n \in Net
               PROVE  entities'[n] = {t \in DOMAIN tx : tx[t].net = n /\ tx[t].state # "TERMINATED"}
    BY DEF EntityMapExact
  <2>1. entities'[n] = entities[n] \cup {t \in DOMAIN tx \ DOMAIN txn : tx[t].net = n}
    BY DEF Pushed
  <2>2. entities[n] = {t \in DOMAIN txn : txn[t].net = n /\ txn[t].state # "TERMINATED"}
    BY DEF Core, EntityMapExact
  <2>3. \A t \in DOMAIN txn : t \in DOMAIN tx /\ tx[t].net = txn[t].net
                              /\ (tx[t].state = "TERMINATED" <=> txn[t].state = "TERMINATED")
    BY <1>0 DEF LegalTxn
  <2>4. \A t \in DOMAIN tx \ DOMAIN txn : tx[t].state # "TERMINATED"
    BY <1>0 DEF LegalTxn
  <2> QED BY <2>1, <2>2, <2>3, <2>4
<1>4. SessionUuids'
  BY <1>0, SessionsLegal DEF SessionUuids, Client
<1>5. TokenOwned'
  <2> SUFFICES ASSUME NEW t \in DOMAIN tx, Client(tx[t])
               PROVE  /\ tx[t].opaque \in DOMAIN token
                      /\ token[tx[t].opaque].uses = 0
                      /\ \A u \in DOMAIN tx : Client(tx[u]) /\ tx[u].opaque = tx[t].opaque => u = t
                      /\ [id |-> t, uuid |-> <<"route", tx[t].opaque>>] \in ss
    BY DEF TokenOwned, Client
  <2>1. \A u \in DOMAIN tx : Client(tx[u]) =>
           u \in DOMAIN txn /\ Client(txn[u]) /\ tx[u].opaque = txn[u].opaque
    BY <1>0 DEF LegalTxn, Client
  <2>2. ses \subseteq ss
    BY <1>0, SessionsLegal
  <2> QED BY <2>1, <2>2 DEF Core, TokenOwned
<1>6. TokenFreedOnce'
  BY DEF Core, TokenFreedOnce
<1>7. Traces'
  <2>1. /\ \A m \in ch : Traceable(m, tx, ss)
        /\ \A t \in DOMAIN tx : Client(tx[t]) =>
              QueryUuid(requests[tx[t].opaque], tx[t].branch, tx, ss)
    BY TracesKept
  <2>2. \A u, b : QueryUuid(u, b, tx, ss) => QueryUuid(u, b, txn, ses)'
    BY <1>t DEF QueryUuid, Client
  <2>3. \A m \in ch : Traceable(m, txn, ses)'
    BY <2>1, <2>2 DEF Traceable
  <2> QED BY <2>1, <2>2, <2>3 DEF Traces, Client
<1>8. Remembered'
  <2> SUFFICES ASSUME NEW k \in 1..Len(requests), token[k].uses = 0, wire'[k].sent > 0
               PROVE  \E t \in DOMAIN tx :
                         Client(tx[t]) /\ tx[t].state # "TERMINATED" /\ tx[t].opaque = k
    BY DEF Remembered, Alive, Client
  <2>1. Alive(k)
    BY DEF LegalWire, Core, CoreTypes, Remembered
  <2> QED BY <1>0, <2>1 DEF Alive, LegalTxn, Client
<1>9. Ordered'
  BY <1>0 DEF LegalTxn, Core, Ordered, Client
<1> QED BY <1>1, <1>2, <1>3, <1>4, <1>5, <1>6, <1>7, <1>8, <1>9 DEF Core

(* What sip_delete does: the transactions T and the sessions of the client  *)
(* transactions in it are gone, their tokens are spent, and what is new on  *)
(* the broker answers for one of them.                                      *)
Deleted(T, tx, ss, ch) ==
    /\ DOMAIN txn' = DOMAIN tx \ T
    /\ \A t \in DOMAIN txn' : txn'[t] = tx[t]
    /\ timer' = timer \ T
    /\ ses' = {s \in ss : ~(s.id \in T /\ Client(tx[s.id]))}
    /\ token' \in [DOMAIN token -> [port : Nat, uses : Nat]]
    /\ \A k \in DOMAIN token :
          IF \E t \in T : Client(tx[t]) /\ tx[t].opaque = k
          THEN token'[k].uses = token[k].uses + 1
          ELSE token'[k].uses = token[k].uses
    /\ \A m \in chan' : \/ m \in ch
                       \/ \E t \in T :
                             /\ Client(tx[t])
                             /\ m = [uuid |-> <<"route", tx[t].opaque>>,
                                     branch |-> tx[t].branch, copy |-> 0,
                                     status |-> ReplyStatus(tx[t])]

(* Delete does that: no client transaction is without its session. *)
LEMMA DeleteEffect ==
    ASSUME Core, NEW T, NEW tx, NEW ss, NEW ch, Legal(tx, ss, ch), T \subseteq DOMAIN tx,
           Delete(T, tx, ss, ch)
    PROVE  Deleted(T, tx, ss, ch)
<1> DEFINE stuck    == {t \in T : Client(tx[t]) /\ \A s \in ss : s.id # t}
           gone     == T \ stuck
           closing  == {t \in gone : Client(tx[t])}
           stale    == {t \in closing : token[tx[t].opaque].port # port}
           doubtful == IF "convert" \in Adverse THEN closing ELSE stale
<1>1. \A t \in DOMAIN tx : Client(tx[t]) =>
         [id |-> t, uuid |-> <<"route", tx[t].opaque>>] \in ss
  <2> TAKE t \in DOMAIN tx
  <2> HAVE Client(tx[t])
  <2>1. t \in DOMAIN txn /\ Client(txn[t]) /\ tx[t].opaque = txn[t].opaque
    BY DEF Legal, LegalTxn, Client
  <2> QED BY <2>1, SessionsLegal DEF Core, TokenOwned, Legal
<1>2. stuck = {} /\ gone = T /\ closing = {t \in T : Client(tx[t])}
  BY <1>1
<1>3. \A t \in closing : Reply(t, tx, ss) = [uuid |-> <<"route", tx[t].opaque>>,
                                            branch |-> tx[t].branch, copy |-> 0,
                                            status |-> ReplyStatus(tx[t])]
  <2> TAKE t \in closing
  <2> DEFINE s0 == [id |-> t, uuid |-> <<"route", tx[t].opaque>>]
  <2>1. s0 \in ss /\ s0.id = t
    BY <1>1, <1>2
  <2>2. \A s \in ss : s.id = t => s = s0
    BY <2>1, SessionsLegal DEF Legal
  <2>3. (CHOOSE s \in ss : s.id = t) = s0
    BY <2>1, <2>2
  <2>4. s0.uuid = <<"route", tx[t].opaque>>
    OBVIOUS
  <2>5. Reply(t, tx, ss) = [uuid   |-> (CHOOSE s \in ss : s.id = t).uuid,
                            branch |-> tx[t].branch, copy |-> 0,
                            status |-> ReplyStatus(tx[t])]
    BY DEF Reply
  <2> HIDE DEF s0
  <2> QED BY <2>3, <2>4, <2>5
<1>4. /\ txn' = [t \in DOMAIN tx \ gone |-> tx[t]]
      /\ timer' = timer \ gone
      /\ ses' = {s \in ss : s.id \notin closing}
      /\ token' = [k \in DOMAIN token |->
                      IF \E t \in closing : tx[t].opaque = k
                      THEN [port |-> token[k].port, uses |-> token[k].uses + 1]
                      ELSE token[k]]
      /\ \E lost \in SUBSET doubtful :
            chan' = ch \cup {Reply(t, tx, ss) : t \in closing \ lost}
  BY DEF Delete, TimersAfter
<1>5. \A m \in chan' : m \in ch \/ \E t \in closing : m = Reply(t, tx, ss)
  BY <1>4
<1>6. \A m \in chan' : \/ m \in ch
                       \/ \E t \in T :
                             /\ Client(tx[t])
                             /\ m = [uuid |-> <<"route", tx[t].opaque>>,
                                     branch |-> tx[t].branch, copy |-> 0,
                                     status |-> ReplyStatus(tx[t])]
  BY <1>2, <1>3, <1>5
<1>7. ses' = {s \in ss : ~(s.id \in T /\ Client(tx[s.id]))}
  BY <1>2, <1>4
<1>8. token' = [k \in DOMAIN token |->
                   IF \E t \in T : Client(tx[t]) /\ tx[t].opaque = k
                   THEN [port |-> token[k].port, uses |-> token[k].uses + 1]
                   ELSE token[k]]
  BY <1>2, <1>4
<1>9. \A k \in DOMAIN token : token[k] \in [port : Nat, uses : Nat]
  <2>1. token \in Seq([port : Nat, uses : Nat])
    BY DEF Core, CoreTypes
  <2> QED BY <2>1, SeqFacts
<1>10. token' \in [DOMAIN token -> [port : Nat, uses : Nat]]
  BY <1>8, <1>9
<1>11. \A k \in DOMAIN token :
          IF \E t \in T : Client(tx[t]) /\ tx[t].opaque = k
          THEN token'[k].uses = token[k].uses + 1
          ELSE token'[k].uses = token[k].uses
  BY <1>8
<1>12. txn' = [t \in DOMAIN tx \ T |-> tx[t]] /\ timer' = timer \ T
  BY <1>2, <1>4
<1>13. DOMAIN txn' = DOMAIN tx \ T /\ \A t \in DOMAIN txn' : txn'[t] = tx[t]
  BY <1>12
<1> QED BY <1>6, <1>7, <1>10, <1>11, <1>12, <1>13 DEF Deleted

(* A callback that ends in Delete preserves the invariant. *)
LEMMA DeleteCore ==
    ASSUME Core, NEW T, NEW tx, NEW ss, NEW ch, Legal(tx, ss, ch), T \subseteq DOMAIN tx,
           Delete(T, tx, ss, ch), UNCHANGED requests, LegalWire
    PROVE  Core'
<1>0. LegalTxn(tx) /\ LegalSes(ss, tx) /\ LegalChan(ch, tx, ss)
  BY DEF Legal
<1>t. tid \in Nat /\ tid' \in Nat /\ tid <= tid' /\ DOMAIN tx \subseteq 1..tid' /\ tid + 1 \notin DOMAIN txn
  BY <1>0 DEF LegalTxn, Core, CoreTypes
<1>e. Deleted(T, tx, ss, ch)
  BY DeleteEffect
<1>d. /\ DOMAIN txn' = DOMAIN tx \ T
      /\ \A t \in DOMAIN txn' : txn'[t] = tx[t]
      /\ timer' = timer \ T
      /\ ses' = {s \in ss : ~(s.id \in T /\ Client(tx[s.id]))}
      /\ token' \in [DOMAIN token -> [port : Nat, uses : Nat]]
      /\ \A k \in DOMAIN token :
            IF \E t \in T : Client(tx[t]) /\ tx[t].opaque = k
            THEN token'[k].uses = token[k].uses + 1
            ELSE token'[k].uses = token[k].uses
      /\ \A m \in chan' : \/ m \in ch
                         \/ \E t \in T :
                               /\ Client(tx[t])
                               /\ m = [uuid |-> <<"route", tx[t].opaque>>,
                                       branch |-> tx[t].branch, copy |-> 0,
                                       status |-> ReplyStatus(tx[t])]
  BY <1>e DEF Deleted
<1>l. DOMAIN token = 1..Len(requests) /\ Len(requests) \in Nat
  <2>1. token \in Seq([port : Nat, uses : Nat]) /\ Len(token) = Len(requests)
    BY DEF Core, CoreTypes
  <2> QED BY <2>1, SeqFacts
<1>o. \A t \in DOMAIN tx : Client(tx[t]) =>
         /\ t \in DOMAIN txn /\ Client(txn[t]) /\ tx[t].opaque = txn[t].opaque
         /\ tx[t].opaque \in DOMAIN token /\ token[tx[t].opaque].uses = 0
         /\ [id |-> t, uuid |-> <<"route", tx[t].opaque>>] \in ss
         /\ \A u \in DOMAIN tx : Client(tx[u]) /\ tx[u].opaque = tx[t].opaque => u = t
  <2> TAKE t \in DOMAIN tx
  <2> HAVE Client(tx[t])
  <2>1. \A u \in DOMAIN tx : Client(tx[u]) =>
           u \in DOMAIN txn /\ Client(txn[u]) /\ tx[u].opaque = txn[u].opaque
    BY <1>0 DEF LegalTxn, Client
  <2>2. ses \subseteq ss
    BY <1>0, SessionsLegal
  <2> QED BY <2>1, <2>2 DEF Core, TokenOwned
<1>r. ASSUME NEW t \in T, Client(tx[t]),
             NEW m, m = [uuid |-> <<"route", tx[t].opaque>>, branch |-> tx[t].branch,
                         copy |-> 0, status |-> ReplyStatus(tx[t])]
      PROVE  m \in Message /\ Traceable(m, tx, ss)
  <2>1. tx[t] \in Transaction /\ tx[t].opaque \in 1..Len(requests)
    BY <1>0, <1>o, <1>l, <1>r DEF LegalTxn
  <2>2. ReplyStatus(tx[t]) \in Status
    BY <2>1 DEF ReplyStatus, Transaction, Status, None
  <2>3. m.uuid \in Uuid /\ tx[t].branch \in Branch
    BY <2>1, <1>r DEF Transaction, Uuid
  <2>4. m \in Message
    BY <2>2, <2>3, <1>r DEF Message
  <2>5. QueryUuid(requests[tx[t].opaque], tx[t].branch, tx, ss)
    BY <1>r, TracesKept
  <2>6. m.status # None
    BY <2>2, <1>r DEF Status, None
  <2> QED BY <2>1, <2>4, <2>5, <2>6, <1>r DEF Traceable
<1>1. CoreTypes'
  <2>1. ses' \subseteq [id : 1..tid', uuid : Uuid]
    BY <1>0, <1>d, SessionsLegal
  <2>2. \A t \in DOMAIN txn' : txn'[t] \in Transaction
    BY <1>0, <1>d DEF LegalTxn
  <2>3. chan' \subseteq Message
    BY <1>0, <1>r, <1>d DEF LegalChan
  <2>4. token' \in Seq([port : Nat, uses : Nat]) /\ Len(token') = Len(requests)
    BY <1>d, <1>l, FunctionIsSeq
  <2>5. timer' \subseteq DOMAIN txn'
    BY <1>0, <1>d DEF Core, CoreTypes, LegalTxn
  <2>6. entities' \in [Net -> SUBSET (1..tid')]
    <3>1. entities' = [n \in Net |-> Pushed(tx)[n] \ T]
      BY DEF Delete
    <3>2. \A n \in Net : Pushed(tx)[n] \subseteq 1..tid'
      BY <1>t DEF Pushed, Core, CoreTypes
    <3> QED BY <3>1, <3>2
  <2>7. wire' \in Seq(WireEntry) /\ Len(wire') = Len(wire)
    BY DEF LegalWire
  <2> QED BY <1>t, <1>d, <2>1, <2>2, <2>3, <2>4, <2>5, <2>6, <2>7 DEF Core, CoreTypes
<1>2. Terminated'
  <2>1. ASSUME NEW t \in DOMAIN tx, tx[t].state = "TERMINATED"
        PROVE  Client(tx[t]) /\ t \notin timer
    <3>1. t \in DOMAIN txn /\ txn[t].state = "TERMINATED" /\ tx[t].kind = txn[t].kind
      BY <1>0, <2>1 DEF LegalTxn
    <3> QED BY <2>1, <3>1 DEF Core, Terminated, Client
  <2> QED BY <2>1, <1>d DEF Terminated, Client
<1>3. EntityMapExact'
  <2> SUFFICES ASSUME NEW n \in Net
               PROVE  entities'[n] = {t \in DOMAIN txn' : txn'[t].net = n /\ txn'[t].state # "TERMINATED"}
    BY DEF EntityMapExact
  <2>1. entities'[n] = (entities[n] \cup {t \in DOMAIN tx \ DOMAIN txn : tx[t].net = n}) \ T
    BY DEF Delete, Pushed
  <2>2. entities[n] = {t \in DOMAIN txn : txn[t].net = n /\ txn[t].state # "TERMINATED"}
    BY DEF Core, EntityMapExact
  <2>3. \A t \in DOMAIN txn : t \in DOMAIN tx /\ tx[t].net = txn[t].net
                              /\ (tx[t].state = "TERMINATED" <=> txn[t].state = "TERMINATED")
    BY <1>0 DEF LegalTxn
  <2>4. \A t \in DOMAIN tx \ DOMAIN txn : tx[t].state # "TERMINATED"
    BY <1>0 DEF LegalTxn
  <2>5. {t \in DOMAIN txn' : txn'[t].net = n /\ txn'[t].state # "TERMINATED"}
        = {t \in DOMAIN tx \ T : tx[t].net = n /\ tx[t].state # "TERMINATED"}
    BY <1>d
  <2> QED BY <2>1, <2>2, <2>3, <2>4, <2>5
<1>4. SessionUuids'
  BY <1>0, <1>d, SessionsLegal DEF SessionUuids, Client
<1>5. TokenOwned'
  <2> SUFFICES ASSUME NEW t \in DOMAIN tx \ T, Client(tx[t])
               PROVE  /\ tx[t].opaque \in DOMAIN token'
                      /\ token'[tx[t].opaque].uses = 0
                      /\ \A u \in DOMAIN tx \ T : Client(tx[u]) /\ tx[u].opaque = tx[t].opaque => u = t
                      /\ [id |-> t, uuid |-> <<"route", tx[t].opaque>>] \in ses'
    BY <1>d DEF TokenOwned, Client
  <2>1. ~\E u \in T : Client(tx[u]) /\ tx[u].opaque = tx[t].opaque
    BY <1>o
  <2> QED BY <1>o, <1>d, <2>1
<1>6. TokenFreedOnce'
  <2> SUFFICES ASSUME NEW k \in DOMAIN token
               PROVE  token'[k].uses <= 1
    BY <1>d DEF TokenFreedOnce
  <2>1. CASE \E t \in T : Client(tx[t]) /\ tx[t].opaque = k
    <3>1. token[k].uses = 0
      BY <2>1, <1>o
    <3>2. token'[k].uses = token[k].uses + 1
      BY <2>1, <1>d
    <3> QED BY <3>1, <3>2
  <2>2. CASE ~\E t \in T : Client(tx[t]) /\ tx[t].opaque = k
    BY <2>2, <1>d DEF Core, TokenFreedOnce
  <2> QED BY <2>1, <2>2
<1>7. Traces'
  <2>1. \A t \in DOMAIN tx : Client(tx[t]) =>
              QueryUuid(requests[tx[t].opaque], tx[t].branch, tx, ss)
    BY TracesKept
  <2>2. \A m \in chan' : Traceable(m, tx, ss)
    BY TracesKept, <1>r, <1>d
  <2>3. \A u, b : QueryUuid(u, b, tx, ss) => QueryUuid(u, b, txn, ses)'
    <3> SUFFICES ASSUME NEW u, NEW b, QueryUuid(u, b, tx, ss)
                 PROVE  QueryUuid(u, b, txn, ses)'
      OBVIOUS
    <3>1. PICK t \in Nat : /\ u = <<"sip", t>>
                           /\ [id |-> t, uuid |-> u] \in ss
                           /\ t \in DOMAIN tx => ~Client(tx[t]) /\ tx[t].branch = b
      BY DEF QueryUuid
    <3>3. [id |-> t, uuid |-> u] \in ses'
      BY <3>1, <1>d
    <3>4. t \in DOMAIN txn' => ~Client(txn'[t]) /\ txn'[t].branch = b
      BY <3>1, <1>d
    <3> QED BY <3>1, <3>3, <3>4 DEF QueryUuid, Client
  <2>4. \A m \in chan' : Traceable(m, txn, ses)'
    BY <2>2, <2>3 DEF Traceable
  <2>5. \A t \in DOMAIN txn' : Client(txn'[t]) =>
              QueryUuid(requests[tx[t].opaque], tx[t].branch, txn, ses)'
    <3> SUFFICES ASSUME NEW t \in DOMAIN tx, Client(tx[t])
                 PROVE  QueryUuid(requests[tx[t].opaque], tx[t].branch, txn, ses)'
      BY <1>d
    <3>1. QueryUuid(requests[tx[t].opaque], tx[t].branch, tx, ss)
      BY <2>1
    <3> QED BY <3>1, <2>3
  <2>6. \A t \in DOMAIN txn' : Client(txn'[t]) =>
              QueryUuid(requests[txn[t].opaque], txn[t].branch, txn, ses)'
    BY <2>5, <1>d
  <2> QED BY <2>4, <2>6 DEF Traces, Client
<1>8. Remembered'
  <2> SUFFICES ASSUME NEW k \in 1..Len(requests), token'[k].uses = 0, wire'[k].sent > 0
               PROVE  \E t \in DOMAIN txn' :
                         Client(txn'[t]) /\ txn'[t].state # "TERMINATED" /\ txn'[t].opaque = k
    BY DEF Remembered, Alive, Client
  <2>0. token[k] \in [port : Nat, uses : Nat]
    <3>1. token \in Seq([port : Nat, uses : Nat])
      BY DEF Core, CoreTypes
    <3> QED BY <1>l, <3>1, SeqFacts
  <2>1. token[k].uses = 0 /\ ~\E t \in T : Client(tx[t]) /\ tx[t].opaque = k
    BY <1>d, <1>l, <2>0
  <2>2. Alive(k)
    BY <2>1 DEF LegalWire, Core, CoreTypes, Remembered
  <2>3. PICK t \in DOMAIN txn :
           Client(txn[t]) /\ txn[t].state # "TERMINATED" /\ txn[t].opaque = k
    BY <2>2 DEF Alive
  <2>4. t \in DOMAIN tx /\ Client(tx[t]) /\ tx[t].state # "TERMINATED" /\ tx[t].opaque = k
    BY <1>0, <2>3 DEF LegalTxn, Client
  <2> QED BY <1>d, <2>1, <2>4
<1>9. Ordered'
  <2>1. \A t \in DOMAIN txn' : Client(txn'[t]) =>
           /\ t \in DOMAIN txn /\ Client(txn[t])
           /\ txn'[t].kind = txn[t].kind /\ txn'[t].branch = txn[t].branch
           /\ txn'[t].opaque = txn[t].opaque
    BY <1>0, <1>d DEF LegalTxn, Client
  <2> QED BY <2>1 DEF Core, Ordered, Client
<1> QED BY <1>1, <1>2, <1>3, <1>4, <1>5, <1>6, <1>7, <1>8, <1>9 DEF Core

(* The uuid of a query leads back to its server transaction, if that still  *)
(* exists: cmd_session_find.                                                *)
LEMMA QueryFound ==
    ASSUME Core, NEW u, NEW b, QueryUuid(u, b, txn, ses)
    PROVE  /\ SessionFind(u) \in Nat
           /\ SessionFind(u) \in DOMAIN txn =>
                 ~Client(txn[SessionFind(u)]) /\ txn[SessionFind(u)].branch = b
<1>1. PICK t \in Nat : /\ [id |-> t, uuid |-> u] \in ses
                       /\ t \in DOMAIN txn => ~Client(txn[t]) /\ txn[t].branch = b
  BY DEF QueryUuid
<1> DEFINE s0 == [id |-> t, uuid |-> u]
<1>2. s0 \in ses /\ s0.id = t /\ s0.uuid = u
  BY <1>1
<1> HIDE DEF s0
<1>3. \A s \in ses : s.uuid = u => s = s0
  BY <1>2 DEF Core, SessionUuids
<1>4. (CHOOSE s \in ses : s.uuid = u) = s0
  BY <1>2, <1>3
<1>5. SessionFind(u) = t
  BY <1>2, <1>4 DEF SessionFind
<1> QED BY <1>1, <1>5

-----------------------------------------------------------------------------
(* The handlers end in legal successors *)

(* The current state is a legal successor of itself, with any message less.*)
LEMMA LegalNow ==
    ASSUME Core, tid' \in {tid, tid + 1}, NEW ch, ch \subseteq chan
    PROVE  Legal(txn, ses, ch)
<1>1. tid + 1 \notin DOMAIN txn
  BY DEF Core, CoreTypes
<1>2. LegalTxn(txn)
  BY <1>1 DEF LegalTxn, Core, CoreTypes
<1>3. LegalSes(ses, txn)
  BY DEF LegalSes
<1>4. LegalChan(ch, txn, ses)
  BY DEF LegalChan, Core, CoreTypes
<1> QED BY <1>2, <1>3, <1>4 DEF Legal

(* A callback that sends nothing to a callee is legal on the wire. *)
LEMMA LegalWireNow ==
    ASSUME Core, UNCHANGED wire
    PROVE  LegalWire
BY DEF LegalWire, Core, CoreTypes

(* Hearing a response or sending a request again, seen in the history. *)
LEMMA HeardLegal ==
    ASSUME Core, NEW k, wire' = [wire EXCEPT ![k].heard = TRUE]
    PROVE  LegalWire
<1>1. /\ wire \in Seq(WireEntry) /\ Len(wire) \in Nat
      /\ DOMAIN wire = 1..Len(wire) /\ \A i \in DOMAIN wire : wire[i] \in WireEntry
  BY SeqFacts DEF Core, CoreTypes
<1>2. wire' = [i \in 1..Len(wire) |->
                 IF i = k THEN [wire[i] EXCEPT !.heard = TRUE] ELSE wire[i]]
  BY <1>1
<1>3. \A x \in WireEntry : /\ [x EXCEPT !.heard = TRUE] \in WireEntry
                           /\ [x EXCEPT !.heard = TRUE].sent = x.sent
  BY DEF WireEntry
<1>4. /\ wire' \in [1..Len(wire) -> WireEntry]
      /\ \A i \in 1..Len(wire) : wire'[i].sent = wire[i].sent
  <2>1. \A i \in 1..Len(wire) :
           wire'[i] = IF i = k THEN [wire[i] EXCEPT !.heard = TRUE] ELSE wire[i]
    BY <1>2
  <2>2. \A i \in 1..Len(wire) : wire'[i] \in WireEntry /\ wire'[i].sent = wire[i].sent
    BY <1>1, <1>3, <2>1
  <2> QED
    BY <1>2, <2>2
<1>5. wire' \in Seq(WireEntry) /\ Len(wire') = Len(wire)
  BY <1>1, <1>4, FunctionIsSeq
<1> QED BY <1>4, <1>5 DEF LegalWire

(* sip_redo sends a request whose transaction is there. *)
LEMMA SentLegal ==
    ASSUME Core, NEW k, Alive(k), wire' = [wire EXCEPT ![k].sent = @ + 1]
    PROVE  LegalWire
<1>1. /\ wire \in Seq(WireEntry) /\ Len(wire) \in Nat
      /\ DOMAIN wire = 1..Len(wire) /\ \A i \in DOMAIN wire : wire[i] \in WireEntry
  BY SeqFacts DEF Core, CoreTypes
<1>2. wire' = [i \in 1..Len(wire) |->
                 IF i = k THEN [wire[i] EXCEPT !.sent = @ + 1] ELSE wire[i]]
  BY <1>1
<1>3. \A x \in WireEntry : [x EXCEPT !.sent = @ + 1] \in WireEntry
  BY DEF WireEntry
<1>4. /\ wire' \in [1..Len(wire) -> WireEntry]
      /\ \A i \in 1..Len(wire) : i # k => wire'[i].sent = wire[i].sent
  BY <1>1, <1>2, <1>3
<1>5. wire' \in Seq(WireEntry) /\ Len(wire') = Len(wire)
  BY <1>1, <1>4, FunctionIsSeq
<1> QED BY <1>4, <1>5 DEF LegalWire

(* A successor stays legal when one transaction changes its progress.      *)
LEMMA LegalProgress ==
    ASSUME Core, NEW tx, NEW ss, NEW ch, Legal(tx, ss, ch), NEW ty,
           DOMAIN ty = DOMAIN tx,
           \A t \in DOMAIN tx :
              /\ ty[t] \in Transaction
              /\ ty[t].kind = tx[t].kind
              /\ ty[t].branch = tx[t].branch
              /\ ty[t].net = tx[t].net
              /\ ty[t].opaque = tx[t].opaque
              /\ ty[t].state = "TERMINATED" <=> tx[t].state = "TERMINATED"
    PROVE  Legal(ty, ss, ch)
<1>1. \A t \in DOMAIN tx : Client(ty[t]) <=> Client(tx[t])
  BY DEF Client
<1>2. LegalTxn(ty)
  BY <1>1 DEF Legal, LegalTxn
<1>3. LegalSes(ss, ty)
  BY <1>1 DEF Legal, LegalSes
<1>4. \A u, b : QueryUuid(u, b, tx, ss) => QueryUuid(u, b, ty, ss)
  BY <1>1 DEF QueryUuid
<1>5. \A m : Traceable(m, tx, ss) => Traceable(m, ty, ss)
  BY <1>4 DEF Traceable
<1>6. LegalChan(ch, ty, ss)
  BY <1>5 DEF Legal, LegalChan
<1> QED BY <1>2, <1>3, <1>6 DEF Legal

(* Timers armed before a callback belong to transactions not terminated.   *)
LEMMA ArmedLegal ==
    ASSUME Core, NEW tx, LegalTxn(tx)
    PROVE  timer \subseteq {t \in DOMAIN tx : tx[t].state # "TERMINATED"}
BY DEF Core, CoreTypes, Terminated, LegalTxn

(* A server transaction is never left terminated.                          *)
LEMMA ServerLive ==
    ASSUME Core, NEW tx, LegalTxn(tx), NEW t \in DOMAIN tx, ~Client(tx[t])
    PROVE  tx[t].state # "TERMINATED"
BY DEF Core, CoreTypes, Terminated, LegalTxn, Client

(* sip_call of a status event preserves the invariant, however it ends. *)
LEMMA SendStatusCore ==
    ASSUME Core, NEW tx, NEW ss, NEW ch, Legal(tx, ss, ch),
           NEW t \in DOMAIN tx, ~Client(tx[t]), NEW status \in Status,
           SendStatus(t, status, tx, ss, ch), UNCHANGED requests, LegalWire
    PROVE  Core'
<1> DEFINE ringing == [tx EXCEPT ![t].state = "PROCEEDING", ![t].last = status]
           failed  == [tx EXCEPT ![t].state = "COMPLETED", ![t].last = status,
                                 ![t].retry = RetryBegun(tx[t])]
<1>0. LegalTxn(tx) /\ tx[t].state # "TERMINATED" /\ \A i \in DOMAIN tx : tx[i] \in Transaction
  BY ServerLive DEF Legal, LegalTxn
<1>1. CASE Delete({t}, tx, ss, ch)
  BY <1>1, DeleteCore
<1>2. CASE Keep(ringing, timer, ss, ch)
  <2>1. Legal(ringing, ss, ch)
    <3>1. ringing[t] = [tx[t] EXCEPT !.state = "PROCEEDING", !.last = status]
      OBVIOUS
    <3>2. \A i \in DOMAIN tx : i # t => ringing[i] = tx[i]
      OBVIOUS
    <3>3. /\ ringing[t] \in Transaction
          /\ ringing[t].kind = tx[t].kind /\ ringing[t].branch = tx[t].branch
          /\ ringing[t].net = tx[t].net /\ ringing[t].opaque = tx[t].opaque
          /\ ringing[t].state = "PROCEEDING"
      BY <1>0, <3>1 DEF Transaction
    <3>4. DOMAIN ringing = DOMAIN tx
      OBVIOUS
    <3> HIDE DEF ringing
    <3> QED BY <1>0, <3>2, <3>3, <3>4, LegalProgress
  <2> HIDE DEF ringing
  <2>2. LegalTxn(ringing)
    BY <2>1 DEF Legal
  <2>3. timer \subseteq {i \in DOMAIN ringing : ringing[i].state # "TERMINATED"}
    BY <2>2, ArmedLegal
  <2> QED BY <1>2, <2>1, <2>3, KeepCore
<1>3. CASE Keep(failed, timer \cup {t}, ss, ch)
  <2>0. RetryBegun(tx[t]) \in Nat
    BY <1>0, GatewayAssumption DEF RetryBegun, Transaction
  <2>1. /\ Legal(failed, ss, ch)
        /\ t \in DOMAIN failed /\ failed[t].state # "TERMINATED"
    <3>1. failed[t] = [tx[t] EXCEPT !.state = "COMPLETED", !.last = status,
                                    !.retry = RetryBegun(tx[t])]
      OBVIOUS
    <3>2. \A i \in DOMAIN tx : i # t => failed[i] = tx[i]
      OBVIOUS
    <3>3. /\ failed[t] \in Transaction
          /\ failed[t].kind = tx[t].kind /\ failed[t].branch = tx[t].branch
          /\ failed[t].net = tx[t].net /\ failed[t].opaque = tx[t].opaque
          /\ failed[t].state = "COMPLETED"
      BY <1>0, <2>0, <3>1 DEF Transaction
    <3>4. DOMAIN failed = DOMAIN tx
      OBVIOUS
    <3> HIDE DEF failed
    <3> QED BY <1>0, <3>2, <3>3, <3>4, LegalProgress
  <2> HIDE DEF failed
  <2>2. LegalTxn(failed)
    BY <2>1 DEF Legal
  <2>3. timer \cup {t} \subseteq {i \in DOMAIN failed : failed[i].state # "TERMINATED"}
    BY <2>1, <2>2, ArmedLegal
  <2> QED BY <1>3, <2>1, <2>3, KeepCore
<1> QED BY <1>1, <1>2, <1>3 DEF SendStatus

(* The session and the query of a server transaction are legal.            *)
LEMMA LegalQuery ==
    ASSUME Core, NEW tx, Legal(tx, ses, chan), NEW t \in DOMAIN tx, ~Client(tx[t]),
           NEW b, b = tx[t].branch, sends'[b] \in Nat
    PROVE  /\ Legal(tx, SessionGet(t), chan \cup {Query(t, b)})
           /\ Legal(tx, SessionGet(t), chan)
<1>0. LegalTxn(tx) /\ LegalChan(chan, tx, ses)
  BY DEF Legal
<1>1. LegalSes(SessionGet(t), tx)
  BY DEF LegalSes, SessionGet
<1>2. [id |-> t, uuid |-> <<"sip", t>>] \in SessionGet(t)
  <2>1. CASE \E s \in ses : s.id = t
    <3>1. PICK s \in ses : s.id = t
      BY <2>1
    <3>2. s.uuid = <<"sip", t>> /\ SessionGet(t) = ses
      BY <1>0, <1>1, <3>1, SessionsLegal DEF SessionGet
    <3>3. s \in [id : 1..tid, uuid : Uuid]
      BY <3>1 DEF Core, CoreTypes
    <3>4. s = [id |-> t, uuid |-> <<"sip", t>>]
      BY <3>1, <3>2, <3>3
    <3> QED BY <3>1, <3>2, <3>4
  <2>2. CASE ~\E s \in ses : s.id = t
    BY <2>2 DEF SessionGet
  <2> QED BY <2>1, <2>2
<1>3. t \in Nat
  <2>1. tid \in Nat /\ DOMAIN txn \subseteq 1..tid
    BY DEF Core, CoreTypes
  <2>2. t \in DOMAIN txn \cup {tid + 1}
    BY <1>0 DEF LegalTxn
  <2> QED BY <2>1, <2>2
<1>4. QueryUuid(<<"sip", t>>, b, tx, SessionGet(t))
  BY <1>2, <1>3 DEF QueryUuid
<1>5. tx[t] \in Transaction
  BY <1>0 DEF LegalTxn
<1>6. Query(t, b) \in Message /\ Traceable(Query(t, b), tx, SessionGet(t))
  <2>1. b \in Branch /\ <<"sip", t>> \in Uuid
    BY <1>3, <1>5 DEF Transaction, Uuid
  <2>2. Query(t, b) = [uuid |-> <<"sip", t>>, branch |-> b, copy |-> sends'[b],
                      status |-> None]
    BY DEF Query
  <2>3. Query(t, b) \in Message
    BY <2>1, <2>2 DEF Message
  <2> QED BY <2>2, <2>3, <1>4 DEF Traceable
<1>7. /\ LegalChan(chan, tx, SessionGet(t))
      /\ LegalChan(chan \cup {Query(t, b)}, tx, SessionGet(t))
  BY <1>0, <1>6 DEF LegalChan
<1> QED BY <1>0, <1>1, <1>7 DEF Legal

(* The request callbacks of sip.c preserve the invariant. *)
LEMMA InitiateCore ==
    ASSUME Core, NEW tx, Legal(tx, ses, chan), NEW t \in DOMAIN tx, ~Client(tx[t]),
           sends'[tx[t].branch] \in Nat, Initiate(t, tx), UNCHANGED requests, LegalWire
    PROVE  Core'
<1> DEFINE b  == tx[t].branch
           q  == chan \cup {Query(t, b)}
<1>1. Legal(tx, SessionGet(t), q) /\ Legal(tx, SessionGet(t), chan)
  BY LegalQuery
<1>2. 180 \in Status /\ 500 \in Status /\ 503 \in Status
  BY DEF Status
<1>3. CASE SendStatus(t, 180, tx, SessionGet(t), q)
  BY <1>1, <1>2, <1>3, SendStatusCore
<1>4. CASE Keep(tx, timer, SessionGet(t), q)
  <2>1. timer \subseteq {i \in DOMAIN tx : tx[i].state # "TERMINATED"}
    BY ArmedLegal DEF Legal
  <2> QED BY <1>1, <1>4, <2>1, KeepCore
<1>5. CASE SendStatus(t, 503, tx, ses, chan)
  BY <1>2, <1>5, SendStatusCore
<1>6. ASSUME NEW code \in {500, 503}, SendStatus(t, code, tx, SessionGet(t), chan)
      PROVE  Core'
  BY <1>1, <1>2, <1>6, SendStatusCore
<1> QED BY <1>3, <1>4, <1>5, <1>6 DEF Initiate

(* A server transaction sip_loop creates is a legal addition. *)
LEMMA NewLegal ==
    ASSUME Core, tid' = tid + 1, NEW a \in Transaction,
           ~Client(a), a.state # "TERMINATED"
    PROVE  Legal(With(tid + 1, a), ses, chan)
<1>1. /\ tid \in Nat /\ tid + 1 \notin DOMAIN txn
      /\ \A i \in DOMAIN txn : txn[i] \in Transaction
  BY DEF Core, CoreTypes
<1> DEFINE tx == With(tid + 1, a)
<1>2. /\ DOMAIN tx = DOMAIN txn \cup {tid + 1}
      /\ tx[tid + 1] = a
      /\ \A i \in DOMAIN txn : tx[i] = txn[i]
  BY <1>1 DEF With
<1> HIDE DEF tx
<1>5. LegalTxn(tx)
  BY <1>1, <1>2 DEF LegalTxn
<1>6. LegalSes(ses, tx) /\ LegalChan(chan, tx, ses)
  BY DEF LegalSes, LegalChan, Core, CoreTypes
<1> QED BY <1>5, <1>6 DEF Legal, tx

-----------------------------------------------------------------------------
(* Every action preserves the invariant *)

(* A request of a caller. *)
LEMMA ReceiveNewCore ==
    ASSUME Core, NEW b \in Branch, NEW n \in Net, ReceiveNew(b, n),
           sends'[b] \in Nat, UNCHANGED requests, LegalWire
    PROVE  Core'
<1> DEFINE st == IF b \in Invite THEN "PROCEEDING" ELSE "TRYING"
           a  == NewTransaction(ServerKind(b), b, n, st, None)
           tx == With(tid + 1, a)
<1>1. /\ a \in Transaction /\ ~Client(a) /\ a.branch = b /\ a.state # "TERMINATED"
  BY DEF NewTransaction, Transaction, ServerKind, XIST, XICT, None, Client
<1>2. tid' = tid + 1 /\ Initiate(tid + 1, tx)
  BY DEF ReceiveNew
<1>3. tid + 1 \in DOMAIN tx /\ tx[tid + 1] = a
  BY DEF With
<1> HIDE DEF a
<1>4. Legal(tx, ses, chan)
  BY <1>1, <1>2, NewLegal
<1> HIDE DEF tx
<1> QED BY <1>1, <1>2, <1>3, <1>4, InitiateCore

(* A retransmitted request that finds its transaction. *)
LEMMA ReceiveAgainCore ==
    ASSUME Core, NEW b \in Branch, NEW t \in DOMAIN txn, ~Client(txn[t]), txn[t].branch = b,
           \/ ReceiveInviteAgain(b, t)
           \/ ReceiveRequestAgain(t),
           sends'[b] \in Nat, UNCHANGED <<tid, requests>>, LegalWire
    PROVE  Core'
<1>0. Legal(txn, ses, chan) /\ txn[t] \in Transaction
  BY LegalNow DEF Core, CoreTypes
<1>q. Legal(txn, SessionGet(t), chan \cup {Query(t, b)}) /\ Legal(txn, SessionGet(t), chan)
  BY <1>0, LegalQuery
<1>1. CASE Initiate(t, txn)
  BY <1>0, <1>1, InitiateCore
<1>2. ASSUME NEW ss \in {ses, SessionGet(t)}, NEW ch \in {chan, chan \cup {Query(t, b)}},
             Legal(txn, ss, ch),
             \/ Delete({t}, txn, ss, ch)
             \/ Keep([txn EXCEPT ![t].retry = RetryBegun(txn[t])], timer \cup {t}, ss, ch)
      PROVE  Core'
  <2>1. Legal(txn, ss, ch)
    BY <1>2
  <2>2. CASE Delete({t}, txn, ss, ch)
    BY <2>1, <2>2, DeleteCore
  <2>3. CASE Keep([txn EXCEPT ![t].retry = RetryBegun(txn[t])], timer \cup {t}, ss, ch)
    <3> DEFINE ty == [txn EXCEPT ![t].retry = RetryBegun(txn[t])]
    <3>1. RetryBegun(txn[t]) \in Nat
      BY <1>0, GatewayAssumption DEF RetryBegun, Transaction
    <3>2. ty[t] = [txn[t] EXCEPT !.retry = RetryBegun(txn[t])]
      OBVIOUS
    <3>3. DOMAIN ty = DOMAIN txn /\ \A i \in DOMAIN txn : i # t => ty[i] = txn[i]
      OBVIOUS
    <3>4. /\ ty[t] \in Transaction
          /\ ty[t].kind = txn[t].kind /\ ty[t].branch = txn[t].branch
          /\ ty[t].net = txn[t].net /\ ty[t].opaque = txn[t].opaque
          /\ ty[t].state = txn[t].state
      BY <1>0, <3>1, <3>2 DEF Transaction
    <3> HIDE DEF ty
    <3>5. \A i \in DOMAIN txn : txn[i] \in Transaction
      BY DEF Core, CoreTypes
    <3>6. Legal(ty, ss, ch)
      BY <2>1, <3>3, <3>4, <3>5, LegalProgress
    <3>7. txn[t].state # "TERMINATED"
      BY DEF Core, Terminated
    <3>8. timer \cup {t} \subseteq {i \in DOMAIN ty : ty[i].state # "TERMINATED"}
      BY <3>3, <3>4, <3>6, <3>7, ArmedLegal DEF Legal
    <3> QED BY <2>3, <3>6, <3>8, KeepCore DEF ty
  <2> QED BY <1>2, <2>2, <2>3
<1>3. CASE Keep(txn, timer, ses, chan)
  <2>1. timer \subseteq {i \in DOMAIN txn : txn[i].state # "TERMINATED"}
    BY <1>0, ArmedLegal DEF Legal
  <2> QED BY <1>0, <1>3, <2>1, KeepCore
<1>4. CASE SendStatus(t, 501, txn, ses, chan)
  <2>1. 501 \in Status
    BY DEF Status
  <2> QED BY <1>0, <1>4, <2>1, SendStatusCore
<1>5. CASE ReceiveInviteAgain(b, t)
  <2>1. CASE Initiate(t, txn)
    BY <1>1, <2>1
  <2>2. ASSUME NEW ss \in {ses, SessionGet(t)}, NEW ch \in {chan, chan \cup {Query(t, b)}},
               /\ \/ ready /\ ss = SessionGet(t) /\ ch = chan \cup {Query(t, b)}
                  \/ ready /\ "convert" \in Adverse /\ ss = SessionGet(t) /\ ch = chan
                  \/ ~ready /\ ss = ses /\ ch = chan
               /\ \/ Delete({t}, txn, ss, ch)
                  \/ Keep([txn EXCEPT ![t].retry = RetryBegun(txn[t])], timer \cup {t}, ss, ch)
        PROVE  Core'
    <3>1. Legal(txn, ss, ch)
      BY <1>0, <1>q, <2>2
    <3> QED BY <3>1, <2>2, <1>2
  <2> QED BY <1>5, <2>1, <2>2 DEF ReceiveInviteAgain
<1>6. CASE ReceiveRequestAgain(t)
  BY <1>3, <1>4, <1>6 DEF ReceiveRequestAgain
<1> QED BY <1>5, <1>6

(* sip_execute on a request. *)
LEMMA ReceiveRequestCore ==
    ASSUME Core, NEW b \in Branch, NEW n \in Net, ReceiveRequest(b, n),
           sends \in [Branch -> Nat]
    PROVE  Core'
<1>0. UNCHANGED requests /\ LegalWire /\ sends'[b] \in Nat
  BY LegalWireNow DEF ReceiveRequest
<1>1. CASE ReceiveNew(b, n)
  BY <1>0, <1>1, ReceiveNewCore
<1>2. ASSUME NEW t \in Oldest(b, ServerKind(b)), UNCHANGED tid,
             ReceiveInviteAgain(b, t) \/ ReceiveRequestAgain(t)
      PROVE  Core'
  <2>1. t \in DOMAIN txn /\ ~Client(txn[t]) /\ txn[t].branch = b
    BY DEF Oldest, Matching, ServerKind, Client, XICT
  <2>2. UNCHANGED <<tid, requests>> /\ LegalWire /\ sends'[b] \in Nat
    BY <1>0, <1>2
  <2>3. CASE ReceiveInviteAgain(b, t)
    BY <2>1, <2>2, <2>3, ReceiveAgainCore
  <2>4. CASE ReceiveRequestAgain(t)
    BY <2>1, <2>2, <2>4, ReceiveAgainCore
  <2> QED BY <1>2, <2>3, <2>4
<1> QED BY <1>1, <1>2 DEF ReceiveRequest

(* sip_execute on an ACK. *)
LEMMA ReceiveAckCore ==
    ASSUME Core, NEW b \in Branch, ReceiveAck(b)
    PROVE  Core'
<1>1. PICK t \in Oldest(b, "IST") : Delete({t}, txn, ses, chan)
  BY DEF ReceiveAck
<1>2. {t} \subseteq DOMAIN txn
  BY DEF Oldest, Matching
<1>3. UNCHANGED <<tid, requests>> /\ LegalWire
  BY LegalWireNow DEF ReceiveAck
<1>4. Legal(txn, ses, chan)
  BY <1>3, LegalNow
<1> QED BY <1>1, <1>2, <1>3, <1>4, DeleteCore

(* A reply that Route returns. *)
LEMMA FinalizeCore ==
    ASSUME Core, NEW u, NEW status \in Status, NEW ch, ch \subseteq chan,
           Finalize(u, status, ch), UNCHANGED <<tid, requests>>, LegalWire
    PROVE  Core'
<1> DEFINE t == SessionFind(u)
<1>1. Legal(txn, ses, ch) /\ 500 \in Status
  BY LegalNow DEF Status
<1>2. CASE t \in DOMAIN txn /\ ~Client(txn[t]) /\ SendStatus(t, status, txn, ses, ch)
  BY <1>1, <1>2, SendStatusCore
<1>3. CASE t \in DOMAIN txn /\ ~Client(txn[t]) /\ SendStatus(t, 500, txn, ses, ch)
  BY <1>1, <1>3, SendStatusCore
<1>4. CASE Keep(txn, timer, ses, ch)
  <2>1. timer \subseteq {i \in DOMAIN txn : txn[i].state # "TERMINATED"}
    BY <1>1, ArmedLegal DEF Legal
  <2> QED BY <1>1, <1>4, <2>1, KeepCore
<1> QED BY <1>2, <1>3, <1>4 DEF Finalize

(* cmd_finalise_request, for a reply of either kind. *)
LEMMA ReturnReplyCore ==
    ASSUME Core, NEW m \in chan, ReturnReply(m)
    PROVE  Core'
<1>1. chan \ {m} \subseteq chan /\ UNCHANGED <<tid, requests>> /\ LegalWire
  BY LegalWireNow DEF ReturnReply
<1>2. ASSUME NEW code \in {200, 403}, Finalize(m.uuid, code, chan \ {m})
      PROVE  Core'
  <2>1. code \in Status
    BY DEF Status
  <2> QED BY <1>1, <1>2, <2>1, FinalizeCore
<1>3. CASE m.status # None /\ Finalize(requests[m.uuid[2]], m.status, chan \ {m})
  <2>1. m.status \in Status
    BY <1>3 DEF Core, CoreTypes, Message
  <2> QED BY <1>1, <1>3, <2>1, FinalizeCore
<1> QED BY <1>2, <1>3 DEF ReturnReply

(* A response of a callee. *)
LEMMA TakeStatusCore ==
    ASSUME Core, NEW t \in DOMAIN txn, NEW status \in Status, TakeStatus(t, status),
           UNCHANGED <<tid, requests>>, LegalWire
    PROVE  Core'
<1> DEFINE tx == [txn EXCEPT ![t].last = status, ![t].state = "PROCEEDING"]
<1>0. Legal(txn, ses, chan) /\ \A i \in DOMAIN txn : txn[i] \in Transaction
  BY LegalNow DEF Core, CoreTypes
<1>1. txn[t].state # "TERMINATED"
  BY DEF TakeStatus
<1>2. tx[t] = [txn[t] EXCEPT !.last = status, !.state = "PROCEEDING"]
  OBVIOUS
<1>3. DOMAIN tx = DOMAIN txn /\ \A i \in DOMAIN txn : i # t => tx[i] = txn[i]
  OBVIOUS
<1>4. /\ tx[t] \in Transaction
      /\ tx[t].kind = txn[t].kind /\ tx[t].branch = txn[t].branch
      /\ tx[t].net = txn[t].net /\ tx[t].opaque = txn[t].opaque
      /\ tx[t].state = "PROCEEDING"
  BY <1>0, <1>2 DEF Transaction
<1>5. Keep(tx, timer \ {t}, ses, chan) \/ Delete({t}, tx, ses, chan)
  BY DEF TakeStatus
<1> HIDE DEF tx
<1>6. Legal(tx, ses, chan)
  BY <1>0, <1>1, <1>3, <1>4, LegalProgress
<1>7. timer \ {t} \subseteq {i \in DOMAIN tx : tx[i].state # "TERMINATED"}
  BY <1>6, ArmedLegal DEF Legal
<1>8. {t} \subseteq DOMAIN tx
  BY <1>3
<1> QED BY <1>5, <1>6, <1>7, <1>8, KeepCore, DeleteCore

(* sip_execute on a response. *)
LEMMA ReceiveResponseCore ==
    ASSUME Core, NEW b \in Branch, NEW status \in Said, ReceiveResponse(b, status)
    PROVE  Core'
<1>1. UNCHANGED <<tid, requests>> /\ status \in Status
  BY GatewayAssumption DEF ReceiveResponse, Status
<1>2. PICK t \in Oldest(b, ClientKind(b)) : TakeStatus(t, status) \/ IgnoreStatus(t)
  BY DEF ReceiveResponse
<1>3. t \in DOMAIN txn /\ {t} \subseteq DOMAIN txn
  BY DEF Oldest, Matching
<1>4. CASE TakeStatus(t, status)
  <2>1. wire' = [wire EXCEPT ![txn[t].opaque].heard = TRUE]
    BY <1>4 DEF TakeStatus
  <2>2. LegalWire
    BY <2>1, HeardLegal
  <2> QED BY <1>1, <1>3, <1>4, <2>2, TakeStatusCore
<1>5. CASE Delete({t}, txn, ses, chan) /\ UNCHANGED wire
  <2>1. Legal(txn, ses, chan) /\ LegalWire
    BY <1>1, <1>5, LegalNow, LegalWireNow
  <2> QED BY <1>1, <1>3, <1>5, <2>1, DeleteCore
<1> QED BY <1>2, <1>4, <1>5 DEF IgnoreStatus

(* A request that Route returns: what Route's map grows by leaves every    *)
(* trace in place.                                                         *)
LEMMA RequestsGrow ==
    ASSUME Core, NEW u \in Uuid, requests' = Append(requests, u)
    PROVE  /\ requests' \in Seq(Uuid)
           /\ Len(requests) \in Nat
           /\ Len(requests') = Len(requests) + 1
           /\ \A k \in 1..Len(requests) : requests'[k] = requests[k]
           /\ requests'[Len(requests) + 1] = u
BY DEF Core, CoreTypes

(* A new request of Route breaks no trace that is there. *)
LEMMA TracesGrow ==
    ASSUME Core, NEW u \in Uuid, requests' = Append(requests, u), ses \subseteq ses',
           DOMAIN txn' \subseteq DOMAIN txn \cup {tid + 1},
           \A i \in DOMAIN txn \cap DOMAIN txn' : txn'[i] = txn[i]
    PROVE  /\ \A v, b : QueryUuid(v, b, txn, ses) => QueryUuid(v, b, txn', ses')
           /\ \A m : Traceable(m, txn, ses) => Traceable(m, txn, ses)'
<1>1. ASSUME NEW v, NEW b, QueryUuid(v, b, txn, ses)
      PROVE  QueryUuid(v, b, txn', ses')
  <2>1. PICK t \in Nat : /\ v = <<"sip", t>>
                         /\ [id |-> t, uuid |-> v] \in ses
                         /\ t \in DOMAIN txn => ~Client(txn[t]) /\ txn[t].branch = b
    BY <1>1 DEF QueryUuid
  <2>2. t # tid + 1
    <3> DEFINE s0 == [id |-> t, uuid |-> v]
    <3>1. s0 \in [id : 1..tid, uuid : Uuid] /\ s0.id = t /\ tid \in Nat
      BY <2>1 DEF Core, CoreTypes
    <3>2. s0.id \in 1..tid
      BY <3>1
    <3> QED BY <3>1, <3>2
  <2>3. t \in DOMAIN txn' => ~Client(txn'[t]) /\ txn'[t].branch = b
    BY <2>1, <2>2
  <2>4. [id |-> t, uuid |-> v] \in ses'
    BY <2>1
  <2> QED BY <2>1, <2>3, <2>4 DEF QueryUuid
<1>2. ASSUME NEW m, Traceable(m, txn, ses)
      PROVE  Traceable(m, txn, ses)'
  <2>1. CASE m.status = None /\ QueryUuid(m.uuid, m.branch, txn, ses)
    <3>1. QueryUuid(m.uuid, m.branch, txn', ses')
      BY <1>1, <2>1
    <3> QED BY <2>1, <3>1 DEF Traceable, QueryUuid, Client
  <2>2. ASSUME m.status # None, NEW k \in 1..Len(requests), m.uuid = <<"route", k>>,
               QueryUuid(requests[k], m.branch, txn, ses)
        PROVE  Traceable(m, txn, ses)'
    <3>1. k \in 1..Len(requests') /\ requests'[k] = requests[k]
      BY <2>2, RequestsGrow
    <3>2. QueryUuid(requests'[k], m.branch, txn', ses')
      BY <1>1, <2>2, <3>1
    <3> QED BY <2>2, <3>1, <3>2 DEF Traceable, QueryUuid, Client
  <2> QED BY <1>2, <2>1, <2>2 DEF Traceable
<1> QED BY <1>1, <1>2

(* The next request of Route always gets its session. *)
LEMMA SessionAlwaysFits ==
    ASSUME Core
    PROVE  SessionFits([id |-> tid + 1, uuid |-> <<"route", Len(requests) + 1>>])
<1> DEFINE s == [id |-> tid + 1, uuid |-> <<"route", Len(requests) + 1>>]
<1>1. tid \in Nat /\ requests \in Seq(Uuid) /\ Len(requests) \in Nat
  BY SeqFacts DEF Core, CoreTypes
<1>2. s.id = tid + 1 /\ s.uuid = <<"route", Len(requests) + 1>>
  OBVIOUS
<1>3. ASSUME NEW r \in ses
      PROVE  r.id # s.id /\ r.uuid # s.uuid
  <2>1. r.id \in 1..tid
    BY DEF Core, CoreTypes
  <2>2. \/ r.uuid = <<"sip", r.id>>
        \/ \E k \in 1..Len(requests) : r.uuid = <<"route", k>>
    BY DEF Core, SessionUuids
  <2> HIDE DEF s
  <2>3. r.id # s.id
    BY <1>1, <1>2, <2>1
  <2>4. r.uuid # s.uuid
    BY <1>1, <1>2, <2>2
  <2> QED BY <2>3, <2>4
<1> QED BY <1>3 DEF SessionFits

(* What appending does to a sequence. *)
LEMMA AppendFacts ==
    ASSUME NEW S, NEW q \in Seq(S), NEW e \in S
    PROVE  /\ Append(q, e) \in Seq(S)
           /\ Len(q) \in Nat /\ Len(Append(q, e)) = Len(q) + 1
           /\ DOMAIN q = 1..Len(q) /\ DOMAIN Append(q, e) = 1..(Len(q) + 1)
           /\ \A k \in 1..Len(q) : Append(q, e)[k] = q[k]
           /\ Append(q, e)[Len(q) + 1] = e
OBVIOUS

(* What Refuse and Relay have in common: a token more, messages that trace *)
(* back, and at most the client transaction of the request.                *)
LEMMA ReturnedCore ==
    ASSUME Core, NEW m \in chan, m.status = None, requests' = Append(requests, m.uuid),
           NEW e \in [port : Nat, uses : 0..1], token' = Append(token, e),
           NEW w \in WireEntry, wire' = Append(wire, w),
           \A x \in chan' : \/ x \in chan
                            \/ \E code \in Status :
                                  x = [uuid |-> <<"route", Len(requests) + 1>>,
                                       branch |-> m.branch, copy |-> 0, status |-> code],
           \/ /\ UNCHANGED <<tid, txn, timer, entities, ses>>
              /\ w.sent = 0
           \/ /\ e.uses = 0
              /\ tid' = tid + 1
              /\ \E a \in Transaction :
                    /\ txn' = With(tid + 1, a)
                    /\ Client(a) /\ a.branch = m.branch /\ a.opaque = Len(requests) + 1
                    /\ a.kind = ClientKind(a.branch)
                    /\ \/ /\ a.state = "TERMINATED" /\ w.sent = 0
                          /\ UNCHANGED <<timer, entities>>
                       \/ /\ a.state # "TERMINATED"
                          /\ timer' \subseteq timer \cup {tid + 1}
                          /\ entities' = [entities EXCEPT ![a.net] = @ \cup {tid + 1}]
              /\ ses' = ses \cup {[id |-> tid + 1, uuid |-> <<"route", Len(requests) + 1>>]}
    PROVE  Core'
<1> DEFINE k == Len(requests) + 1
           s == [id |-> tid + 1, uuid |-> <<"route", k>>]
<1>t. /\ tid \in Nat /\ DOMAIN txn \subseteq 1..tid /\ tid + 1 \notin DOMAIN txn
      /\ timer \subseteq DOMAIN txn
      /\ \A t \in DOMAIN txn : txn[t] \in Transaction
      /\ ses \subseteq [id : 1..tid, uuid : Uuid]
      /\ entities \in [Net -> SUBSET (1..tid)]
  BY DEF Core, CoreTypes
<1>m. m.uuid \in Uuid /\ m.branch \in Branch /\ m \in Message
  BY DEF Core, CoreTypes, Message
<1>r. /\ requests' \in Seq(Uuid) /\ Len(requests) \in Nat
      /\ Len(requests') = Len(requests) + 1
      /\ \A i \in 1..Len(requests) : requests'[i] = requests[i]
      /\ requests'[Len(requests) + 1] = m.uuid
  BY <1>m, RequestsGrow
<1>k. /\ token' \in Seq([port : Nat, uses : Nat]) /\ Len(token') = Len(requests')
      /\ DOMAIN token = 1..Len(requests) /\ DOMAIN token' = 1..Len(requests')
      /\ \A i \in 1..Len(requests) : token'[i] = token[i]
      /\ token'[k] = e
  <2>1. /\ token \in Seq([port : Nat, uses : Nat]) /\ Len(token) = Len(requests)
        /\ e \in [port : Nat, uses : Nat]
    BY DEF Core, CoreTypes
  <2> QED BY <2>1, <1>r, AppendFacts
<1>w. /\ wire' \in Seq(WireEntry) /\ Len(wire') = Len(requests')
      /\ \A i \in 1..Len(requests) : wire'[i] = wire[i]
      /\ wire'[k] = w
  <2>1. wire \in Seq(WireEntry) /\ Len(wire) = Len(requests)
    BY DEF Core, CoreTypes
  <2> QED BY <2>1, <1>r, AppendFacts
<1>q. QueryUuid(m.uuid, m.branch, txn, ses)
  BY DEF Core, Traces, Traceable
(* The sessions and transactions of the next state. *)
<1>s. \/ UNCHANGED <<tid, txn, timer, entities, ses>> /\ w.sent = 0
      \/ /\ e.uses = 0 /\ tid' = tid + 1 /\ ses' = ses \cup {s}
         /\ DOMAIN txn' = DOMAIN txn \cup {tid + 1}
         /\ \A t \in DOMAIN txn : txn'[t] = txn[t]
         /\ txn'[tid + 1] \in Transaction /\ Client(txn'[tid + 1])
         /\ txn'[tid + 1].branch = m.branch /\ txn'[tid + 1].opaque = k
         /\ \/ /\ txn'[tid + 1].state = "TERMINATED" /\ w.sent = 0
               /\ UNCHANGED <<timer, entities>>
            \/ /\ txn'[tid + 1].state # "TERMINATED"
               /\ timer' \subseteq timer \cup {tid + 1}
               /\ entities' = [entities EXCEPT ![txn'[tid + 1].net] = @ \cup {tid + 1}]
  BY <1>t DEF With
<1>o. /\ ses \subseteq ses' /\ DOMAIN txn' \subseteq DOMAIN txn \cup {tid + 1}
      /\ \A t \in DOMAIN txn : t \in DOMAIN txn' /\ txn'[t] = txn[t]
  BY <1>s
<1>g. /\ \A v, b : QueryUuid(v, b, txn, ses) => QueryUuid(v, b, txn', ses')
      /\ \A x : Traceable(x, txn, ses) => Traceable(x, txn, ses)'
  BY <1>m, <1>o, TracesGrow
<1>c. \A x \in chan' : x \in Message /\ Traceable(x, txn, ses)'
  <2> TAKE x \in chan'
  <2>1. CASE x \in chan
    BY <1>g, <2>1 DEF Core, CoreTypes, Traces
  <2>2. ASSUME NEW code \in Status,
               x = [uuid |-> <<"route", k>>, branch |-> m.branch, copy |-> 0, status |-> code]
        PROVE  x \in Message /\ Traceable(x, txn, ses)'
    <3>0. code # None
      BY StatusIsSome
    <3>1. x.uuid = <<"route", k>> /\ x.branch = m.branch /\ x.status = code /\ x.status # None
      BY <2>2, <3>0
    <3>2. <<"route", k>> \in Uuid
      BY <1>r DEF Uuid
    <3>3. x \in Message
      BY <1>m, <2>2, <3>2 DEF Message
    <3>4. k \in 1..Len(requests') /\ requests'[k] = m.uuid
      BY <1>r
    <3>5. QueryUuid(requests'[k], x.branch, txn', ses')
      BY <1>g, <1>q, <3>1, <3>4
    <3> HIDE DEF k
    <3> QED BY <3>1, <3>3, <3>4, <3>5 DEF Traceable, QueryUuid, Client
  <2> QED BY <2>1, <2>2
<1>f. \A r \in ses : r.id # s.id /\ r.uuid # s.uuid
  BY SessionAlwaysFits DEF SessionFits
<1>e. s.id = tid + 1 /\ s.uuid = <<"route", k>> /\ <<"route", k>> \in Uuid
  BY <1>r DEF Uuid
<1> HIDE DEF s
<1>1. CoreTypes'
  <2>1. tid' \in Nat /\ DOMAIN txn' \subseteq 1..tid' /\ timer' \subseteq DOMAIN txn'
    BY <1>t, <1>s
  <2>2. \A t \in DOMAIN txn' : txn'[t] \in Transaction
    BY <1>t, <1>s
  <2>3. entities' \in [Net -> SUBSET (1..tid')]
    <3>1. entities \in [Net -> SUBSET (1..tid')]
      BY <1>t
    <3>2. entities' = entities \/ \E n \in Net :
             entities' = [entities EXCEPT ![n] = @ \cup {tid + 1}] /\ tid' = tid + 1
      BY SMTT(60), <1>t, <1>s
    <3>3. CASE entities' = entities
      BY <3>1, <3>3
    <3>4. ASSUME NEW n \in Net, tid' = tid + 1,
                 entities' = [entities EXCEPT ![n] = @ \cup {tid + 1}]
          PROVE  entities' \in [Net -> SUBSET (1..tid')]
      <4>1. tid + 1 \in 1..tid'
        BY <1>t, <3>4
      <4>2. entities[n] \cup {tid + 1} \in SUBSET (1..tid')
        BY <3>1, <4>1
      <4> QED BY <3>1, <3>4, <4>2
    <3> QED BY <3>2, <3>3, <3>4
  <2>4. ses' \subseteq [id : 1..tid', uuid : Uuid]
    <3>1. ses \subseteq [id : 1..tid', uuid : Uuid]
      BY <1>t, <1>s
    <3>2. tid' = tid + 1 => s \in [id : 1..tid', uuid : Uuid]
      BY <1>t, <1>e DEF s
    <3> QED BY <1>s, <3>1, <3>2
  <2> QED BY <1>r, <1>k, <1>w, <1>c, <2>1, <2>2, <2>3, <2>4 DEF CoreTypes
<1>2. Terminated'
  BY <1>t, <1>s DEF Core, Terminated, Client
<1>3. EntityMapExact'
  <2>1. CASE UNCHANGED <<txn, entities>>
    BY <2>1 DEF Core, EntityMapExact
  <2>2. CASE /\ DOMAIN txn' = DOMAIN txn \cup {tid + 1}
             /\ \A t \in DOMAIN txn : txn'[t] = txn[t]
             /\ txn'[tid + 1].state = "TERMINATED"
             /\ UNCHANGED entities
    BY <2>2, <1>t DEF Core, EntityMapExact
  <2>3. CASE /\ DOMAIN txn' = DOMAIN txn \cup {tid + 1}
             /\ \A t \in DOMAIN txn : txn'[t] = txn[t]
             /\ txn'[tid + 1].state # "TERMINATED"
             /\ entities' = [entities EXCEPT ![txn'[tid + 1].net] = @ \cup {tid + 1}]
    <3> SUFFICES ASSUME NEW n \in Net
                 PROVE  entities'[n] = {t \in DOMAIN txn' : txn'[t].net = n /\ txn'[t].state # "TERMINATED"}
      BY DEF EntityMapExact
    <3>1. entities[n] = {t \in DOMAIN txn : txn[t].net = n /\ txn[t].state # "TERMINATED"}
      BY DEF Core, EntityMapExact
    <3>2. entities'[n] = IF n = txn'[tid + 1].net THEN entities[n] \cup {tid + 1} ELSE entities[n]
      BY <1>t, <2>3
    <3>3. CASE n = txn'[tid + 1].net
      BY <2>3, <3>1, <3>2, <3>3
    <3>4. CASE n # txn'[tid + 1].net
      BY <2>3, <3>1, <3>2, <3>4
    <3> QED BY <3>3, <3>4
  <2> QED BY <1>s, <2>1, <2>2, <2>3
<1>4. SessionUuids'
  <2>1. \A i \in 1..Len(requests) : i \in 1..Len(requests')
    BY <1>r
  <2>2. k \in 1..Len(requests')
    BY <1>r
  <2>3. SessionUuids
    BY DEF Core
  <2>4. CASE UNCHANGED <<txn, ses>>
    BY <2>1, <2>3, <2>4 DEF SessionUuids, Client
  <2>5. CASE /\ ses' = ses \cup {s}
             /\ DOMAIN txn' = DOMAIN txn \cup {tid + 1}
             /\ \A t \in DOMAIN txn : txn'[t] = txn[t]
             /\ Client(txn'[tid + 1])
    <3>1. \A r, q \in ses' : r.id = q.id \/ r.uuid = q.uuid => r = q
      BY <1>f, <2>3, <2>5 DEF SessionUuids
    <3>2. \A q \in ses' : \/ q.uuid = <<"sip", q.id>>
                          \/ \E i \in 1..Len(requests') : q.uuid = <<"route", i>>
      BY <1>e, <2>1, <2>2, <2>3, <2>5 DEF SessionUuids
    <3>3. \A q \in ses' :
             q.id \in DOMAIN txn' /\ ~Client(txn'[q.id]) => q.uuid = <<"sip", q.id>>
      BY <1>e, <1>t, <2>3, <2>5 DEF SessionUuids
    <3> QED BY <3>1, <3>2, <3>3 DEF SessionUuids, Client
  <2> QED BY <1>s, <2>4, <2>5
<1>5. TokenOwned'
  <2>1. ASSUME NEW t \in DOMAIN txn, Client(txn[t])
        PROVE  /\ txn[t].opaque \in 1..Len(requests)
               /\ token'[txn[t].opaque].uses = 0
               /\ \A u \in DOMAIN txn : Client(txn[u]) /\ txn[u].opaque = txn[t].opaque => u = t
               /\ [id |-> t, uuid |-> <<"route", txn[t].opaque>>] \in ses'
    BY <1>k, <1>o, <2>1 DEF Core, TokenOwned
  <2>2. CASE UNCHANGED <<txn, ses>>
    BY <1>k, <1>r, <2>1, <2>2 DEF TokenOwned, Client
  <2>3. CASE /\ e.uses = 0 /\ s \in ses'
             /\ DOMAIN txn' = DOMAIN txn \cup {tid + 1}
             /\ \A t \in DOMAIN txn : txn'[t] = txn[t]
             /\ txn'[tid + 1].opaque = k
    <3> SUFFICES ASSUME NEW t \in DOMAIN txn', Client(txn'[t])
                 PROVE  /\ txn'[t].opaque \in DOMAIN token'
                        /\ token'[txn'[t].opaque].uses = 0
                        /\ \A u \in DOMAIN txn' : Client(txn'[u]) /\ txn'[u].opaque = txn'[t].opaque => u = t
                        /\ [id |-> t, uuid |-> <<"route", txn'[t].opaque>>] \in ses'
      BY DEF TokenOwned, Client
    <3>1. \A u \in DOMAIN txn : Client(txn'[u]) => txn'[u].opaque # k
      <4> TAKE u \in DOMAIN txn
      <4> HAVE Client(txn'[u])
      <4>1. txn'[u] = txn[u] /\ txn[u].opaque \in 1..Len(requests)
        BY <2>1, <2>3
      <4> QED BY <1>r, <4>1
    <3>2. CASE t \in DOMAIN txn
      BY <1>k, <1>r, <2>1, <2>3, <3>1, <3>2
    <3>3. CASE t = tid + 1
      BY <1>k, <1>r, <2>3, <3>1, <3>3 DEF s
    <3> QED BY <2>3, <3>2, <3>3
  <2> QED BY <1>s, <2>2, <2>3
<1>6. TokenFreedOnce'
  BY <1>k, <1>r DEF Core, TokenFreedOnce
<1>7. Traces'
  <2>1. ASSUME NEW t \in DOMAIN txn', Client(txn'[t])
        PROVE  QueryUuid(requests'[txn'[t].opaque], txn'[t].branch, txn', ses')
    <3>1. CASE t \in DOMAIN txn
      <4>1. txn'[t] = txn[t] /\ txn[t].opaque \in 1..Len(requests)
        BY <1>k, <1>o, <2>1, <3>1 DEF Core, TokenOwned
      <4>2. QueryUuid(requests[txn[t].opaque], txn[t].branch, txn, ses)
        BY <2>1, <3>1, <4>1 DEF Core, Traces
      <4> QED BY <1>g, <1>r, <4>1, <4>2
    <3>2. CASE t \notin DOMAIN txn
      BY <1>g, <1>q, <1>r, <1>s, <3>2
    <3> QED BY <3>1, <3>2
  <2> QED BY <1>c, <2>1 DEF Traces, QueryUuid, Client
<1>8. Remembered'
  <2> SUFFICES ASSUME NEW i \in 1..Len(requests'), token'[i].uses = 0, wire'[i].sent > 0
               PROVE  \E t \in DOMAIN txn' :
                         Client(txn'[t]) /\ txn'[t].state # "TERMINATED" /\ txn'[t].opaque = i
    BY DEF Remembered, Alive, Client
  <2>1. CASE i = k
    BY <1>s, <1>w, <2>1 DEF WireEntry
  <2>2. CASE i \in 1..Len(requests)
    <3>1. Alive(i)
      BY <1>k, <1>w, <2>2 DEF Core, Remembered
    <3> QED BY <1>o, <3>1 DEF Alive
  <2> QED BY <1>r, <2>1, <2>2
<1>9. Ordered'
  <2>1. CASE UNCHANGED txn
    BY <2>1 DEF Core, Ordered, Client
  <2>2. ASSUME NEW a, txn' = With(tid + 1, a), a.opaque = Len(requests) + 1,
               a.kind = ClientKind(a.branch)
        PROVE  Ordered'
    <3>1. /\ DOMAIN txn' = DOMAIN txn \cup {tid + 1} /\ txn'[tid + 1] = a
          /\ \A i \in DOMAIN txn : txn'[i] = txn[i] /\ i < tid + 1
      BY <1>t, <2>2 DEF With
    <3>2. \A i \in DOMAIN txn : Client(txn[i]) => txn[i].opaque \in 1..Len(requests)
      BY <1>k DEF Core, TokenOwned
    <3>3. \A i \in DOMAIN txn : Client(txn[i]) => txn[i].opaque < a.opaque
      BY <1>r, <2>2, <3>2
    <3>4. ~ (tid + 1 < tid + 1) /\ \A i \in DOMAIN txn : ~ (tid + 1 < i)
      BY <1>t
    <3> HIDE DEF k, s
    <3>5. ASSUME NEW t \in DOMAIN txn', Client(txn'[t])
          PROVE  txn'[t].kind = ClientKind(txn'[t].branch)
      BY <2>2, <3>1, <3>5 DEF Core, Ordered, Client
    <3>6. ASSUME NEW t \in DOMAIN txn', Client(txn'[t]),
                 NEW u \in DOMAIN txn', Client(txn'[u]), u < t
          PROVE  txn'[u].opaque < txn'[t].opaque
      <4>1. CASE t \in DOMAIN txn /\ u \in DOMAIN txn
        BY <3>1, <3>6, <4>1 DEF Core, Ordered, Client
      <4>2. CASE t = tid + 1 /\ u \in DOMAIN txn
        BY <3>1, <3>3, <3>6, <4>2 DEF Client
      <4> QED BY <3>1, <3>4, <3>6, <4>1, <4>2
    <3> QED BY <3>5, <3>6 DEF Ordered, Client
  <2> QED BY <2>1, <2>2
<1> QED BY <1>1, <1>2, <1>3, <1>4, <1>5, <1>6, <1>7, <1>8, <1>9 DEF Core

(* sip_proxy answering without a transaction. *)
LEMMA RefuseCore ==
    ASSUME Core, NEW m \in chan, m.status = None, requests' = Append(requests, m.uuid),
           Refuse(Len(requests) + 1, m), port \in Nat
    PROVE  Core'
<1> DEFINE e == [port |-> port, uses |-> 1]
           w == [branch |-> m.branch, sent |-> 0, heard |-> FALSE]
<1>0. w \in WireEntry /\ w.sent = 0
  BY DEF WireEntry, Core, CoreTypes, Message
<1>1. e \in [port : Nat, uses : 0..1]
  OBVIOUS
<1>2. /\ token' = Append(token, e) /\ wire' = Append(wire, w)
      /\ UNCHANGED <<tid, txn, timer, entities, ses>>
  BY DEF Refuse, TokenNew
<1>3. {403, 410, 500} \subseteq Status
  BY DEF Status
<1>4. \A x \in chan' : \/ x \in chan
                       \/ \E code \in Status :
                             x = [uuid |-> <<"route", Len(requests) + 1>>,
                                  branch |-> m.branch, copy |-> 0, status |-> code]
  BY <1>3 DEF Refuse
<1> HIDE DEF e, w
<1> QED BY <1>0, <1>1, <1>2, <1>4, ReturnedCore

(* sip_relay. *)
LEMMA RelayCore ==
    ASSUME Core, NEW m \in chan, m.status = None, requests' = Append(requests, m.uuid),
           NEW n \in Net, Relay(Len(requests) + 1, m, n), port \in Nat
    PROVE  Core'
<1> DEFINE k    == Len(requests) + 1
           b    == m.branch
           new  == NewTransaction(ClientKind(b), b, n,
                       IF b \in Invite THEN "CALLING" ELSE "TRYING", k)
           sent == [new EXCEPT !.retry =
                       IF b \in Retransmitted THEN RetryBegun(new) ELSE @]
           dead == [new EXCEPT !.state = "TERMINATED"]
           e    == [port |-> port, uses |-> 0]
           w(x) == [branch |-> b, sent |-> x, heard |-> FALSE]
           s    == [id |-> tid + 1, uuid |-> <<"route", k>>]
<1>1. SessionFits(s)
  BY SessionAlwaysFits
<1>2. b \in Branch /\ k \in Nat
  BY SeqFacts DEF Core, CoreTypes, Message
<1>3. /\ new \in Transaction /\ new.retry = 0 /\ Client(new)
      /\ new.branch = b /\ new.opaque = k /\ new.net = n /\ new.state # "TERMINATED"
      /\ new.kind = ClientKind(b)
  BY <1>2 DEF NewTransaction, Transaction, ClientKind, Client, XIST, XICT, None
<1>4. RetryBegun(new) \in Nat
  BY <1>3, GatewayAssumption DEF RetryBegun
<1>5. /\ tid' = tid + 1
      /\ ses' = ses \cup {s}
      /\ token' = Append(token, e)
      /\ chan' = chan \ {m}
      /\ \/ /\ txn' = With(tid + 1, sent) /\ wire' = Append(wire, w(1))
            /\ timer' \subseteq timer \cup {tid + 1}
            /\ entities' = [entities EXCEPT ![n] = @ \cup {tid + 1}]
         \/ /\ txn' = With(tid + 1, dead) /\ wire' = Append(wire, w(0))
            /\ UNCHANGED <<timer, entities>>
  BY <1>1 DEF Relay, TokenNew
<1>6. /\ sent \in Transaction /\ Client(sent) /\ sent.branch = b /\ sent.opaque = k
      /\ sent.net = n /\ sent.state # "TERMINATED" /\ sent.kind = ClientKind(sent.branch)
  BY <1>3, <1>4 DEF Transaction, Client
<1>7. /\ dead \in Transaction /\ Client(dead) /\ dead.branch = b /\ dead.opaque = k
      /\ dead.state = "TERMINATED" /\ dead.kind = ClientKind(dead.branch)
  BY <1>3 DEF Transaction, Client
<1>8. e \in [port : Nat, uses : 0..1] /\ e.uses = 0
  OBVIOUS
<1>11. w(0) \in WireEntry /\ w(1) \in WireEntry /\ w(0).sent = 0
  BY <1>2 DEF WireEntry
<1> HIDE DEF new, sent, dead, e, w
<1>9. \E x \in WireEntry : \E a \in Transaction :
         /\ wire' = Append(wire, x)
         /\ txn' = With(tid + 1, a)
         /\ Client(a) /\ a.branch = m.branch /\ a.opaque = Len(requests) + 1
         /\ a.kind = ClientKind(a.branch)
         /\ \/ /\ a.state = "TERMINATED" /\ x.sent = 0
               /\ UNCHANGED <<timer, entities>>
            \/ /\ a.state # "TERMINATED"
               /\ timer' \subseteq timer \cup {tid + 1}
               /\ entities' = [entities EXCEPT ![a.net] = @ \cup {tid + 1}]
  <2>1. CASE /\ txn' = With(tid + 1, sent) /\ wire' = Append(wire, w(1))
             /\ timer' \subseteq timer \cup {tid + 1}
             /\ entities' = [entities EXCEPT ![n] = @ \cup {tid + 1}]
    BY <1>6, <1>11, <2>1
  <2>2. CASE /\ txn' = With(tid + 1, dead) /\ wire' = Append(wire, w(0))
             /\ UNCHANGED <<timer, entities>>
    BY <1>7, <1>11, <2>2
  <2> QED BY <1>5, <2>1, <2>2
<1>10. \A x \in chan' : x \in chan
  BY <1>5
<1> QED BY SMTT(60), <1>5, <1>8, <1>9, <1>10, ReturnedCore

(* cmd_maintain_request on a request. *)
LEMMA ReturnRequestCore ==
    ASSUME Core, NEW m \in chan, ReturnRequest(m), port \in Nat
    PROVE  Core'
<1>1. m.status = None /\ requests' = Append(requests, m.uuid)
  BY DEF ReturnRequest
<1>2. CASE Refuse(Len(requests) + 1, m)
  BY <1>1, <1>2, RefuseCore
<1>3. ASSUME NEW n \in Net, Relay(Len(requests) + 1, m, n)
      PROVE  Core'
  BY <1>1, <1>3, RelayCore
<1> QED BY <1>2, <1>3 DEF ReturnRequest

(* Timers and connections. *)
LEMMA RedoCore ==
    ASSUME Core, NEW t \in timer, sip_redo(t)
    PROVE  Core'
<1>1. UNCHANGED <<tid, requests>>
  BY DEF sip_redo
<1>2. /\ t \in DOMAIN txn /\ {t} \subseteq DOMAIN txn /\ txn[t].state # "TERMINATED"
      /\ \A i \in DOMAIN txn : txn[i] \in Transaction
  BY DEF Core, CoreTypes, Terminated
<1>3. Legal(txn, ses, chan)
  BY <1>1, LegalNow
<1>4. CASE Delete({t}, txn, ses, chan) /\ UNCHANGED wire
  <2>1. LegalWire
    BY <1>4, LegalWireNow
  <2> QED BY <1>1, <1>2, <1>3, <1>4, <2>1, DeleteCore
<1>5. CASE /\ Keep([txn EXCEPT ![t].retry = @ + 1], timer, ses, chan)
           /\ IF Client(txn[t])
              THEN wire' = [wire EXCEPT ![txn[t].opaque].sent = @ + 1]
              ELSE UNCHANGED wire
  <2> DEFINE tx == [txn EXCEPT ![t].retry = @ + 1]
  <2>1. tx[t] = [txn[t] EXCEPT !.retry = @ + 1]
    BY <1>2
  <2>2. DOMAIN tx = DOMAIN txn /\ \A i \in DOMAIN txn : i # t => tx[i] = txn[i]
    OBVIOUS
  <2>3. /\ tx[t] \in Transaction
        /\ tx[t].kind = txn[t].kind /\ tx[t].branch = txn[t].branch
        /\ tx[t].net = txn[t].net /\ tx[t].opaque = txn[t].opaque
        /\ tx[t].state = txn[t].state
    BY <1>2, <2>1 DEF Transaction
  <2>4. Keep(tx, timer, ses, chan)
    BY <1>5
  <2> HIDE DEF tx
  <2>7. LegalWire
    <3>1. CASE Client(txn[t])
      <4>1. Alive(txn[t].opaque)
        BY <1>2, <3>1 DEF Alive
      <4> QED BY <1>5, <3>1, <4>1, SentLegal
    <3>2. CASE ~Client(txn[t])
      BY <1>5, <3>2, LegalWireNow
    <3> QED BY <3>1, <3>2
  <2>5. Legal(tx, ses, chan)
    BY <1>2, <1>3, <2>2, <2>3, LegalProgress
  <2>6. timer \subseteq {i \in DOMAIN tx : tx[i].state # "TERMINATED"}
    BY <2>5, ArmedLegal DEF Legal
  <2> QED BY <1>1, <2>4, <2>5, <2>6, <2>7, KeepCore
<1> QED BY <1>4, <1>5 DEF sip_redo, Retransmit, GiveUp

(* sip_timeout and net_event_free: any of an event's transactions go. *)
LEMMA SweepCore ==
    ASSUME Core, NEW n \in Net, NEW T \in SUBSET entities[n],
           Delete(T, txn, ses, chan), UNCHANGED <<tid, requests>>, LegalWire
    PROVE  Core'
<1>1. T \subseteq DOMAIN txn
  BY DEF Core, EntityMapExact
<1>2. Legal(txn, ses, chan)
  BY LegalNow
<1> QED BY <1>1, <1>2, DeleteCore

(* What was on its way to Route is gone; all else stays. *)
LEMMA LinkLostCore ==
    ASSUME Core, chan' = {}, UNCHANGED <<tid, txn, timer, entities, ses, token, requests, wire>>
    PROVE  Core'
BY DEF Core, CoreTypes, Terminated, EntityMapExact, SessionUuids, TokenOwned,
       TokenFreedOnce, Traces, QueryUuid, Remembered, Alive, Ordered, Client

(* Steps of the clock and the link change nothing the invariant is about. *)
LEMMA IdleCore ==
    ASSUME Core, UNCHANGED <<tid, txn, timer, entities, ses, token, requests, wire, chan>>
    PROVE  Core'
<1>1. CoreTypes' /\ Terminated' /\ EntityMapExact'
  BY DEF Core, CoreTypes, Terminated, EntityMapExact, Client
<1>2. SessionUuids' /\ TokenOwned' /\ TokenFreedOnce'
  BY DEF Core, SessionUuids, TokenOwned, TokenFreedOnce, Client
<1>3. Traces'
  <2>1. ASSUME NEW m \in chan
        PROVE  Traceable(m, txn, ses)'
    <3>1. Traceable(m, txn, ses)
      BY DEF Core, Traces
    <3> QED BY <3>1 DEF Traceable, QueryUuid, Client
  <2>2. ASSUME NEW t \in DOMAIN txn, Client(txn[t])
        PROVE  QueryUuid(requests[txn[t].opaque], txn[t].branch, txn, ses)'
    <3>1. QueryUuid(requests[txn[t].opaque], txn[t].branch, txn, ses)
      BY <2>2 DEF Core, Traces
    <3> QED BY <3>1 DEF QueryUuid, Client
  <2> QED BY <2>1, <2>2 DEF Traces, Client
<1>4. Remembered' /\ Ordered'
  BY DEF Core, Remembered, Alive, Ordered, Client
<1> QED BY <1>1, <1>2, <1>3, <1>4 DEF Core

(* Every step preserves the core of the invariant. *)
LEMMA NextCore ==
    ASSUME Core, port \in Nat, sends \in [Branch -> Nat], [Next]_vars
    PROVE  Core'
<1>1. ASSUME NEW b \in Branch, NEW n \in Net, ReceiveRequest(b, n) PROVE Core'
  BY <1>1, ReceiveRequestCore
<1>2. ASSUME NEW b \in Branch, ReceiveAck(b) PROVE Core'
  BY <1>2, ReceiveAckCore
<1>3. ASSUME NEW m \in chan, RouteReturns(m) PROVE Core'
  BY <1>3, ReturnReplyCore, ReturnRequestCore DEF RouteReturns
<1>4. ASSUME NEW b \in Branch \ Register, NEW status \in Said, ReceiveResponse(b, status)
      PROVE  Core'
  BY <1>4, ReceiveResponseCore
<1>5. ASSUME NEW t \in timer, sip_redo(t) PROVE Core'
  BY <1>5, RedoCore
<1>6. CASE Age
  BY <1>6, IdleCore DEF Age
<1>7. ASSUME NEW n \in Net, sip_timeout(n) PROVE Core'
  BY <1>7, SweepCore, LegalWireNow DEF sip_timeout
<1>8. ASSUME NEW n \in Net, HangUp(n) PROVE Core'
  BY <1>8, SweepCore, LegalWireNow DEF HangUp
<1>9. CASE LinkReady
  BY <1>9, IdleCore DEF LinkReady
<1>10. CASE LinkLost
  BY <1>10, LinkLostCore DEF LinkLost
<1>11. CASE UNCHANGED vars
  BY <1>11, IdleCore DEF vars, link
<1> QED BY <1>1, <1>2, <1>3, <1>4, <1>5, <1>6, <1>7, <1>8, <1>9, <1>10, <1>11 DEF Next

-----------------------------------------------------------------------------
(* The rest of the state: the link and what the callbacks leave alone *)

Rest ==
    /\ aged \in 0..tid
    /\ port \in Nat /\ ready \in BOOLEAN
    /\ sends \in [Branch -> Nat]
    /\ said \in [Branch -> SUBSET Said]
    /\ final \in [Branch -> SUBSET Status]

IInv == Core /\ Rest

(* The history of final codes keeps its type: sip_call. *)
LEMMA SendStatusFinal ==
    ASSUME NEW tx, NEW t, NEW ss, NEW ch, NEW status \in Status,
           SendStatus(t, status, tx, ss, ch), final \in [Branch -> SUBSET Status]
    PROVE  final' \in [Branch -> SUBSET Status]
<1>1. CASE UNCHANGED final
  BY <1>1
<1>2. CASE final' = [final EXCEPT ![tx[t].branch] = @ \cup {status}]
  BY <1>2
<1> QED BY <1>1, <1>2 DEF SendStatus

(* The history of final codes keeps its type: the request callbacks. *)
LEMMA InitiateFinal ==
    ASSUME NEW tx, NEW t, Initiate(t, tx), final \in [Branch -> SUBSET Status]
    PROVE  final' \in [Branch -> SUBSET Status]
<1>1. 180 \in Status /\ 500 \in Status /\ 503 \in Status
  BY DEF Status
<1>2. ASSUME NEW status \in Status, NEW ss, NEW ch, SendStatus(t, status, tx, ss, ch)
      PROVE  final' \in [Branch -> SUBSET Status]
  BY <1>2, SendStatusFinal
<1>3. CASE UNCHANGED final
  BY <1>3
<1> QED BY <1>1, <1>2, <1>3 DEF Initiate

(* The history of final codes keeps its type: sip_finalize. *)
LEMMA FinalizeFinal ==
    ASSUME NEW u, NEW status \in Status, NEW ch, Finalize(u, status, ch),
           final \in [Branch -> SUBSET Status]
    PROVE  final' \in [Branch -> SUBSET Status]
<1>1. 500 \in Status
  BY DEF Status
<1>2. ASSUME NEW code \in Status, SendStatus(SessionFind(u), code, txn, ses, ch)
      PROVE  final' \in [Branch -> SUBSET Status]
  BY <1>2, SendStatusFinal
<1>3. CASE UNCHANGED final
  BY <1>3
<1> QED BY <1>1, <1>2, <1>3 DEF Finalize

(* Every step keeps the types of the link and of the histories. *)
LEMMA NextRest ==
    ASSUME IInv, [Next]_vars
    PROVE  Rest'
<1> USE DEF IInv, Rest
<1>0. tid \in Nat /\ \A m \in chan : m \in Message
  BY DEF Core, CoreTypes
<1>1. ASSUME NEW b \in Branch, NEW n \in Net, ReceiveRequest(b, n) PROVE Rest'
  <2>1. UNCHANGED <<aged, link, said>> /\ tid' \in {tid, tid + 1}
    BY <1>1 DEF ReceiveRequest, ReceiveNew
  <2>2. sends' \in [Branch -> Nat]
    BY <1>1 DEF ReceiveRequest
  <2>3. \A t, tx : Initiate(t, tx) => final' \in [Branch -> SUBSET Status]
    BY InitiateFinal
  <2>4. \A t : SendStatus(t, 501, txn, ses, chan) => final' \in [Branch -> SUBSET Status]
    <3>1. 501 \in Status
      BY DEF Status
    <3> QED BY <3>1, SendStatusFinal
  <2>5. final' \in [Branch -> SUBSET Status]
    BY <1>1, <2>3, <2>4
       DEF ReceiveRequest, ReceiveNew, ReceiveInviteAgain, ReceiveRequestAgain
  <2> QED BY <1>0, <2>1, <2>2, <2>5 DEF link
<1>2. ASSUME NEW b \in Branch, ReceiveAck(b) PROVE Rest'
  BY <1>2 DEF ReceiveAck, link
<1>3. ASSUME NEW m \in chan, ReturnReply(m) PROVE Rest'
  <2>0. {200, 403} \subseteq Status
    BY DEF Status
  <2>1. {200, 403} \subseteq Status /\ (m.status # None => m.status \in Status)
    BY <1>0, <2>0 DEF Message
  <2>2. final' \in [Branch -> SUBSET Status]
    <3>1. ASSUME NEW u, NEW code \in Status, Finalize(u, code, chan \ {m})
          PROVE  final' \in [Branch -> SUBSET Status]
      BY <3>1, FinalizeFinal
    <3>2. CASE \E code \in {200, 403} : Finalize(m.uuid, code, chan \ {m})
      BY <2>1, <3>1, <3>2
    <3>3. CASE m.status # None /\ Finalize(requests[m.uuid[2]], m.status, chan \ {m})
      BY <2>1, <3>1, <3>3
    <3> QED BY <1>3, <3>2, <3>3 DEF ReturnReply
  <2> QED BY <1>3, <2>2 DEF ReturnReply, link
<1>4. ASSUME NEW m \in chan, ReturnRequest(m) PROVE Rest'
  <2>1. UNCHANGED <<aged, link, sends, said, final>> /\ tid' \in {tid, tid + 1}
    BY <1>4 DEF ReturnRequest, Refuse, Relay
  <2> QED BY <1>0, <2>1 DEF link
<1>5. ASSUME NEW b \in Branch \ Register, NEW status \in Said, ReceiveResponse(b, status)
      PROVE  Rest'
  <2>1. UNCHANGED <<tid, aged, link, sends, final>> /\ said' \in [Branch -> SUBSET Said]
    BY <1>5 DEF ReceiveResponse
  <2> QED BY <2>1 DEF link
<1>6. ASSUME NEW t \in timer, sip_redo(t) PROVE Rest'
  BY <1>6 DEF sip_redo, link
<1>7. CASE Age
  BY <1>0, <1>7 DEF Age, link
<1>8. ASSUME NEW n \in Net, sip_timeout(n) PROVE Rest'
  BY <1>8 DEF sip_timeout, link
<1>9. ASSUME NEW n \in Net, HangUp(n) PROVE Rest'
  BY <1>9 DEF HangUp, link
<1>10. CASE LinkReady
  BY <1>10 DEF LinkReady
<1>11. CASE LinkLost
  <2>1. port' = 0 \/ port' = port + 1
    BY <1>11 DEF LinkLost
  <2>2. port' \in Nat
    BY <2>1
  <2>3. ready' \in BOOLEAN
    BY <1>11 DEF LinkLost
  <2> QED BY <1>11, <2>2, <2>3 DEF LinkLost
<1>12. CASE UNCHANGED vars
  BY <1>12 DEF vars, link
<1> QED BY <1>1, <1>2, <1>3, <1>4, <1>5, <1>6, <1>7, <1>8, <1>9, <1>10, <1>11, <1>12
        DEF Next, RouteReturns

(* The daemon starts in the invariant: no transaction, session or token. *)
LEMMA InitIInv == Init => IInv
<1> SUFFICES ASSUME Init PROVE IInv
  OBVIOUS
<1> USE DEF Init
<1>1. txn = [t \in {} |-> None] /\ DOMAIN txn = {}
  OBVIOUS
<1>2. CoreTypes
  BY <1>1 DEF CoreTypes
<1>3. /\ Terminated /\ EntityMapExact /\ SessionUuids /\ TokenOwned /\ TokenFreedOnce /\ Traces
      /\ Remembered /\ Ordered
  <2>1. Terminated /\ EntityMapExact
    BY <1>1 DEF Terminated, EntityMapExact
  <2>2. SessionUuids
    BY DEF SessionUuids
  <2>3. TokenOwned
    BY <1>1 DEF TokenOwned
  <2>4. TokenFreedOnce
    BY DEF TokenFreedOnce
  <2>5. Traces
    BY <1>1 DEF Traces
  <2>6. Remembered /\ Ordered
    BY <1>1 DEF Remembered, Ordered
  <2> QED BY <2>1, <2>2, <2>3, <2>4, <2>5, <2>6
<1>4. Rest
  <2>1. aged \in 0..tid /\ port \in Nat
    OBVIOUS
  <2>2. ready \in BOOLEAN
    OBVIOUS
  <2>3. /\ sends \in [Branch -> Nat]
        /\ said \in [Branch -> SUBSET Said]
        /\ final \in [Branch -> SUBSET Status]
    OBVIOUS
  <2> QED BY <2>1, <2>2, <2>3 DEF Rest
<1> QED BY <1>2, <1>3, <1>4 DEF IInv, Core

-----------------------------------------------------------------------------
(* Theorems *)

(* The inductive invariant holds throughout: what every callback of the    *)
(* loop relies on when it looks up a session, a token or an entity map.    *)
THEOREM Invariance == Spec => []IInv
<1>1. IInv /\ [Next]_vars => IInv'
  BY NextCore, NextRest DEF IInv, Rest
<1> QED BY InitIInv, <1>1, PTL DEF Spec

(* Every variable keeps its type, whatever the constants. *)
THEOREM TypeCorrect == Spec => []TypeOK
<1>1. IInv => TypeOK
  BY DEF IInv, Core, CoreTypes, Rest, TypeOK, WireEntry
<1> QED BY Invariance, <1>1, PTL

(* sip_redo is never called with a transaction that was freed. *)
THEOREM TimersSafe == Spec => []NoDanglingTimer
<1>1. IInv => NoDanglingTimer
  BY DEF IInv, Core, CoreTypes, NoDanglingTimer
<1> QED BY Invariance, <1>1, PTL

(* The entity maps hold exactly the transactions the sweep has to find. *)
THEOREM EntitiesExact == Spec => []EntityMapExact
<1>1. IInv => EntityMapExact
  BY DEF IInv, Core
<1> QED BY Invariance, <1>1, PTL

(* cmd_session_add of a relayed request never fails. *)
THEOREM SessionsSound == Spec => []SessionsOneToOne
<1>1. IInv => SessionsOneToOne
  BY SessionAlwaysFits DEF IInv, Core, SessionUuids, SessionsOneToOne
<1> QED BY Invariance, <1>1, PTL

(* transport.c never frees a token twice: the token of a client transaction *)
(* is not spent, and no other transaction holds it.                         *)
THEOREM TokensSound == Spec => []TokensSafe
<1>1. IInv => TokensSafe
  BY DEF IInv, Core, TokensSafe
<1> QED BY Invariance, <1>1, PTL

(* Every request that was sent and not answered will be found by the sweep.*)
THEOREM SentRequestsRemembered == Spec => []NoSentRequestForgotten
<1>1. ASSUME IInv, NEW k \in DOMAIN token, token[k].uses = 0, wire[k].sent > 0
      PROVE  \E n \in Net : \E t \in entities[n] :
                t \in DOMAIN txn /\ Client(txn[t]) /\ txn[t].opaque = k
  <2>1. k \in 1..Len(requests)
    BY <1>1, SeqFacts DEF IInv, Core, CoreTypes
  <2>2. PICK t \in DOMAIN txn :
           Client(txn[t]) /\ txn[t].state # "TERMINATED" /\ txn[t].opaque = k
    BY <1>1, <2>1 DEF IInv, Core, Remembered, Alive
  <2>3. txn[t].net \in Net
    BY <1>1 DEF IInv, Core, CoreTypes, Transaction
  <2>4. t \in entities[txn[t].net]
    BY <1>1, <2>2, <2>3 DEF IInv, Core, EntityMapExact
  <2> QED BY <2>2, <2>3, <2>4
<1>2. IInv => NoSentRequestForgotten
  BY <1>1 DEF NoSentRequestForgotten
<1> QED BY Invariance, <1>2, PTL

(* A reply of Route reaches no server transaction but the one that asked.  *)
THEOREM RepliesNotCrossed == Spec => []NoCrossedReply
<1>1. ASSUME IInv, NEW m \in chan, m.status # None
      PROVE  LET t == SessionFind(requests[m.uuid[2]])
             IN  /\ t # -1
                 /\ t \in DOMAIN txn => ~Client(txn[t]) /\ txn[t].branch = m.branch
  <2>1. Traceable(m, txn, ses)
    BY <1>1 DEF IInv, Core, Traces
  <2>2. PICK k \in 1..Len(requests) :
           m.uuid = <<"route", k>> /\ QueryUuid(requests[k], m.branch, txn, ses)
    BY <1>1, <2>1 DEF Traceable
  <2>3. requests[m.uuid[2]] = requests[k]
    BY <2>2
  <2>4. Core
    BY <1>1 DEF IInv
  <2> QED BY <2>2, <2>3, <2>4, QueryFound
<1>2. IInv => NoCrossedReply
  BY <1>1 DEF NoCrossedReply
<1> QED BY Invariance, <1>2, PTL

(* The requests never depend on more of the broker connection than Link    *)
(* grants: only LinkReady and LinkLost touch it, and as Link says.         *)
THEOREM LinkAssumed == Spec => ImplementsLink
<1>1. Init => L!Init
  BY DEF Init, L!Init
<1>2. [Next]_vars => [L!Next]_L!vars
  <2> SUFFICES ASSUME [Next]_vars PROVE [L!Next]_L!vars
    OBVIOUS
  <2>1. CASE LinkReady
    BY <2>1 DEF LinkReady, L!Next, L!Subscribed
  <2>2. CASE LinkLost
    BY <2>2 DEF LinkLost, L!Next, L!Dropped
  <2>3. CASE UNCHANGED link
    BY <2>3 DEF link, L!vars
  <2>4. LinkReady \/ LinkLost \/ UNCHANGED link
    <3>1. ASSUME NEW b \in Branch, NEW n \in Net, ReceiveRequest(b, n)
          PROVE UNCHANGED link
      BY <3>1 DEF ReceiveRequest
    <3>2. ASSUME NEW b \in Branch, ReceiveAck(b) PROVE UNCHANGED link
      BY <3>2 DEF ReceiveAck
    <3>3. ASSUME NEW m \in chan, RouteReturns(m) PROVE UNCHANGED link
      BY <3>3 DEF RouteReturns, ReturnReply, ReturnRequest
    <3>4. ASSUME NEW b \in Branch \ Register, NEW status \in Said,
                 ReceiveResponse(b, status)
          PROVE UNCHANGED link
      BY <3>4 DEF ReceiveResponse
    <3>5. ASSUME NEW t \in timer, sip_redo(t) PROVE UNCHANGED link
      BY <3>5 DEF sip_redo
    <3>6. ASSUME NEW n \in Net, sip_timeout(n) PROVE UNCHANGED link
      BY <3>6 DEF sip_timeout
    <3>7. ASSUME NEW n \in Net, HangUp(n) PROVE UNCHANGED link
      BY <3>7 DEF HangUp
    <3>8. CASE Age
      BY <3>8 DEF Age
    <3>9. CASE UNCHANGED vars
      BY <3>9 DEF vars
    <3> QED
      BY <3>1, <3>2, <3>3, <3>4, <3>5, <3>6, <3>7, <3>8, <3>9 DEF Next
  <2> QED
    BY <2>1, <2>2, <2>3, <2>4
<1> QED
  BY <1>1, <1>2, PTL DEF Spec, ImplementsLink, L!Spec

-----------------------------------------------------------------------------
(***************************************************************************)
(* What Gateway tells its callers and Route is true.                       *)
(*                                                                         *)
(* A reply is computed from the last response and the retransmission       *)
(* counter of a client transaction, long after the messages these stand    *)
(* for.  The invariant Honest ties the two to what happened on the wire    *)
(* for as long as the transaction lives, and its reply for as long as it   *)
(* is on the broker; lemmas KeepHonest and DeleteHonest show once that the *)
(* two ways a callback ends preserve it.                                   *)
(***************************************************************************)

(* Nothing was said of the branch of the client transaction a, unless an   *)
(* earlier request of the branch was relayed.                              *)
Silent(a, w, sd) ==
    sd[a.branch] # {} => \E j \in 1..(a.opaque - 1) : w[j].branch = a.branch

(* What a client transaction a remembers of its callee, given the timers   *)
(* armed, the wire w and the codes sd of callees: its last response came,  *)
(* if there is none the callee was silent, only a silent callee is sent    *)
(* the request again, and the counter counts the transmissions, unless it  *)
(* was exhausted at once or never started.                                 *)
HonestClient(t, a, armed, w, sd) ==
    /\ w[a.opaque].branch = a.branch
    /\ a.last # None => a.last \in sd[a.branch]
    /\ a.last = None => ~w[a.opaque].heard
    /\ a.last = None /\ a.state # "TERMINATED" => Silent(a, w, sd)
    /\ a.state = "TERMINATED" => a.retry = 0
    /\ a.state = "TERMINATED" \/ t \in armed => a.last = None
    /\ \/ a.retry = SIP_RETRY + 1 /\ w[a.opaque].sent = 1
       \/ a.retry = 0 /\ t \notin armed /\ w[a.opaque].sent \in {0, 1}
       \/ w[a.opaque].sent = a.retry + 1

HonestClients(tx, armed, w, sd) ==
    \A t \in DOMAIN tx : Client(tx[t]) => HonestClient(t, tx[t], armed, w, sd)

(* A reply m stands for what happened on the line of the wire it closes.   *)
HonestStatus(c, b, line, sd) ==
    /\ line.branch = b
    /\ \/ c \in sd[b]
       \/ c = 408 /\ ~line.heard /\ line.sent = SIP_RETRY + 1
       \/ c = 502 /\ ~line.heard /\ line.sent # SIP_RETRY + 1
       \/ c \in {403, 410, 500} /\ "refuse" \in Adverse /\ ~line.heard /\ line.sent = 0

(* The token of a reply is spent, so that its line of the wire is closed;  *)
(* the callee said what it says, or sipecho did.                           *)
HonestReply(m, tok, w, sd) ==
    /\ tok[m.uuid[2]].uses # 0
    /\ HonestStatus(m.status, m.branch, w[m.uuid[2]], sd)

HonestReplies(ch, tok, w, sd) ==
    \A m \in ch : m.status # None => HonestReply(m, tok, w, sd)

Honest ==
    /\ HonestClients(txn, timer, wire, said)
    /\ HonestReplies(chan, token, wire, said)

(* Callees speak of what was relayed to them. *)
Spoken ==
    \A b \in Branch : said[b] # {} =>
        \E j \in 1..Len(requests) : wire[j].branch = b

(* A callback forgets nothing callees said. *)
SaidGrows == \A b \in Branch : said[b] \subseteq said'[b]

-----------------------------------------------------------------------------
(* How callbacks end *)

(* The token of a client transaction, and what its callee can tell apart.  *)
LEMMA ClientFacts ==
    ASSUME Core, NEW t \in DOMAIN txn, Client(txn[t])
    PROVE  /\ txn[t].opaque \in 1..Len(requests)
           /\ token[txn[t].opaque].uses = 0
           /\ \A u \in DOMAIN txn :
                 Client(txn[u]) /\ txn[u].opaque = txn[t].opaque => u = t
           /\ txn[t] \in Transaction
<1>1. token \in Seq([port : Nat, uses : Nat]) /\ Len(token) = Len(requests)
  BY DEF Core, CoreTypes
<1>2. DOMAIN token = 1..Len(requests)
  BY <1>1, SeqFacts
<1> QED BY <1>2 DEF Core, CoreTypes, TokenOwned

(* A reply on the broker answers one of Route's requests. *)
LEMMA ReplyFacts ==
    ASSUME Core, NEW m \in chan, m.status # None
    PROVE  /\ m.uuid[2] \in 1..Len(requests)
           /\ m.branch \in Branch /\ m.status \in Status
           /\ QueryUuid(requests[m.uuid[2]], m.branch, txn, ses)
<1>1. Traceable(m, txn, ses) /\ m \in Message
  BY DEF Core, CoreTypes, Traces
<1>2. PICK k \in 1..Len(requests) :
         m.uuid = <<"route", k>> /\ QueryUuid(requests[k], m.branch, txn, ses)
  BY <1>1 DEF Traceable
<1>3. m.uuid[2] = k
  BY <1>2
<1> QED BY <1>1, <1>2, <1>3 DEF Message

(* What changes on the wire of request k alone concerns no other client    *)
(* transaction and no reply under another uuid.                            *)
LEMMA WireElsewhere ==
    ASSUME Core, Honest, SaidGrows, NEW k,
           \A i \in 1..Len(requests) :
              wire'[i].branch = wire[i].branch /\ (i # k => wire'[i] = wire[i]),
           \A t \in DOMAIN txn :
              Client(txn[t]) /\ txn[t].state # "TERMINATED" /\ txn[t].opaque # k =>
                 said'[txn[t].branch] = said[txn[t].branch] \/ Silent(txn[t], wire, said')
    PROVE  /\ \A t \in DOMAIN txn : Client(txn[t]) /\ txn[t].opaque # k =>
                 HonestClient(t, txn[t], timer, wire', said')
           /\ \A m \in chan : m.status # None /\ m.uuid[2] # k =>
                 HonestReply(m, token, wire', said')
<1>1. ASSUME NEW t \in DOMAIN txn, Client(txn[t]), txn[t].opaque # k
      PROVE  HonestClient(t, txn[t], timer, wire', said')
  <2>1. txn[t].opaque \in 1..Len(requests) /\ txn[t].branch \in Branch
    BY <1>1, ClientFacts DEF Transaction
  <2>2. wire'[txn[t].opaque] = wire[txn[t].opaque]
    BY <1>1, <2>1
  <2>3. said[txn[t].branch] \subseteq said'[txn[t].branch]
    BY <2>1 DEF SaidGrows
  <2>4. HonestClient(t, txn[t], timer, wire, said)
    BY <1>1 DEF Honest, HonestClients
  <2>5. ASSUME txn[t].last = None, txn[t].state # "TERMINATED"
        PROVE  Silent(txn[t], wire', said')
    <3>1. Silent(txn[t], wire, said')
      BY <1>1, <2>4, <2>5 DEF HonestClient, Silent
    <3>2. Len(requests) \in Nat
      BY SeqFacts DEF Core, CoreTypes
    <3>3. 1..(txn[t].opaque - 1) \subseteq 1..Len(requests)
      BY <2>1, <3>2
    <3> QED BY <3>1, <3>3 DEF Silent
  <2> QED BY <2>2, <2>3, <2>4, <2>5 DEF HonestClient
<1>2. ASSUME NEW m \in chan, m.status # None, m.uuid[2] # k
      PROVE  HonestReply(m, token, wire', said')
  <2>1. m.uuid[2] \in 1..Len(requests) /\ m.branch \in Branch
    BY <1>2, ReplyFacts
  <2>2. wire'[m.uuid[2]] = wire[m.uuid[2]]
    BY <1>2, <2>1
  <2>3. said[m.branch] \subseteq said'[m.branch]
    BY <2>1 DEF SaidGrows
  <2>4. HonestReply(m, token, wire, said)
    BY <1>2 DEF Honest, HonestReplies
  <2> QED BY <2>2, <2>3, <2>4 DEF HonestReply, HonestStatus
<1> QED BY <1>1, <1>2

(* A callback that ends in Keep leaves what it was given. *)
LEMMA KeepHonest ==
    ASSUME NEW tx, NEW armed, NEW ss, NEW ch, Keep(tx, armed, ss, ch),
           HonestClients(tx, armed, wire', said'), HonestReplies(ch, token, wire', said')
    PROVE  /\ HonestClients(txn', timer', wire', said')
           /\ HonestReplies(chan', token', wire', said')
BY DEF Keep

(* What sip_destroy answers: the last response, or silence for a timeout.  *)
LEMMA ReplyStatusHonest ==
    ASSUME NEW t, NEW a \in Transaction, NEW armed, NEW w, NEW sd, HonestClient(t, a, armed, w, sd)
    PROVE  HonestStatus(ReplyStatus(a), a.branch, w[a.opaque], sd)
<1>0. SIP_RETRY \in Nat /\ SIP_RETRY # 0 /\ a.retry \in Nat
  BY GatewayAssumption DEF Transaction
<1>1. CASE a.last # None
  BY <1>1 DEF ReplyStatus, HonestClient, HonestStatus
<1>2. CASE a.last = None /\ a.retry = SIP_RETRY
  <2>1. a.retry # SIP_RETRY + 1 /\ a.retry # 0
    BY <1>0, <1>2
  <2> QED BY <1>2, <2>1 DEF ReplyStatus, HonestClient, HonestStatus
<1>3. CASE a.last = None /\ a.retry # SIP_RETRY
  <2>1. ReplyStatus(a) = 502
    BY <1>3 DEF ReplyStatus
  <2>2. w[a.opaque].sent # SIP_RETRY + 1
    BY <1>0, <1>3 DEF HonestClient
  <2> QED BY <1>3, <2>1, <2>2 DEF HonestClient, HonestStatus
<1> QED BY <1>1, <1>2, <1>3

(* A callback that ends in Delete answers honestly for what it deletes.    *)
LEMMA DeleteHonest ==
    ASSUME Core, NEW T, NEW tx, NEW ss, NEW ch, Legal(tx, ss, ch), T \subseteq DOMAIN tx,
           Delete(T, tx, ss, ch), NEW armed, timer \ T \subseteq armed,
           HonestClients(tx, armed, wire', said'), HonestReplies(ch, token, wire', said')
    PROVE  /\ HonestClients(txn', timer', wire', said')
           /\ HonestReplies(chan', token', wire', said')
<1>d. Deleted(T, tx, ss, ch)
  BY DeleteEffect
<1>1. HonestClients(txn', timer', wire', said')
  <2> SUFFICES ASSUME NEW t \in DOMAIN tx \ T, Client(tx[t])
               PROVE  HonestClient(t, tx[t], timer \ T, wire', said')
    BY <1>d DEF Deleted, HonestClients
  <2>1. HonestClient(t, tx[t], armed, wire', said')
    BY DEF HonestClients
  <2> QED BY <2>1 DEF HonestClient
<1>k. /\ token \in Seq([port : Nat, uses : Nat]) /\ DOMAIN token = 1..Len(requests)
      /\ \A k \in DOMAIN token : token[k] \in [port : Nat, uses : Nat]
  <2>1. token \in Seq([port : Nat, uses : Nat]) /\ Len(token) = Len(requests)
    BY DEF Core, CoreTypes
  <2> QED BY <2>1, SeqFacts
<1>2. ASSUME NEW m \in ch, m.status # None, m.uuid[2] \in DOMAIN token
      PROVE  HonestReply(m, token', wire', said')
  <2>1. HonestReply(m, token, wire', said')
    BY <1>2 DEF HonestReplies
  <2>2. token[m.uuid[2]].uses # 0 /\ token[m.uuid[2]].uses \in Nat
    BY <1>2, <1>k, <2>1 DEF HonestReply
  <2>3. token'[m.uuid[2]].uses # 0
    BY <1>d, <1>2, <2>2 DEF Deleted
  <2> QED BY <2>1, <2>3 DEF HonestReply
<1>3. ASSUME NEW m \in ch, m.status # None
      PROVE  m.uuid[2] \in DOMAIN token
  <2>1. Traceable(m, tx, ss)
    BY TracesKept
  <2>2. PICK k \in 1..Len(requests) : m.uuid = <<"route", k>>
    BY <1>3, <2>1 DEF Traceable
  <2> QED BY <1>k, <2>2
<1>4. ASSUME NEW t \in T, Client(tx[t]),
             NEW m, m = [uuid |-> <<"route", tx[t].opaque>>, branch |-> tx[t].branch,
                         copy |-> 0, status |-> ReplyStatus(tx[t])]
      PROVE  HonestReply(m, token', wire', said')
  <2>1. tx[t] \in Transaction /\ t \in DOMAIN txn /\ Client(txn[t])
        /\ tx[t].opaque = txn[t].opaque
    BY <1>4 DEF Legal, LegalTxn, Client
  <2>2. tx[t].opaque \in DOMAIN token /\ token[tx[t].opaque].uses = 0
    BY <2>1, <1>k, ClientFacts
  <2>3. token'[tx[t].opaque].uses = 1
    BY <1>d, <1>4, <2>2 DEF Deleted
  <2>4. HonestClient(t, tx[t], armed, wire', said')
    BY <1>4 DEF HonestClients
  <2>5. HonestStatus(ReplyStatus(tx[t]), tx[t].branch, wire'[tx[t].opaque], said')
    BY <2>1, <2>4, ReplyStatusHonest
  <2>6. m.uuid[2] = tx[t].opaque /\ m.branch = tx[t].branch /\ m.status = ReplyStatus(tx[t])
    BY <1>4
  <2> QED BY <2>3, <2>5, <2>6 DEF HonestReply
<1>5. HonestReplies(chan', token', wire', said')
  <2> SUFFICES ASSUME NEW m \in chan', m.status # None
               PROVE  HonestReply(m, token', wire', said')
    BY DEF HonestReplies
  <2>1. \/ m \in ch
        \/ \E t \in T :
              /\ Client(tx[t])
              /\ m = [uuid |-> <<"route", tx[t].opaque>>, branch |-> tx[t].branch,
                      copy |-> 0, status |-> ReplyStatus(tx[t])]
    BY <1>d DEF Deleted
  <2> QED BY <1>2, <1>3, <1>4, <2>1
<1> QED BY <1>1, <1>5

(* The current state is honest when nothing happens on the wire. *)
LEMMA HonestNow ==
    ASSUME Honest, UNCHANGED <<wire, said>>
    PROVE  /\ SaidGrows
           /\ HonestClients(txn, timer, wire', said')
           /\ HonestReplies(chan, token, wire', said')
BY DEF Honest, SaidGrows

(* What a server transaction goes through concerns no client transaction.  *)
LEMMA ServerChanges ==
    ASSUME NEW tx, NEW ty, NEW t, DOMAIN ty = DOMAIN tx,
           \A i \in DOMAIN tx : i # t => ty[i] = tx[i],
           ~Client(ty[t]), NEW armed, NEW more, more \subseteq armed \cup {t},
           NEW w, NEW sd, HonestClients(tx, armed, w, sd)
    PROVE  HonestClients(ty, more, w, sd)
<1> SUFFICES ASSUME NEW i \in DOMAIN ty, Client(ty[i])
             PROVE  HonestClient(i, ty[i], more, w, sd)
  BY DEF HonestClients
<1>1. i # t /\ ty[i] = tx[i]
  OBVIOUS
<1>2. HonestClient(i, tx[i], armed, w, sd)
  BY <1>1 DEF HonestClients
<1> QED BY <1>1, <1>2 DEF HonestClient

(* sip_call of a status event leaves what is said of callees true.         *)
LEMMA SendStatusHonest ==
    ASSUME IInv, Honest, NEW tx, NEW ss, NEW ch, Legal(tx, ss, ch),
           NEW t \in DOMAIN tx, ~Client(tx[t]), NEW status \in Status,
           SendStatus(t, status, tx, ss, ch), UNCHANGED <<wire, said>>,
           HonestClients(tx, timer, wire, said), HonestReplies(ch, token, wire, said)
    PROVE  Honest'
<1> DEFINE ringing == [tx EXCEPT ![t].state = "PROCEEDING", ![t].last = status]
           failed  == [tx EXCEPT ![t].state = "COMPLETED", ![t].last = status,
                                 ![t].retry = RetryBegun(tx[t])]
<1>0. /\ Core /\ SaidGrows /\ tx[t].branch \in Branch
      /\ HonestClients(tx, timer, wire', said') /\ HonestReplies(ch, token, wire', said')
  BY HonestNow DEF IInv, Legal, LegalTxn, Transaction
<1>2. CASE Delete({t}, tx, ss, ch)
  <2>1. {t} \subseteq DOMAIN tx /\ timer \ {t} \subseteq timer
    OBVIOUS
  <2> QED BY <1>0, <1>2, <2>1, DeleteHonest DEF Honest
<1>3. CASE Keep(ringing, timer, ss, ch)
  <2>1. /\ DOMAIN ringing = DOMAIN tx /\ \A i \in DOMAIN tx : i # t => ringing[i] = tx[i]
        /\ ringing[t].kind = tx[t].kind
    BY DEF Legal, LegalTxn, Transaction
  <2>2. HonestClients(ringing, timer, wire', said')
    <3> HIDE DEF ringing
    <3> QED BY <1>0, <2>1, ServerChanges DEF Client
  <2> QED BY <1>0, <1>3, <2>2, KeepHonest DEF Honest
<1>4. CASE Keep(failed, timer \cup {t}, ss, ch)
  <2>1. /\ DOMAIN failed = DOMAIN tx /\ \A i \in DOMAIN tx : i # t => failed[i] = tx[i]
        /\ failed[t].kind = tx[t].kind
    BY DEF Legal, LegalTxn, Transaction
  <2>2. HonestClients(failed, timer \cup {t}, wire', said')
    <3> HIDE DEF failed
    <3> QED BY <1>0, <2>1, ServerChanges DEF Client
  <2> QED BY <1>0, <1>4, <2>2, KeepHonest DEF Honest
<1> QED BY <1>2, <1>3, <1>4 DEF SendStatus

-----------------------------------------------------------------------------
(* Every action answers honestly *)

(* cmd_initiate: the query is no reply.                                     *)
LEMMA InitiateHonest ==
    ASSUME IInv, Honest, NEW tx, Legal(tx, ses, chan), NEW t \in DOMAIN tx, ~Client(tx[t]),
           sends'[tx[t].branch] \in Nat, Initiate(t, tx), UNCHANGED <<wire, said>>,
           HonestClients(tx, timer, wire, said)
    PROVE  Honest'
<1> DEFINE b == tx[t].branch
           q == chan \cup {Query(t, b)}
<1>0. Core /\ SaidGrows
  BY HonestNow DEF IInv
<1>1. Legal(tx, SessionGet(t), q) /\ Legal(tx, SessionGet(t), chan)
  BY <1>0, LegalQuery
<1>2. 180 \in Status /\ 500 \in Status /\ 503 \in Status
  BY DEF Status
<1>4. HonestReplies(chan, token, wire, said)
  BY DEF Honest
<1>5. HonestReplies(q, token, wire, said)
  BY <1>4 DEF HonestReplies, Query
<1>6. CASE SendStatus(t, 180, tx, SessionGet(t), q)
  <2> HIDE DEF b, q
  <2> QED BY <1>1, <1>2, <1>5, <1>6, SendStatusHonest
<1>7. CASE Keep(tx, timer, SessionGet(t), q) /\ UNCHANGED final
  <2>1. HonestClients(tx, timer, wire', said') /\ HonestReplies(q, token, wire', said')
    BY <1>5
  <2> QED BY <1>7, <2>1, KeepHonest DEF Honest
<1>8. CASE SendStatus(t, 503, tx, ses, chan)
  BY <1>2, <1>4, <1>8, SendStatusHonest
<1>9. ASSUME NEW code \in {500, 503}, SendStatus(t, code, tx, SessionGet(t), chan)
      PROVE  Honest'
  BY <1>1, <1>2, <1>4, <1>9, SendStatusHonest
<1> QED BY <1>6, <1>7, <1>8, <1>9 DEF Initiate

(* A request that opens a server transaction. *)
LEMMA ReceiveNewHonest ==
    ASSUME IInv, Honest, NEW b \in Branch, NEW n \in Net, ReceiveNew(b, n),
           sends'[b] \in Nat, UNCHANGED <<wire, said>>
    PROVE  Honest'
<1> DEFINE st == IF b \in Invite THEN "PROCEEDING" ELSE "TRYING"
           a  == NewTransaction(ServerKind(b), b, n, st, None)
           tx == With(tid + 1, a)
<1>0. Core /\ tid + 1 \notin DOMAIN txn
  BY DEF IInv, Core, CoreTypes
<1>1. a \in Transaction /\ ~Client(a) /\ a.branch = b /\ a.state # "TERMINATED"
  BY DEF NewTransaction, Transaction, ServerKind, XIST, XICT, None, Client
<1>2. tid' = tid + 1 /\ Initiate(tid + 1, tx)
  BY DEF ReceiveNew
<1>3. /\ DOMAIN tx = DOMAIN txn \cup {tid + 1} /\ tx[tid + 1] = a
      /\ \A i \in DOMAIN txn : tx[i] = txn[i]
  BY <1>0 DEF With
<1> HIDE DEF a
<1>4. Legal(tx, ses, chan)
  BY <1>0, <1>1, <1>2, NewLegal
<1> HIDE DEF tx
<1>5. HonestClients(tx, timer, wire, said)
  BY <1>1, <1>3 DEF Honest, HonestClients
<1> QED BY <1>1, <1>2, <1>3, <1>4, <1>5, InitiateHonest

(* A request again. *)
LEMMA ReceiveAgainHonest ==
    ASSUME IInv, Honest, NEW b \in Branch, NEW t \in DOMAIN txn, ~Client(txn[t]),
           txn[t].branch = b, ReceiveInviteAgain(b, t) \/ ReceiveRequestAgain(t),
           sends'[b] \in Nat, UNCHANGED <<tid, wire, said>>
    PROVE  Honest'
<1> DEFINE ty == [txn EXCEPT ![t].retry = RetryBegun(txn[t])]
<1>0. Core
  BY DEF IInv
<1>1. Legal(txn, ses, chan)
  BY <1>0, LegalNow
<1>2. Legal(txn, SessionGet(t), chan \cup {Query(t, b)}) /\ Legal(txn, SessionGet(t), chan)
  BY <1>0, <1>1, LegalQuery
<1>3. /\ HonestClients(txn, timer, wire, said) /\ HonestReplies(chan, token, wire, said)
      /\ SaidGrows
  BY HonestNow DEF Honest
<1>4. HonestReplies(chan \cup {Query(t, b)}, token, wire, said)
  BY <1>3 DEF HonestReplies, Query
<1>6. CASE Initiate(t, txn)
  BY <1>1, <1>3, <1>6, InitiateHonest
<1>7. HonestClients(ty, timer \cup {t}, wire, said)
  <2>1. /\ DOMAIN ty = DOMAIN txn /\ \A i \in DOMAIN txn : i # t => ty[i] = txn[i]
        /\ ty[t].kind = txn[t].kind
    BY DEF IInv, Core, CoreTypes, Transaction
  <2> HIDE DEF ty
  <2> QED BY <1>3, <2>1, ServerChanges DEF Client
<1>8. ASSUME NEW ss, NEW ch, Legal(txn, ss, ch), HonestReplies(ch, token, wire, said),
             Delete({t}, txn, ss, ch) \/ Keep(ty, timer \cup {t}, ss, ch)
      PROVE  Honest'
  <2>1. CASE Delete({t}, txn, ss, ch)
    <3>1. {t} \subseteq DOMAIN txn /\ timer \ {t} \subseteq timer
      OBVIOUS
    <3>2. HonestClients(txn, timer, wire', said') /\ HonestReplies(ch, token, wire', said')
      BY <1>3, <1>8
    <3> QED BY <1>0, <1>8, <2>1, <3>1, <3>2, DeleteHonest DEF Honest
  <2>2. CASE Keep(ty, timer \cup {t}, ss, ch)
    <3>1. HonestClients(ty, timer \cup {t}, wire', said') /\ HonestReplies(ch, token, wire', said')
      BY <1>7, <1>8
    <3> HIDE DEF ty
    <3> QED BY <1>8, <2>2, <3>1, KeepHonest DEF Honest
  <2> QED BY <1>8, <2>1, <2>2
<1>9. CASE Keep(txn, timer, ses, chan) /\ UNCHANGED final
  BY <1>3, <1>9, KeepHonest DEF Honest
<1>10. CASE SendStatus(t, 501, txn, ses, chan)
  <2>1. 501 \in Status
    BY DEF Status
  <2> QED BY <1>1, <1>3, <1>10, <2>1, SendStatusHonest
<1>11. CASE ReceiveInviteAgain(b, t)
  <2>1. ASSUME NEW ss \in {ses, SessionGet(t)}, NEW ch \in {chan, chan \cup {Query(t, b)}},
               /\ \/ ready /\ ss = SessionGet(t) /\ ch = chan \cup {Query(t, b)}
                  \/ ready /\ "convert" \in Adverse /\ ss = SessionGet(t) /\ ch = chan
                  \/ ~ready /\ ss = ses /\ ch = chan
               /\ Delete({t}, txn, ss, ch) \/ Keep(ty, timer \cup {t}, ss, ch)
        PROVE  Honest'
    <3>1. Legal(txn, ss, ch) /\ HonestReplies(ch, token, wire, said)
      BY <1>1, <1>2, <1>3, <1>4, <2>1
    <3> HIDE DEF ty
    <3> QED BY <1>8, <2>1, <3>1
  <2> QED BY <1>6, <1>11, <2>1 DEF ReceiveInviteAgain
<1> QED BY <1>9, <1>10, <1>11 DEF ReceiveRequestAgain

(* sip_execute on a request. *)
LEMMA ReceiveRequestHonest ==
    ASSUME IInv, Honest, NEW b \in Branch, NEW n \in Net, ReceiveRequest(b, n)
    PROVE  Honest'
<1>0. UNCHANGED <<wire, said>> /\ sends'[b] \in Nat
  BY DEF ReceiveRequest, IInv, Rest
<1>1. CASE ReceiveNew(b, n)
  BY <1>0, <1>1, ReceiveNewHonest
<1>2. ASSUME NEW t \in Oldest(b, ServerKind(b)), UNCHANGED tid,
             ReceiveInviteAgain(b, t) \/ ReceiveRequestAgain(t)
      PROVE  Honest'
  <2>1. t \in DOMAIN txn /\ ~Client(txn[t]) /\ txn[t].branch = b
    BY DEF Oldest, Matching, ServerKind, Client, XICT
  <2> QED BY <1>0, <1>2, <2>1, ReceiveAgainHonest
<1> QED BY <1>1, <1>2 DEF ReceiveRequest

(* Transactions go without anything on the wire: the ACK, sweeps, hangups.  *)
LEMMA GoneHonest ==
    ASSUME IInv, Honest, NEW T, T \subseteq DOMAIN txn, Delete(T, txn, ses, chan),
           UNCHANGED <<tid, wire, said>>
    PROVE  Honest'
<1>1. Core /\ Legal(txn, ses, chan) /\ timer \ T \subseteq timer
  BY LegalNow DEF IInv
<1>2. /\ HonestClients(txn, timer, wire', said') /\ HonestReplies(chan, token, wire', said')
  BY HonestNow
<1> QED BY <1>1, <1>2, DeleteHonest DEF Honest

(* sip_finalize takes a reply off the broker. *)
LEMMA FinalizeHonest ==
    ASSUME IInv, Honest, NEW u, NEW b, QueryUuid(u, b, txn, ses), NEW status \in Status,
           NEW m, Finalize(u, status, chan \ {m}),
           UNCHANGED <<tid, wire, said>>
    PROVE  Honest'
<1> DEFINE t == SessionFind(u)
           ch == chan \ {m}
<1>1. Core /\ Legal(txn, ses, ch) /\ 500 \in Status
  BY LegalNow DEF IInv, Status
<1>2. t \in DOMAIN txn => ~Client(txn[t]) /\ txn[t].branch = b
  BY <1>1, QueryFound
<1>3. /\ HonestClients(txn, timer, wire, said) /\ HonestReplies(ch, token, wire, said)
      /\ SaidGrows
  BY HonestNow DEF Honest, HonestReplies
<1>4. CASE t \in DOMAIN txn /\ SendStatus(t, status, txn, ses, ch)
  BY <1>1, <1>2, <1>3, <1>4, SendStatusHonest
<1>5. CASE t \in DOMAIN txn /\ SendStatus(t, 500, txn, ses, ch)
  BY <1>1, <1>2, <1>3, <1>5, SendStatusHonest
<1>6. CASE Keep(txn, timer, ses, ch) /\ UNCHANGED final
  BY <1>3, <1>6, KeepHonest DEF Honest
<1> QED BY <1>4, <1>5, <1>6 DEF Finalize

(* cmd_finalise_request: Route's own answer to a REGISTER, or a reply.      *)
LEMMA ReturnReplyHonest ==
    ASSUME IInv, Honest, NEW m \in chan, ReturnReply(m)
    PROVE  Honest'
<1>1. Core /\ UNCHANGED <<tid, wire, said>> /\ m \in Message
  BY DEF ReturnReply, IInv, Core, CoreTypes
<1>2. ASSUME m.status = None, m.branch \in Register,
             NEW code \in {200, 403}, Finalize(m.uuid, code, chan \ {m})
      PROVE  Honest'
  <2>1. code \in Status
    BY <1>2 DEF Status
  <2>2. QueryUuid(m.uuid, m.branch, txn, ses)
    BY <1>1, <1>2 DEF Core, Traces, Traceable
  <2> QED BY <1>1, <1>2, <2>1, <2>2, FinalizeHonest
<1>3. CASE m.status # None /\ Finalize(requests[m.uuid[2]], m.status, chan \ {m})
  <2>1. m.status \in Status /\ QueryUuid(requests[m.uuid[2]], m.branch, txn, ses)
    BY <1>1, <1>3, ReplyFacts
  <2> QED BY <1>1, <1>3, <2>1, FinalizeHonest
<1> QED BY <1>2, <1>3 DEF ReturnReply

(* What is there stays honest when Route sends another request. *)
LEMMA GrownHonest ==
    ASSUME Core, Honest, UNCHANGED said, NEW w, wire' = Append(wire, w),
           NEW e, token' = Append(token, e)
    PROVE  /\ \A t \in DOMAIN txn : Client(txn[t]) =>
                 HonestClient(t, txn[t], timer, wire', said')
           /\ HonestReplies(chan, token', wire', said')
<1>1. /\ wire \in Seq(WireEntry) /\ Len(wire) = Len(requests)
      /\ token \in Seq([port : Nat, uses : Nat]) /\ Len(token) = Len(requests)
      /\ Len(requests) \in Nat
  BY SeqFacts DEF Core, CoreTypes
<1>2. \A i \in 1..Len(requests) : wire'[i] = wire[i] /\ token'[i] = token[i]
  BY <1>1
<1>3. SaidGrows /\ 0 \notin 1..Len(requests)
  BY DEF SaidGrows
<1>4. /\ \A t \in DOMAIN txn : Client(txn[t]) /\ txn[t].opaque # 0 =>
            HonestClient(t, txn[t], timer, wire', said')
      /\ \A m \in chan : m.status # None /\ m.uuid[2] # 0 =>
            HonestReply(m, token, wire', said')
  BY <1>2, <1>3, WireElsewhere
<1>5. ASSUME NEW m \in chan, m.status # None
      PROVE  HonestReply(m, token', wire', said')
  <2>1. m.uuid[2] \in 1..Len(requests)
    BY <1>5, ReplyFacts
  <2>2. HonestReply(m, token, wire', said') /\ token'[m.uuid[2]] = token[m.uuid[2]]
    BY <1>2, <1>3, <1>4, <1>5, <2>1
  <2> QED BY <2>2 DEF HonestReply
<1>6. \A t \in DOMAIN txn : Client(txn[t]) => txn[t].opaque # 0
  BY <1>3, ClientFacts
<1> QED BY <1>4, <1>5, <1>6 DEF HonestReplies

(* The entry of the wire and the token of Route's next request. *)
LEMMA NextEntry ==
    ASSUME Core, NEW w \in WireEntry, wire' = Append(wire, w),
           NEW e \in [port : Nat, uses : Nat], token' = Append(token, e)
    PROVE  wire'[Len(requests) + 1] = w /\ token'[Len(requests) + 1] = e
<1>1. /\ wire \in Seq(WireEntry) /\ Len(wire) = Len(requests)
      /\ token \in Seq([port : Nat, uses : Nat]) /\ Len(token) = Len(requests)
  BY DEF Core, CoreTypes
<1> QED BY <1>1, AppendFacts

(* sip_proxy refuses with a code of sipecho's own. *)
LEMMA RefuseHonest ==
    ASSUME IInv, Honest, NEW m \in chan, Refuse(Len(requests) + 1, m),
           UNCHANGED said
    PROVE  Honest'
<1> DEFINE k == Len(requests) + 1
           e == [port |-> port, uses |-> 1]
           w == [branch |-> m.branch, sent |-> 0, heard |-> FALSE]
<1>1. Core /\ SaidGrows /\ m.branch \in Branch
  BY DEF IInv, SaidGrows, Core, CoreTypes, Message
<1>2. /\ e \in [port : Nat, uses : Nat] /\ w \in WireEntry /\ e.uses # 0
      /\ w.branch = m.branch /\ w.sent = 0 /\ ~w.heard
      /\ token' = Append(token, e) /\ wire' = Append(wire, w)
  BY <1>1 DEF Refuse, TokenNew, WireEntry, IInv, Rest
<1> HIDE DEF e, w
<1>3. /\ \A t \in DOMAIN txn : Client(txn[t]) =>
            HonestClient(t, txn[t], timer, wire', said')
      /\ HonestReplies(chan, token', wire', said')
  BY <1>1, <1>2, GrownHonest
<1>4. token'[k] = e /\ wire'[k] = w
  BY <1>1, <1>2, NextEntry
<1>5. HonestReplies(chan', token', wire', said')
  <2>1. ASSUME NEW code \in {403, 410, 500}, "refuse" \in Adverse,
               NEW x, x = [uuid |-> <<"route", k>>, branch |-> m.branch, copy |-> 0,
                           status |-> code]
        PROVE  HonestReply(x, token', wire', said')
    <3> HIDE DEF k
    <3>1. x.uuid[2] = k /\ x.status = code /\ x.branch = m.branch
      BY <2>1
    <3>2. token'[x.uuid[2]].uses # 0 /\ wire'[x.uuid[2]] = w
      BY <1>2, <1>4, <3>1
    <3>3. HonestStatus(code, m.branch, w, said')
      BY <1>2, <2>1 DEF HonestStatus
    <3>4. HonestStatus(x.status, x.branch, wire'[x.uuid[2]], said')
      BY <3>1, <3>2, <3>3
    <3> QED BY <3>2, <3>4 DEF HonestReply
  <2>2. \A x \in chan' : \/ x \in chan
                         \/ /\ "refuse" \in Adverse
                            /\ \E code \in {403, 410, 500} :
                                  x = [uuid |-> <<"route", k>>, branch |-> m.branch,
                                       copy |-> 0, status |-> code]
    BY DEF Refuse
  <2> HIDE DEF k
  <2> QED BY <1>3, <2>1, <2>2 DEF HonestReplies
<1>6. HonestClients(txn', timer', wire', said')
  <2>1. txn' = txn /\ timer' = timer
    BY DEF Refuse
  <2> QED BY <1>3, <2>1 DEF HonestClients
<1> QED BY <1>5, <1>6 DEF Honest

(* sip_relay starts counting with the first transmission. *)
LEMMA RelayHonest ==
    ASSUME IInv, Honest, Spoken, NEW m \in chan, NEW n \in Net,
           Relay(Len(requests) + 1, m, n), UNCHANGED said
    PROVE  Honest'
<1> DEFINE k    == Len(requests) + 1
           b    == m.branch
           new  == NewTransaction(ClientKind(b), b, n,
                       IF b \in Invite THEN "CALLING" ELSE "TRYING", k)
           sent == [new EXCEPT !.retry =
                       IF b \in Retransmitted THEN RetryBegun(new) ELSE @]
           dead == [new EXCEPT !.state = "TERMINATED"]
           e    == [port |-> port, uses |-> 0]
           w(x) == [branch |-> b, sent |-> x, heard |-> FALSE]
           s    == [id |-> tid + 1, uuid |-> <<"route", k>>]
<1>1. Core /\ SaidGrows /\ b \in Branch /\ SessionFits(s)
  BY SessionAlwaysFits DEF IInv, SaidGrows, Core, CoreTypes, Message
<1>2. tid + 1 \notin DOMAIN txn /\ tid + 1 \notin timer
  BY <1>1 DEF Core, CoreTypes
<1>3. /\ sent.retry = 0 \/ sent.retry = SIP_RETRY + 1
      /\ sent.last = None /\ sent.opaque = k /\ sent.branch = b
      /\ sent.state # "TERMINATED"
      /\ dead.retry = 0 /\ dead.last = None /\ dead.opaque = k /\ dead.branch = b
      /\ dead.state = "TERMINATED"
  <2>1. /\ new = [kind |-> ClientKind(b), branch |-> b, net |-> n,
                  state |-> IF b \in Invite THEN "CALLING" ELSE "TRYING",
                  retry |-> 0, last |-> None, opaque |-> k]
    BY DEF NewTransaction
  <2>2. /\ new.retry = 0 /\ new.last = None /\ new.opaque = k /\ DOMAIN new = DOMAIN sent
        /\ new.branch = b /\ new.state # "TERMINATED"
    BY <2>1
  <2>3. /\ "retry" \in DOMAIN new /\ "last" \in DOMAIN new /\ "opaque" \in DOMAIN new
        /\ "branch" \in DOMAIN new /\ "state" \in DOMAIN new
    BY <2>1
  <2> HIDE DEF new
  <2>4. /\ sent.last = None /\ sent.opaque = k /\ sent.branch = b
        /\ sent.state # "TERMINATED"
    BY <2>2, <2>3
  <2>5. sent.retry = IF b \in Retransmitted THEN RetryBegun(new) ELSE new.retry
    BY <2>3
  <2>6. /\ dead.retry = 0 /\ dead.last = None /\ dead.opaque = k
        /\ dead.branch = b /\ dead.state = "TERMINATED"
    BY <2>2, <2>3
  <2> QED BY <2>2, <2>4, <2>5, <2>6 DEF RetryBegun
<1>4. /\ token' = Append(token, e) /\ chan' = chan \ {m}
      /\ \/ /\ txn' = With(tid + 1, sent) /\ wire' = Append(wire, w(1))
            /\ timer' \subseteq timer \cup {tid + 1}
         \/ /\ txn' = With(tid + 1, dead) /\ wire' = Append(wire, w(0))
            /\ timer' = timer
  BY <1>1 DEF Relay, TokenNew
<1>5. /\ e \in [port : Nat, uses : Nat] /\ w(0) \in WireEntry /\ w(1) \in WireEntry
      /\ w(1).sent = 1 /\ ~w(0).heard /\ ~w(1).heard
      /\ w(0).sent = 0 /\ w(0).branch = b /\ w(1).branch = b
  <2>1. port \in Nat
    BY DEF IInv, Rest
  <2> QED BY <1>1, <2>1 DEF WireEntry
<1> HIDE DEF e, w, sent, dead
<1>6. /\ \A t \in DOMAIN txn : Client(txn[t]) =>
            HonestClient(t, txn[t], timer, wire', said')
      /\ HonestReplies(chan, token', wire', said')
  BY <1>1, <1>4, GrownHonest
<1>7. HonestReplies(chan', token', wire', said')
  BY <1>4, <1>6 DEF HonestReplies
<1>8. ASSUME NEW a, txn' = With(tid + 1, a), timer' \subseteq timer \cup {tid + 1},
             HonestClient(tid + 1, a, timer', wire', said')
      PROVE  HonestClients(txn', timer', wire', said')
  <2> SUFFICES ASSUME NEW t \in DOMAIN txn', Client(txn'[t])
               PROVE  HonestClient(t, txn'[t], timer', wire', said')
    BY DEF HonestClients
  <2>1. /\ DOMAIN txn' = DOMAIN txn \cup {tid + 1} /\ txn'[tid + 1] = a
        /\ \A i \in DOMAIN txn : txn'[i] = txn[i]
    BY <1>2, <1>8 DEF With
  <2>2. CASE t \in DOMAIN txn
    <3>1. HonestClient(t, txn[t], timer, wire', said') /\ txn'[t] = txn[t]
      BY <1>6, <2>1, <2>2
    <3>2. t \in timer' => t \in timer
      BY <1>2, <1>8, <2>2
    <3> QED BY <3>1, <3>2 DEF HonestClient
  <2>3. CASE t = tid + 1
    BY <1>8, <2>1, <2>3
  <2> QED BY <2>1, <2>2, <2>3
<1>9. HonestClients(txn', timer', wire', said')
  <2>1. CASE /\ txn' = With(tid + 1, sent) /\ wire' = Append(wire, w(1))
             /\ timer' \subseteq timer \cup {tid + 1}
    <3>1. wire'[k] = w(1)
      BY <1>1, <1>4, <1>5, <2>1, NextEntry
    <3>3. Silent(sent, wire', said')
      <4>1. Len(requests) \in Nat /\ 1..(sent.opaque - 1) = 1..Len(requests)
        BY <1>1, <1>3, SeqFacts DEF Core, CoreTypes
      <4>2. \A j \in 1..Len(requests) : wire'[j] = wire[j]
        BY <1>1, <1>5, <2>1, AppendFacts DEF Core, CoreTypes
      <4> QED BY <1>1, <1>3, <4>1, <4>2 DEF Silent, Spoken
    <3> HIDE DEF k
    <3>2. HonestClient(tid + 1, sent, timer', wire', said')
      BY <1>3, <1>5, <3>1, <3>3 DEF HonestClient
    <3> QED BY <1>8, <2>1, <3>2
  <2>2. CASE /\ txn' = With(tid + 1, dead) /\ wire' = Append(wire, w(0))
             /\ timer' = timer
    <3>1. wire'[k] = w(0)
      BY <1>1, <1>4, <1>5, <2>2, NextEntry
    <3> HIDE DEF k
    <3>2. HonestClient(tid + 1, dead, timer', wire', said')
      BY <1>2, <1>3, <1>5, <2>2, <3>1 DEF HonestClient
    <3> QED BY <1>8, <2>2, <3>2
  <2> QED BY <1>4, <2>1, <2>2
<1> QED BY <1>7, <1>9 DEF Honest

(* A response is heard on the wire of its own request only. *)
LEMMA HeardHonest ==
    ASSUME Core, Honest, SaidGrows, NEW t \in DOMAIN txn, Client(txn[t]),
           wire' = [wire EXCEPT ![txn[t].opaque].heard = TRUE],
           \A u \in DOMAIN txn :
              Client(txn[u]) /\ u # t /\ txn[u].state # "TERMINATED" =>
                 said'[txn[u].branch] = said[txn[u].branch] \/ Silent(txn[u], wire, said')
    PROVE  /\ \A u \in DOMAIN txn : Client(txn[u]) /\ u # t =>
                 HonestClient(u, txn[u], timer, wire', said')
           /\ HonestReplies(chan, token, wire', said')
<1> DEFINE k == txn[t].opaque
<1>1. \A i \in 1..Len(requests) :
         wire'[i].branch = wire[i].branch /\ (i # k => wire'[i] = wire[i])
  <2>1. wire \in Seq(WireEntry) /\ Len(wire) = Len(requests)
    BY DEF Core, CoreTypes
  <2>2. DOMAIN wire = 1..Len(requests) /\ \A i \in DOMAIN wire : wire[i] \in WireEntry
    BY <2>1, SeqFacts
  <2> QED BY <2>2 DEF WireEntry
<1>2. /\ \A u \in DOMAIN txn : Client(txn[u]) /\ txn[u].opaque # k =>
            HonestClient(u, txn[u], timer, wire', said')
      /\ \A m \in chan : m.status # None /\ m.uuid[2] # k =>
            HonestReply(m, token, wire', said')
  <2>1. \A u \in DOMAIN txn :
           Client(txn[u]) /\ txn[u].state # "TERMINATED" /\ txn[u].opaque # k =>
              said'[txn[u].branch] = said[txn[u].branch] \/ Silent(txn[u], wire, said')
    OBVIOUS
  <2> HIDE DEF k
  <2> QED BY <1>1, <2>1, WireElsewhere
<1>3. \A u \in DOMAIN txn : Client(txn[u]) /\ u # t => txn[u].opaque # k
  BY ClientFacts
<1>4. \A m \in chan : m.status # None => m.uuid[2] # k
  <2>1. token[k].uses = 0
    BY ClientFacts
  <2>2. \A m \in chan : m.status # None => token[m.uuid[2]].uses # 0
    BY DEF Honest, HonestReplies, HonestReply
  <2> QED BY <2>1, <2>2
<1> QED BY <1>2, <1>3, <1>4 DEF HonestReplies

(* A status the client transaction takes is what the callee said. *)
LEMMA TakeStatusHonest ==
    ASSUME IInv, Honest, SaidGrows, NEW t \in DOMAIN txn, Client(txn[t]),
           NEW status \in Said, status \in said'[txn[t].branch], TakeStatus(t, status),
           UNCHANGED tid,
           \A u \in DOMAIN txn :
              Client(txn[u]) /\ u # t /\ txn[u].state # "TERMINATED" =>
                 said'[txn[u].branch] = said[txn[u].branch] \/ Silent(txn[u], wire, said')
    PROVE  Honest'
<1> DEFINE tx == [txn EXCEPT ![t].last = status, ![t].state = "PROCEEDING"]
           k  == txn[t].opaque
<1>1. /\ Core /\ Legal(txn, ses, chan) /\ \A i \in DOMAIN txn : txn[i] \in Transaction
      /\ status \in Status /\ status # None
  <2>1. Core /\ Legal(txn, ses, chan)
    BY LegalNow DEF IInv
  <2>2. \A i \in DOMAIN txn : txn[i] \in Transaction
    BY <2>1 DEF Core, CoreTypes
  <2>3. status \in Status /\ status # None
    BY StatusIsSome, GatewayAssumption DEF Status
  <2> QED BY <2>1, <2>2, <2>3
<1>2. /\ txn[t].state # "TERMINATED"
      /\ Keep(tx, timer \ {t}, ses, chan) \/ Delete({t}, tx, ses, chan)
      /\ wire' = [wire EXCEPT ![k].heard = TRUE]
  BY DEF TakeStatus
<1>3. tx[t] = [txn[t] EXCEPT !.last = status, !.state = "PROCEEDING"]
  OBVIOUS
<1>4. DOMAIN tx = DOMAIN txn /\ \A i \in DOMAIN txn : i # t => tx[i] = txn[i]
  OBVIOUS
<1>5. /\ tx[t] \in Transaction
      /\ tx[t].kind = txn[t].kind /\ tx[t].branch = txn[t].branch
      /\ tx[t].net = txn[t].net /\ tx[t].opaque = k
      /\ tx[t].state = "PROCEEDING" /\ tx[t].last = status /\ tx[t].retry = txn[t].retry
  BY <1>1, <1>3 DEF Transaction
<1> HIDE DEF tx
<1>6. Legal(tx, ses, chan)
  BY <1>1, <1>2, <1>4, <1>5, LegalProgress
<1>7. /\ \A u \in DOMAIN txn : Client(txn[u]) /\ u # t =>
            HonestClient(u, txn[u], timer, wire', said')
      /\ HonestReplies(chan, token, wire', said')
  BY <1>1, <1>2, HeardHonest
<1>8. HonestClients(tx, timer \ {t}, wire', said')
  <2>1. HonestClient(t, tx[t], timer \ {t}, wire', said')
    <3>1. HonestClient(t, txn[t], timer, wire, said)
      BY DEF Honest, HonestClients
    <3>2. wire'[k].sent = wire[k].sent /\ wire'[k].branch = wire[k].branch
      <4>1. wire \in Seq(WireEntry) /\ Len(wire) = Len(requests) /\ k \in 1..Len(requests)
        BY <1>1, ClientFacts DEF Core, CoreTypes
      <4>2. k \in DOMAIN wire /\ wire[k] \in WireEntry
        BY <4>1, SeqFacts
      <4>3. wire'[k] = [wire[k] EXCEPT !.heard = TRUE]
        BY <1>2, <4>2
      <4> QED BY <4>2, <4>3 DEF WireEntry
    <3>3. /\ wire'[tx[t].opaque].branch = tx[t].branch
          /\ \/ tx[t].retry = SIP_RETRY + 1 /\ wire'[tx[t].opaque].sent = 1
             \/ tx[t].retry = 0 /\ wire'[tx[t].opaque].sent \in {0, 1}
             \/ wire'[tx[t].opaque].sent = tx[t].retry + 1
      BY <1>5, <3>1, <3>2 DEF HonestClient
    <3> QED BY <1>1, <1>5, <3>3 DEF HonestClient
  <2>2. ASSUME NEW u \in DOMAIN tx, Client(tx[u]), u # t
        PROVE  HonestClient(u, tx[u], timer \ {t}, wire', said')
    <3>1. HonestClient(u, txn[u], timer, wire', said') /\ tx[u] = txn[u]
      BY <1>4, <1>7, <2>2
    <3> QED BY <3>1 DEF HonestClient
  <2> QED BY <2>1, <2>2 DEF HonestClients
<1>10. CASE Keep(tx, timer \ {t}, ses, chan)
  BY <1>7, <1>8, <1>10, KeepHonest DEF Honest
<1>11. CASE Delete({t}, tx, ses, chan)
  <2>1. {t} \subseteq DOMAIN tx
    BY <1>4
  <2> QED BY <1>1, <1>6, <1>7, <1>8, <1>11, <2>1, DeleteHonest DEF Honest
<1> QED BY <1>2, <1>10, <1>11

(* sip_execute on a response. *)
LEMMA ReceiveResponseHonest ==
    ASSUME IInv, Honest, NEW b \in Branch \ Register, NEW status \in Said,
           ReceiveResponse(b, status)
    PROVE  Honest'
<1>1. /\ UNCHANGED tid /\ said' = [said EXCEPT ![b] = @ \cup {status}]
      /\ said \in [Branch -> SUBSET Said]
  BY DEF ReceiveResponse, IInv, Rest
<1>2. SaidGrows /\ status \in said'[b]
  BY <1>1 DEF SaidGrows
<1>3. PICK t \in Oldest(b, ClientKind(b)) : TakeStatus(t, status) \/ IgnoreStatus(t)
  BY DEF ReceiveResponse
<1>4. t \in DOMAIN txn /\ Client(txn[t]) /\ txn[t].branch = b
  BY DEF Oldest, Matching, ClientKind, Client, XICT
<1>7. ASSUME NEW u \in DOMAIN txn, Client(txn[u]), u # t
      PROVE  said'[txn[u].branch] = said[txn[u].branch] \/ Silent(txn[u], wire, said')
  <2>1. CASE txn[u].branch # b
    BY <1>1, <2>1 DEF IInv, Core, CoreTypes, Transaction
  <2>2. CASE txn[u].branch = b
    <3>1. Core /\ txn[u].kind = ClientKind(b) /\ tid \in Nat /\ DOMAIN txn \subseteq 1..tid
      BY <1>7, <2>2 DEF IInv, Core, CoreTypes, Ordered
    <3>2. u \in Matching(b, ClientKind(b))
      BY <2>2, <3>1 DEF Matching
    <3>3. t < u
      BY <1>3, <1>4, <1>7, <3>1, <3>2 DEF Oldest
    <3>4. txn[t].opaque < txn[u].opaque
      BY <1>4, <1>7, <3>1, <3>3 DEF Core, Ordered
    <3>5. txn[t].opaque \in 1..Len(requests) /\ txn[u].opaque \in 1..Len(requests)
      BY <1>4, <1>7, <3>1, ClientFacts
    <3>6. Len(requests) \in Nat /\ wire[txn[t].opaque].branch = b
      BY <1>4, <3>1, SeqFacts DEF Honest, HonestClients, HonestClient, Core, CoreTypes
    <3>7. txn[t].opaque \in 1..(txn[u].opaque - 1)
      BY <3>4, <3>5, <3>6
    <3> QED BY <2>2, <3>6, <3>7 DEF Silent
  <2> QED BY <2>1, <2>2
<1>5. CASE TakeStatus(t, status)
  BY <1>1, <1>2, <1>4, <1>5, <1>7, TakeStatusHonest
<1>6. CASE IgnoreStatus(t)
  <2>1. Core /\ Legal(txn, ses, chan) /\ Delete({t}, txn, ses, chan) /\ UNCHANGED wire
    BY <1>1, <1>6, LegalNow DEF IInv, IgnoreStatus
  <2>6. \A u \in DOMAIN txn : Client(txn[u]) /\ txn[u].state # "TERMINATED" =>
           said'[txn[u].branch] = said[txn[u].branch] \/ Silent(txn[u], wire, said')
    BY <1>6, <1>7 DEF IgnoreStatus
  <2>2. /\ \A u \in DOMAIN txn : Client(txn[u]) /\ txn[u].opaque # 0 =>
              HonestClient(u, txn[u], timer, wire', said')
        /\ \A m \in chan : m.status # None /\ m.uuid[2] # 0 =>
              HonestReply(m, token, wire', said')
    BY <1>2, <2>1, <2>6, WireElsewhere
  <2>3. HonestClients(txn, timer, wire', said') /\ HonestReplies(chan, token, wire', said')
    BY <2>1, <2>2, ClientFacts, ReplyFacts DEF HonestClients, HonestReplies
  <2>5. {t} \subseteq DOMAIN txn /\ timer \ {t} \subseteq timer
    BY <1>4
  <2> QED BY <2>1, <2>3, <2>5, DeleteHonest DEF Honest
<1> QED BY <1>3, <1>5, <1>6

(* sip_redo counts what it sends. *)
LEMMA RedoHonest ==
    ASSUME IInv, Honest, NEW t \in timer, sip_redo(t)
    PROVE  Honest'
<1> DEFINE tx == [txn EXCEPT ![t].retry = @ + 1]
           k  == txn[t].opaque
<1>1. /\ Core /\ t \in DOMAIN txn /\ UNCHANGED <<tid, said>> /\ SaidGrows
      /\ \A i \in DOMAIN txn : txn[i] \in Transaction
  BY DEF sip_redo, IInv, Core, CoreTypes, SaidGrows
<1>2. CASE Delete({t}, txn, ses, chan) /\ UNCHANGED wire
  <2>1. {t} \subseteq DOMAIN txn
    BY <1>1
  <2> QED BY <1>1, <1>2, <2>1, GoneHonest
<1>3. CASE /\ txn[t].retry < SIP_RETRY /\ Keep(tx, timer, ses, chan)
           /\ IF Client(txn[t]) THEN wire' = [wire EXCEPT ![k].sent = @ + 1]
              ELSE UNCHANGED wire
  <2>1. tx[t] = [txn[t] EXCEPT !.retry = @ + 1]
    BY <1>1
  <2>2. DOMAIN tx = DOMAIN txn /\ \A i \in DOMAIN txn : i # t => tx[i] = txn[i]
    OBVIOUS
  <2>3. /\ tx[t].kind = txn[t].kind /\ tx[t].branch = txn[t].branch /\ tx[t].opaque = k
        /\ tx[t].state = txn[t].state /\ tx[t].last = txn[t].last
        /\ tx[t].retry = txn[t].retry + 1
    BY <1>1, <2>1 DEF Transaction
  <2> HIDE DEF tx
  <2>5. CASE ~Client(txn[t])
    <3>1. HonestClients(txn, timer, wire', said') /\ HonestReplies(chan, token, wire', said')
      BY <1>1, <1>3, <2>5, HonestNow
    <3>2. HonestClients(tx, timer, wire', said')
      BY <2>2, <2>3, <2>5, <3>1, ServerChanges DEF Client
    <3> QED BY <1>3, <3>1, <3>2, KeepHonest DEF Honest
  <2>6. CASE Client(txn[t])
    <3>1. /\ k \in 1..Len(requests) /\ token[k].uses = 0
          /\ \A u \in DOMAIN txn : Client(txn[u]) /\ txn[u].opaque = k => u = t
      BY <1>1, <2>6, ClientFacts
    <3>2. /\ wire \in Seq(WireEntry) /\ DOMAIN wire = 1..Len(requests)
          /\ wire[k] \in WireEntry
      <4>1. wire \in Seq(WireEntry) /\ Len(wire) = Len(requests)
        BY <1>1 DEF Core, CoreTypes
      <4> QED BY <3>1, <4>1, SeqFacts
    <3>3. wire' = [wire EXCEPT ![k].sent = @ + 1]
      BY <1>3, <2>6
    <3>4. /\ \A i \in 1..Len(requests) :
                wire'[i].branch = wire[i].branch /\ (i # k => wire'[i] = wire[i])
          /\ wire'[k] = [wire[k] EXCEPT !.sent = @ + 1]
      <4>1. wire'[k] = [wire[k] EXCEPT !.sent = @ + 1]
        BY <3>1, <3>2, <3>3
      <4>2. wire'[k].branch = wire[k].branch
        BY <3>2, <4>1 DEF WireEntry
      <4>3. \A i \in 1..Len(requests) : i # k => wire'[i] = wire[i]
        BY <3>1, <3>2, <3>3
      <4> HIDE DEF k
      <4> QED BY <4>1, <4>2, <4>3
    <3>5. /\ wire'[k].sent = wire[k].sent + 1 /\ wire'[k].heard = wire[k].heard
          /\ wire'[k].branch = wire[k].branch
      BY <3>2, <3>4 DEF WireEntry
    <3> HIDE DEF k
    <3>6. /\ \A u \in DOMAIN txn : Client(txn[u]) /\ txn[u].opaque # k =>
                HonestClient(u, txn[u], timer, wire', said')
          /\ \A m \in chan : m.status # None /\ m.uuid[2] # k =>
                HonestReply(m, token, wire', said')
      BY <1>1, <3>4, WireElsewhere
    <3>7. HonestReplies(chan, token, wire', said')
      <4>1. \A m \in chan : m.status # None => token[m.uuid[2]].uses # 0
        BY DEF Honest, HonestReplies, HonestReply
      <4> QED BY <3>1, <3>6, <4>1 DEF HonestReplies
    <3>8. HonestClient(t, tx[t], timer, wire', said')
      <4>1. HonestClient(t, txn[t], timer, wire, said)
        BY <1>1, <2>6 DEF Honest, HonestClients
      <4>2. txn[t].retry # SIP_RETRY + 1
        BY <1>1, <1>3, GatewayAssumption DEF Transaction
      <4>3. k = txn[t].opaque
        BY DEF k
      <4>4. /\ tx[t].last = None /\ ~wire'[tx[t].opaque].heard
            /\ wire'[tx[t].opaque].branch = tx[t].branch
        BY <2>3, <3>5, <4>1, <4>3 DEF HonestClient
      <4>6. tx[t].state # "TERMINATED"
        BY <1>1, <2>3 DEF Core, Terminated
      <4>7. Silent(tx[t], wire', said')
        <5>1. Silent(txn[t], wire, said)
          BY <2>3, <4>1, <4>4, <4>6 DEF HonestClient
        <5>2. 1..(k - 1) \subseteq 1..Len(requests)
          <6>1. Len(requests) \in Nat
            BY <1>1, SeqFacts DEF Core, CoreTypes
          <6> QED BY <3>1, <6>1
        <5> QED BY <1>1, <2>3, <3>4, <4>3, <5>1, <5>2 DEF Silent
      <4>5. wire'[tx[t].opaque].sent = tx[t].retry + 1
        BY <2>3, <3>5, <4>1, <4>2, <4>3 DEF HonestClient
      <4> QED BY <4>4, <4>5, <4>6, <4>7 DEF HonestClient
    <3>9. HonestClients(tx, timer, wire', said')
      <4>1. ASSUME NEW u \in DOMAIN tx, Client(tx[u]), u # t
            PROVE  HonestClient(u, tx[u], timer, wire', said')
        BY <2>2, <3>1, <3>6, <4>1
      <4> QED BY <3>8, <4>1 DEF HonestClients
    <3> QED BY <1>3, <3>7, <3>9, KeepHonest DEF Honest
  <2> QED BY <2>5, <2>6
<1> QED BY <1>2, <1>3 DEF sip_redo, Retransmit, GiveUp

(* Steps of the clock and the link say nothing; a lost link forgets.        *)
LEMMA IdleHonest ==
    ASSUME Honest, UNCHANGED <<txn, timer, token, wire, said>>, chan' \subseteq chan
    PROVE  Honest'
BY DEF Honest, HonestClients, HonestReplies

(* Every step answers honestly. *)
LEMMA NextHonest ==
    ASSUME IInv, Honest, Spoken, [Next]_vars
    PROVE  Honest'
<1>1. ASSUME NEW b \in Branch, NEW n \in Net, ReceiveRequest(b, n) PROVE Honest'
  BY <1>1, ReceiveRequestHonest
<1>2. ASSUME NEW b \in Branch, ReceiveAck(b) PROVE Honest'
  <2>1. PICK t \in Oldest(b, "IST") : Delete({t}, txn, ses, chan)
    BY <1>2 DEF ReceiveAck
  <2>2. {t} \subseteq DOMAIN txn /\ UNCHANGED <<tid, wire, said>>
    BY <1>2 DEF ReceiveAck, Oldest, Matching
  <2> QED BY <2>1, <2>2, GoneHonest
<1>3. ASSUME NEW m \in chan, RouteReturns(m) PROVE Honest'
  <2>1. CASE ReturnReply(m)
    BY <2>1, ReturnReplyHonest
  <2>2. CASE ReturnRequest(m)
    <3>1. UNCHANGED said
      BY <2>2 DEF ReturnRequest
    <3> QED BY <2>2, <3>1, RefuseHonest, RelayHonest DEF ReturnRequest
  <2> QED BY <1>3, <2>1, <2>2 DEF RouteReturns
<1>4. ASSUME NEW b \in Branch \ Register, NEW status \in Said, ReceiveResponse(b, status)
      PROVE  Honest'
  BY <1>4, ReceiveResponseHonest
<1>5. ASSUME NEW t \in timer, sip_redo(t) PROVE Honest'
  BY <1>5, RedoHonest
<1>6. ASSUME NEW n \in Net, NEW T \in SUBSET entities[n], Delete(T, txn, ses, chan),
             UNCHANGED <<tid, wire, said>>
      PROVE  Honest'
  <2>1. T \subseteq DOMAIN txn
    BY <1>6 DEF IInv, Core, EntityMapExact
  <2> QED BY <1>6, <2>1, GoneHonest
<1>7. ASSUME NEW n \in Net, sip_timeout(n) PROVE Honest'
  BY <1>6, <1>7 DEF sip_timeout
<1>8. ASSUME NEW n \in Net, HangUp(n) PROVE Honest'
  BY <1>6, <1>8 DEF HangUp
<1>9. CASE Age \/ LinkReady \/ LinkLost
  BY <1>9, IdleHonest DEF Age, LinkReady, LinkLost
<1>10. CASE UNCHANGED vars
  BY <1>10, IdleHonest DEF vars
<1> QED BY <1>1, <1>2, <1>3, <1>4, <1>5, <1>7, <1>8, <1>9, <1>10 DEF Next

-----------------------------------------------------------------------------
(* Where the replies on the broker come from *)

(* The client transaction t is old, or its socket ends with all on it. *)
Cut(t) ==
    /\ UNCHANGED <<wire, said>>
    /\ \/ t <= aged
       \/ \A u \in DOMAIN txn \cap DOMAIN txn' :
             txn[u].net = txn[t].net => txn[u].state = "TERMINATED"

(* The reply m ends a client transaction: by a final response that came,   *)
(* in silence, or because the transaction was cut off.                     *)
Ended(m) ==
    \E t \in DOMAIN txn \ DOMAIN txn' :
        /\ Client(txn[t]) /\ txn[t].opaque = m.uuid[2] /\ txn[t].branch = m.branch
        /\ \/ m.status >= 200 /\ m.status \in said'[m.branch]
           \/ m.status = ReplyStatus(txn[t]) /\ (txn[t].last = None \/ Cut(t))

(* A callback puts no reply on the broker but a refusal and the end of a   *)
(* client transaction.                                                     *)
Explained(ch) ==
    \A m \in ch \ chan : m.status # None =>
        m.status \in {403, 410, 500} \/ Ended(m)

(* What Delete puts on the broker, message by message. *)
LEMMA DeleteReplies ==
    ASSUME Core, NEW T, NEW tx, NEW ss, NEW ch, Legal(tx, ss, ch), T \subseteq DOMAIN tx,
           Delete(T, tx, ss, ch), Explained(ch),
           \A t \in T : Client(tx[t]) =>
              \/ ReplyStatus(tx[t]) >= 200 /\ ReplyStatus(tx[t]) \in said'[tx[t].branch]
              \/ tx[t] = txn[t] /\ (txn[t].last = None \/ Cut(t))
    PROVE  Explained(chan')
<1>d. Deleted(T, tx, ss, ch)
  BY DeleteEffect
<1> SUFFICES ASSUME NEW m \in chan' \ chan, m.status # None, m \notin ch
             PROVE  Ended(m)
  BY DEF Explained
<1>1. PICK t \in T : /\ Client(tx[t])
                     /\ m = [uuid |-> <<"route", tx[t].opaque>>, branch |-> tx[t].branch,
                             copy |-> 0, status |-> ReplyStatus(tx[t])]
  BY <1>d DEF Deleted
<1>2. m.status = ReplyStatus(tx[t]) /\ m.uuid[2] = tx[t].opaque /\ m.branch = tx[t].branch
  BY <1>1
<1>3. t \in DOMAIN txn \ DOMAIN txn'
  BY <1>1, <1>d DEF Deleted, Legal, LegalTxn, Client
<1>4. Client(txn[t]) /\ txn[t].opaque = m.uuid[2] /\ txn[t].branch = m.branch
  BY <1>1, <1>2, <1>3 DEF Legal, LegalTxn, Client
<1>5. \/ m.status >= 200 /\ m.status \in said'[m.branch]
      \/ m.status = ReplyStatus(txn[t]) /\ (txn[t].last = None \/ Cut(t))
  BY <1>1, <1>2
<1> QED BY <1>3, <1>4, <1>5 DEF Ended

(* A status event puts no reply on the broker: it ends no client. *)
LEMMA SendStatusReplies ==
    ASSUME Core, NEW tx, NEW ss, NEW ch, Legal(tx, ss, ch), NEW t \in DOMAIN tx, ~Client(tx[t]),
           NEW status, SendStatus(t, status, tx, ss, ch), Explained(ch)
    PROVE  Explained(chan')
<1>1. CASE Delete({t}, tx, ss, ch)
  <2>1. {t} \subseteq DOMAIN tx
    OBVIOUS
  <2> QED BY <1>1, <2>1, DeleteReplies
<1>2. CASE chan' = ch
  BY <1>2
<1> QED BY <1>1, <1>2 DEF SendStatus, Keep

(* Neither the messages that are there nor a query are new replies. *)
LEMMA QueryNoReply ==
    ASSUME NEW t, NEW b, NEW ch, ch \subseteq chan \cup {Query(t, b)}
    PROVE  Explained(ch)
BY DEF Explained, Query, None

(* cmd_initiate puts a query on the broker, if anything. *)
LEMMA InitiateReplies ==
    ASSUME Core, NEW tx, Legal(tx, ses, chan), NEW t \in DOMAIN tx, ~Client(tx[t]),
           sends'[tx[t].branch] \in Nat, Initiate(t, tx)
    PROVE  Explained(chan')
<1> DEFINE b == tx[t].branch
           q == chan \cup {Query(t, b)}
<1>1. Legal(tx, SessionGet(t), q) /\ Legal(tx, SessionGet(t), chan)
  BY LegalQuery
<1>2. Explained(q) /\ Explained(chan)
  BY QueryNoReply
<1>3. CASE chan' = q
  BY <1>2, <1>3
<1>4. CASE SendStatus(t, 180, tx, SessionGet(t), q)
  BY <1>1, <1>2, <1>4, SendStatusReplies
<1>5. ASSUME NEW code, SendStatus(t, code, tx, ses, chan)
      PROVE  Explained(chan')
  BY <1>2, <1>5, SendStatusReplies
<1>6. ASSUME NEW code, SendStatus(t, code, tx, SessionGet(t), chan)
      PROVE  Explained(chan')
  BY <1>1, <1>2, <1>6, SendStatusReplies
<1> QED BY <1>3, <1>4, <1>5, <1>6 DEF Initiate, Keep

(* A request of a caller leads to no reply. *)
LEMMA ReceiveRequestReplies ==
    ASSUME Core, NEW b \in Branch, NEW n \in Net, ReceiveRequest(b, n),
           sends \in [Branch -> Nat]
    PROVE  Explained(chan')
<1>0. sends'[b] \in Nat /\ Explained(chan)
  BY QueryNoReply DEF ReceiveRequest
<1>1. CASE ReceiveNew(b, n)
  <2> DEFINE st == IF b \in Invite THEN "PROCEEDING" ELSE "TRYING"
             a  == NewTransaction(ServerKind(b), b, n, st, None)
             tx == With(tid + 1, a)
  <2>1. a \in Transaction /\ ~Client(a) /\ a.branch = b /\ a.state # "TERMINATED"
    BY DEF NewTransaction, Transaction, ServerKind, XIST, XICT, None, Client
  <2>2. tid' = tid + 1 /\ Initiate(tid + 1, tx)
    BY <1>1 DEF ReceiveNew
  <2>3. tid + 1 \in DOMAIN tx /\ tx[tid + 1] = a
    BY DEF With
  <2> HIDE DEF a
  <2>4. Legal(tx, ses, chan)
    BY <2>1, <2>2, NewLegal
  <2> HIDE DEF tx
  <2> QED BY <1>0, <2>1, <2>2, <2>3, <2>4, InitiateReplies
<1>2. ASSUME NEW t \in Oldest(b, ServerKind(b)), UNCHANGED tid,
             ReceiveInviteAgain(b, t) \/ ReceiveRequestAgain(t)
      PROVE  Explained(chan')
  <2>1. t \in DOMAIN txn /\ {t} \subseteq DOMAIN txn /\ ~Client(txn[t]) /\ txn[t].branch = b
    BY DEF Oldest, Matching, ServerKind, Client, XICT
  <2>2. Legal(txn, ses, chan)
    BY <1>2, LegalNow
  <2>3. Legal(txn, SessionGet(t), chan \cup {Query(t, b)}) /\ Legal(txn, SessionGet(t), chan)
    BY <1>0, <2>1, <2>2, LegalQuery
  <2>4. CASE Initiate(t, txn)
    BY <1>0, <2>1, <2>2, <2>4, InitiateReplies
  <2>5. ASSUME NEW ch \in {chan, chan \cup {Query(t, b)}}, NEW ss \in {ses, SessionGet(t)},
               Legal(txn, ss, ch), Delete({t}, txn, ss, ch)
        PROVE  Explained(chan')
    <3>1. Explained(ch)
      BY QueryNoReply
    <3> QED BY <2>1, <2>5, <3>1, DeleteReplies
  <2>6. CASE chan' \in {chan, chan \cup {Query(t, b)}}
    BY <2>6, QueryNoReply
  <2>7. CASE SendStatus(t, 501, txn, ses, chan)
    BY <1>0, <2>1, <2>2, <2>7, SendStatusReplies
  <2>8. CASE ReceiveInviteAgain(b, t)
    <3>1. ASSUME NEW ss \in {ses, SessionGet(t)}, NEW ch \in {chan, chan \cup {Query(t, b)}},
                 \/ ready /\ ss = SessionGet(t) /\ ch = chan \cup {Query(t, b)}
                 \/ ready /\ "convert" \in Adverse /\ ss = SessionGet(t) /\ ch = chan
                 \/ ~ready /\ ss = ses /\ ch = chan,
                 \/ Delete({t}, txn, ss, ch)
                 \/ Keep([txn EXCEPT ![t].retry = RetryBegun(txn[t])], timer \cup {t}, ss, ch)
          PROVE  Explained(chan')
      <4>1. Legal(txn, ss, ch)
        BY <2>2, <2>3, <3>1
      <4>2. CASE chan' = ch
        BY <2>6, <4>2
      <4> QED BY <2>5, <3>1, <4>1, <4>2 DEF Keep
    <3> QED BY <2>4, <2>8, <3>1 DEF ReceiveInviteAgain
  <2> QED BY <1>2, <2>6, <2>7, <2>8 DEF ReceiveRequestAgain, Keep
<1> QED BY <1>1, <1>2 DEF ReceiveRequest

(* What Route returns leads to no reply but a refusal. *)
LEMMA RouteReturnsReplies ==
    ASSUME Core, NEW m \in chan, RouteReturns(m)
    PROVE  Explained(chan')
<1> DEFINE ch == chan \ {m}
<1>1. ASSUME NEW u, NEW status, NEW b, QueryUuid(u, b, txn, ses), Finalize(u, status, ch),
             UNCHANGED tid
      PROVE  Explained(chan')
  <2>1. Legal(txn, ses, ch) /\ Explained(ch)
    BY <1>1, LegalNow DEF Explained
  <2>2. ASSUME SessionFind(u) \in DOMAIN txn, NEW code,
               SendStatus(SessionFind(u), code, txn, ses, ch)
        PROVE  Explained(chan')
    <3>1. ~Client(txn[SessionFind(u)])
      BY <1>1, <2>2, QueryFound
    <3> QED BY <2>1, <2>2, <3>1, SendStatusReplies
  <2>3. CASE chan' = ch
    BY <2>1, <2>3
  <2> QED BY <1>1, <2>2, <2>3 DEF Finalize, Keep
<1>2. CASE ReturnReply(m)
  <2>1. UNCHANGED tid
    BY <1>2 DEF ReturnReply
  <2>2. m.status = None => QueryUuid(m.uuid, m.branch, txn, ses)
    BY DEF Core, Traces, Traceable
  <2>3. m.status # None => QueryUuid(requests[m.uuid[2]], m.branch, txn, ses)
    BY ReplyFacts
  <2> QED BY <1>1, <1>2, <2>1, <2>2, <2>3 DEF ReturnReply
<1>3. CASE ReturnRequest(m)
  <2>1. ASSUME NEW x \in chan'
        PROVE  x \in chan \/ x.status \in {403, 410, 500}
    <3> DEFINE k == Len(requests) + 1
    <3>1. CASE Refuse(k, m)
      BY <3>1 DEF Refuse
    <3>2. ASSUME NEW n \in Net, Relay(k, m, n)
          PROVE  chan' = chan \ {m}
      <4>1. SessionFits([id |-> tid + 1, uuid |-> <<"route", k>>])
        BY SessionAlwaysFits
      <4> QED BY <3>2, <4>1 DEF Relay
    <3> HIDE DEF k
    <3> QED BY <1>3, <3>1, <3>2 DEF ReturnRequest, k
  <2> QED BY <2>1 DEF Explained
<1> QED BY <1>2, <1>3 DEF RouteReturns

(* A response of a callee ends a transaction only when it is final. *)
LEMMA ReceiveResponseReplies ==
    ASSUME Core, Honest, NEW b \in Branch \ Register, NEW status \in Said,
           ReceiveResponse(b, status), said \in [Branch -> SUBSET Said]
    PROVE  Explained(chan')
<1>1. /\ UNCHANGED tid /\ status \in Status /\ Explained(chan)
      /\ status \in said'[b]
  BY GatewayAssumption, QueryNoReply DEF ReceiveResponse, Status
<1>2. PICK t \in Oldest(b, ClientKind(b)) : TakeStatus(t, status) \/ IgnoreStatus(t)
  BY DEF ReceiveResponse
<1>3. /\ t \in DOMAIN txn /\ {t} \subseteq DOMAIN txn /\ Client(txn[t])
      /\ Legal(txn, ses, chan) /\ \A i \in DOMAIN txn : txn[i] \in Transaction
      /\ txn[t].branch = b
  BY <1>1, LegalNow DEF Oldest, Matching, ClientKind, Client, XICT, Core, CoreTypes
<1>4. CASE TakeStatus(t, status)
  <2> DEFINE tx == [txn EXCEPT ![t].last = status, ![t].state = "PROCEEDING"]
  <2>1. tx[t] = [txn[t] EXCEPT !.last = status, !.state = "PROCEEDING"]
    BY <1>3
  <2>2. DOMAIN tx = DOMAIN txn /\ \A i \in DOMAIN txn : i # t => tx[i] = txn[i]
    OBVIOUS
  <2>3. /\ tx[t] \in Transaction
        /\ tx[t].kind = txn[t].kind /\ tx[t].branch = txn[t].branch
        /\ tx[t].net = txn[t].net /\ tx[t].opaque = txn[t].opaque
        /\ tx[t].state = "PROCEEDING" /\ tx[t].last = status
    BY <1>1, <1>3, <2>1 DEF Transaction
  <2>4. /\ txn[t].state # "TERMINATED"
        /\ \/ chan' = chan
           \/ status >= 200 /\ Delete({t}, tx, ses, chan)
    BY <1>1, <1>4 DEF TakeStatus, Keep, Status
  <2> HIDE DEF tx
  <2>5. Legal(tx, ses, chan)
    BY <1>3, <2>2, <2>3, <2>4, LegalProgress
  <2>6. CASE status >= 200 /\ Delete({t}, tx, ses, chan)
    <3>1. status # None /\ status \in said'[txn[t].branch]
      BY <1>1, <1>3, StatusIsSome
    <3>2. ReplyStatus(tx[t]) = status /\ status \in said'[tx[t].branch]
      BY <2>3, <3>1 DEF ReplyStatus
    <3>3. {t} \subseteq DOMAIN tx
      BY <1>3, <2>2
    <3> QED BY <1>1, <2>5, <2>6, <3>2, <3>3, DeleteReplies
  <2> QED BY <1>1, <2>4, <2>6
<1>5. CASE IgnoreStatus(t)
  <2>1. txn[t].state = "TERMINATED" /\ Delete({t}, txn, ses, chan)
    BY <1>5 DEF IgnoreStatus
  <2>2. txn[t].last = None
    BY <1>3, <2>1 DEF Honest, HonestClients, HonestClient
  <2> QED BY <1>1, <1>3, <2>1, <2>2, DeleteReplies
<1> QED BY <1>2, <1>4, <1>5

(* sip_redo gives up only on a callee that is silent. *)
LEMMA RedoReplies ==
    ASSUME Core, Honest, NEW t \in timer, sip_redo(t)
    PROVE  Explained(chan')
<1>1. UNCHANGED tid /\ t \in DOMAIN txn /\ {t} \subseteq DOMAIN txn /\ Explained(chan)
  BY QueryNoReply DEF sip_redo, Core, CoreTypes
<1>2. Legal(txn, ses, chan)
  BY <1>1, LegalNow
<1>3. CASE Delete({t}, txn, ses, chan)
  <2>1. Client(txn[t]) => txn[t].last = None
    BY <1>1 DEF Honest, HonestClients, HonestClient
  <2> QED BY <1>1, <1>2, <1>3, <2>1, DeleteReplies
<1>4. CASE chan' = chan
  BY <1>1, <1>4
<1> QED BY <1>3, <1>4 DEF sip_redo, Retransmit, GiveUp, Keep

(* A sweep cuts off what is old, the end of a socket what is on it. *)
LEMMA SweepReplies ==
    ASSUME Core, NEW n \in Net, NEW T \in SUBSET entities[n], Delete(T, txn, ses, chan),
           UNCHANGED <<tid, wire, said>>, T = entities[n] \/ \A t \in T : t <= aged
    PROVE  Explained(chan')
<1>1. T \subseteq DOMAIN txn /\ \A t \in T : txn[t].net = n
  BY DEF Core, EntityMapExact
<1>2. Legal(txn, ses, chan) /\ Explained(chan)
  BY LegalNow, QueryNoReply
<1>3. DOMAIN txn' = DOMAIN txn \ T
  BY <1>1, <1>2, DeleteEffect DEF Deleted
<1>4. ASSUME NEW t \in T
      PROVE  Cut(t)
  <2>1. CASE T = entities[n]
    BY <1>1, <1>3, <2>1 DEF Cut, Core, EntityMapExact
  <2>2. CASE t <= aged
    BY <2>2 DEF Cut
  <2> QED BY <2>1, <2>2
<1> QED BY <1>1, <1>2, <1>4, DeleteReplies

(* No step puts a reply on the broker that stands for nothing. *)
LEMMA NextReplies ==
    ASSUME IInv, Honest, [Next]_vars
    PROVE  Explained(chan')
<1>0. /\ Core /\ sends \in [Branch -> Nat] /\ Explained(chan)
      /\ said \in [Branch -> SUBSET Said]
  BY QueryNoReply DEF IInv, Rest
<1>1. ASSUME NEW b \in Branch, NEW n \in Net, ReceiveRequest(b, n)
      PROVE  Explained(chan')
  BY <1>0, <1>1, ReceiveRequestReplies
<1>2. ASSUME NEW b \in Branch, ReceiveAck(b)
      PROVE  Explained(chan')
  <2>1. PICK t \in Oldest(b, "IST") : Delete({t}, txn, ses, chan)
    BY <1>2 DEF ReceiveAck
  <2>2. {t} \subseteq DOMAIN txn /\ ~Client(txn[t]) /\ UNCHANGED tid
    BY <1>2 DEF ReceiveAck, Oldest, Matching, Client, XICT
  <2>3. Legal(txn, ses, chan)
    BY <1>0, <2>2, LegalNow
  <2> QED BY <1>0, <2>1, <2>2, <2>3, DeleteReplies
<1>3. ASSUME NEW m \in chan, RouteReturns(m)
      PROVE  Explained(chan')
  BY <1>0, <1>3, RouteReturnsReplies
<1>4. ASSUME NEW b \in Branch \ Register, NEW status \in Said, ReceiveResponse(b, status)
      PROVE  Explained(chan')
  BY <1>0, <1>4, ReceiveResponseReplies
<1>5. ASSUME NEW t \in timer, sip_redo(t)
      PROVE  Explained(chan')
  BY <1>0, <1>5, RedoReplies
<1>6. ASSUME NEW n \in Net, sip_timeout(n)
      PROVE  Explained(chan')
  <2> DEFINE old == {t \in entities[n] : t <= aged}
  <2>1. old \in SUBSET entities[n] /\ \A t \in old : t <= aged
    OBVIOUS
  <2>2. Delete(old, txn, ses, chan) /\ UNCHANGED <<tid, wire, said>>
    BY <1>6 DEF sip_timeout
  <2> HIDE DEF old
  <2> QED BY <1>0, <2>1, <2>2, SweepReplies
<1>7. ASSUME NEW n \in Net, HangUp(n)
      PROVE  Explained(chan')
  <2>1. entities[n] \in SUBSET entities[n]
    OBVIOUS
  <2> QED BY <1>0, <1>7, <2>1, SweepReplies DEF HangUp
<1>8. CASE Age \/ LinkReady \/ LinkLost \/ UNCHANGED vars
  <2>1. chan' \subseteq chan
    BY <1>8 DEF Age, LinkReady, LinkLost, vars
  <2> QED BY <2>1 DEF Explained
<1> QED BY <1>1, <1>2, <1>3, <1>4, <1>5, <1>6, <1>7, <1>8 DEF Next

-----------------------------------------------------------------------------
(* What rings, and what callees speak of *)

(* A request other than INVITE that rings, rings because its callee said so. *)
Rung(tx, sd) ==
    \A t \in DOMAIN tx : tx[t].kind = "NIST" /\ tx[t].state = "PROCEEDING" =>
        \E d \in sd[tx[t].branch] : d < 200

(* The two ways a callback ends invent no ringing. *)
LEMMA EndRung ==
    ASSUME NEW tx, Rung(tx, said'), NEW ss, NEW ch,
           \/ \E armed : Keep(tx, armed, ss, ch)
           \/ \E T : Delete(T, tx, ss, ch)
    PROVE  Rung(txn', said')
<1>1. ASSUME NEW armed, Keep(tx, armed, ss, ch)
      PROVE  Rung(txn', said')
  BY <1>1 DEF Keep
<1>2. ASSUME NEW T, Delete(T, tx, ss, ch)
      PROVE  Rung(txn', said')
  <2>1. /\ DOMAIN txn' \subseteq DOMAIN tx
        /\ \A t \in DOMAIN txn' : txn'[t] = tx[t]
    BY <1>2 DEF Delete
  <2> QED BY <2>1 DEF Rung
<1> QED BY <1>1, <1>2

(* One transaction changes; if it rings now, its callee said so. *)
LEMMA OneRung ==
    ASSUME NEW tx, NEW ty, NEW t, NEW sd, Rung(tx, sd), DOMAIN ty = DOMAIN tx,
           \A i \in DOMAIN tx : i # t => ty[i] = tx[i],
           t \in DOMAIN tx /\ ty[t].kind = "NIST" /\ ty[t].state = "PROCEEDING" =>
              \E d \in sd[ty[t].branch] : d < 200
    PROVE  Rung(ty, sd)
BY DEF Rung

(* A status event rings with a status the callee said. *)
LEMMA SendStatusRung ==
    ASSUME NEW tx, NEW ss, NEW ch, NEW t \in DOMAIN tx, tx[t] \in Transaction,
           NEW status, SendStatus(t, status, tx, ss, ch), UNCHANGED said, Rung(tx, said),
           tx[t].kind = "NIST" /\ status < 200 => status \in said[tx[t].branch]
    PROVE  Rung(txn', said')
<1> DEFINE ringing == [tx EXCEPT ![t].state = "PROCEEDING", ![t].last = status]
           failed  == [tx EXCEPT ![t].state = "COMPLETED", ![t].last = status,
                                 ![t].retry = RetryBegun(tx[t])]
<1>1. CASE Delete({t}, tx, ss, ch)
  BY <1>1, EndRung
<1>2. CASE status < 200 /\ Keep(ringing, timer, ss, ch)
  <2>1. /\ DOMAIN ringing = DOMAIN tx /\ \A i \in DOMAIN tx : i # t => ringing[i] = tx[i]
        /\ ringing[t].kind = tx[t].kind /\ ringing[t].branch = tx[t].branch
    BY DEF Transaction
  <2> HIDE DEF ringing
  <2>2. Rung(ringing, said')
    BY <1>2, <2>1, OneRung
  <2> QED BY <1>2, <2>2, EndRung
<1>3. CASE Keep(failed, timer \cup {t}, ss, ch)
  <2>1. /\ DOMAIN failed = DOMAIN tx /\ \A i \in DOMAIN tx : i # t => failed[i] = tx[i]
        /\ failed[t].state = "COMPLETED"
    BY DEF Transaction
  <2> HIDE DEF failed
  <2>2. Rung(failed, said')
    BY <2>1, OneRung
  <2> QED BY <1>3, <2>2, EndRung
<1> QED BY <1>1, <1>2, <1>3 DEF SendStatus

(* Only an INVITE rings when cmd_initiate has published it. *)
LEMMA InitiateRung ==
    ASSUME NEW tx, NEW t \in DOMAIN tx, tx[t] \in Transaction,
           tx[t].kind = ServerKind(tx[t].branch), Initiate(t, tx), UNCHANGED said, Rung(tx, said)
    PROVE  Rung(txn', said')
<1>1. ASSUME NEW status, NEW ss, NEW ch, SendStatus(t, status, tx, ss, ch),
             (status >= 200 /\ status \in Nat) \/ tx[t].branch \in Invite
      PROVE  Rung(txn', said')
  <2>1. ~ (tx[t].kind = "NIST" /\ status < 200)
    BY <1>1 DEF ServerKind
  <2> QED BY <1>1, <2>1, SendStatusRung
<1>2. ASSUME NEW ss, NEW ch, Keep(tx, timer, ss, ch)
      PROVE  Rung(txn', said')
  BY <1>2, EndRung
<1>3. 500 >= 200 /\ 503 >= 200 /\ 500 \in Nat /\ 503 \in Nat
  OBVIOUS
<1> QED BY <1>1, <1>2, <1>3 DEF Initiate

(* sip_execute on a request. *)
LEMMA ReceiveRequestRung ==
    ASSUME IInv, Rung(txn, said), NEW b \in Branch, NEW n \in Net, ReceiveRequest(b, n)
    PROVE  Rung(txn', said')
<1>0. /\ UNCHANGED said /\ tid + 1 \notin DOMAIN txn
      /\ \A t \in DOMAIN txn : txn[t] \in Transaction
  BY DEF ReceiveRequest, IInv, Core, CoreTypes
<1>1. CASE ReceiveNew(b, n)
  <2> DEFINE st == IF b \in Invite THEN "PROCEEDING" ELSE "TRYING"
             a  == NewTransaction(ServerKind(b), b, n, st, None)
             tx == With(tid + 1, a)
  <2>1. /\ a \in Transaction /\ a.branch = b /\ a.kind = ServerKind(b)
        /\ ~(a.kind = "NIST" /\ a.state = "PROCEEDING")
    BY DEF NewTransaction, Transaction, ServerKind, XIST, XICT, None
  <2>2. Initiate(tid + 1, tx)
    BY <1>1 DEF ReceiveNew
  <2>3. /\ DOMAIN tx = DOMAIN txn \cup {tid + 1} /\ tx[tid + 1] = a
        /\ \A i \in DOMAIN txn : tx[i] = txn[i]
    BY <1>0 DEF With
  <2> HIDE DEF a, tx
  <2>4. Rung(tx, said)
    BY <2>1, <2>3 DEF Rung
  <2> QED BY <1>0, <2>1, <2>2, <2>3, <2>4, InitiateRung
<1>2. ASSUME NEW t \in Oldest(b, ServerKind(b)),
             ReceiveInviteAgain(b, t) \/ ReceiveRequestAgain(t)
      PROVE  Rung(txn', said')
  <2> DEFINE ty == [txn EXCEPT ![t].retry = RetryBegun(txn[t])]
  <2>1. /\ t \in DOMAIN txn /\ txn[t] \in Transaction
        /\ txn[t].branch = b /\ txn[t].kind = ServerKind(b)
    BY <1>0 DEF Oldest, Matching
  <2>2. CASE Initiate(t, txn)
    BY <1>0, <2>1, <2>2, InitiateRung
  <2>3. Rung(ty, said)
    <3>1. /\ DOMAIN ty = DOMAIN txn /\ \A i \in DOMAIN txn : i # t => ty[i] = txn[i]
          /\ ty[t].kind = txn[t].kind /\ ty[t].branch = txn[t].branch
          /\ ty[t].state = txn[t].state
      BY <2>1 DEF Transaction
    <3>2. txn[t].kind = "NIST" /\ txn[t].state = "PROCEEDING" =>
             \E d \in said[txn[t].branch] : d < 200
      BY <2>1 DEF Rung
    <3> HIDE DEF ty
    <3> QED BY <3>1, <3>2, OneRung
  <2>4. CASE SendStatus(t, 501, txn, ses, chan)
    BY <1>0, <2>1, <2>4, SendStatusRung
  <2>5. ASSUME NEW ss, NEW ch,
               \/ Delete({t}, txn, ss, ch)
               \/ Keep(txn, timer, ss, ch)
               \/ Keep(ty, timer \cup {t}, ss, ch)
        PROVE  Rung(txn', said')
    <3> HIDE DEF ty
    <3> QED BY <1>0, <2>3, <2>5, EndRung
  <2> QED BY <1>2, <2>2, <2>4, <2>5 DEF ReceiveInviteAgain, ReceiveRequestAgain
<1> QED BY <1>1, <1>2 DEF ReceiveRequest

(* What Route returns. *)
LEMMA RouteReturnsRung ==
    ASSUME IInv, Honest, Rung(txn, said), NEW m \in chan, RouteReturns(m)
    PROVE  Rung(txn', said')
<1>0. Core /\ m \in Message /\ \A t \in DOMAIN txn : txn[t] \in Transaction
  BY DEF IInv, Core, CoreTypes
<1>1. ASSUME NEW u, NEW status, QueryUuid(u, m.branch, txn, ses),
             Finalize(u, status, chan \ {m}), UNCHANGED said,
             status < 200 => status \in said[m.branch]
      PROVE  Rung(txn', said')
  <2> DEFINE t  == SessionFind(u)
             ch == chan \ {m}
  <2>1. t \in DOMAIN txn => txn[t].branch = m.branch
    BY <1>0, <1>1, QueryFound
  <2> HIDE DEF t
  <2>2. CASE t \in DOMAIN txn /\ SendStatus(t, status, txn, ses, ch)
    BY <1>0, <1>1, <2>1, <2>2, SendStatusRung
  <2>3. CASE t \in DOMAIN txn /\ SendStatus(t, 500, txn, ses, ch)
    BY <1>0, <1>1, <2>1, <2>3, SendStatusRung
  <2>4. CASE Keep(txn, timer, ses, ch)
    BY <1>1, <2>4, EndRung
  <2> QED BY <1>1, <2>2, <2>3, <2>4 DEF Finalize, t
<1>2. CASE ReturnReply(m)
  <2>1. UNCHANGED said
    BY <1>2 DEF ReturnReply
  <2>2. ASSUME NEW code \in {200, 403}, m.status = None, Finalize(m.uuid, code, chan \ {m})
        PROVE  Rung(txn', said')
    <3>1. QueryUuid(m.uuid, m.branch, txn, ses) /\ ~ (code < 200)
      BY <1>0, <2>2 DEF Core, Traces, Traceable
    <3> QED BY <1>1, <2>1, <2>2, <3>1
  <2>3. CASE m.status # None /\ Finalize(requests[m.uuid[2]], m.status, chan \ {m})
    <3>1. QueryUuid(requests[m.uuid[2]], m.branch, txn, ses)
      BY <1>0, <2>3, ReplyFacts
    <3>2. HonestStatus(m.status, m.branch, wire[m.uuid[2]], said)
      BY <2>3 DEF Honest, HonestReplies, HonestReply
    <3>3. m.status < 200 => m.status \in said[m.branch]
      BY <3>2 DEF HonestStatus
    <3> QED BY <1>1, <2>1, <2>3, <3>1, <3>3
  <2> QED BY <1>2, <2>2, <2>3 DEF ReturnReply
<1>3. CASE ReturnRequest(m)
  <2>1. UNCHANGED said
    BY <1>3 DEF ReturnRequest
  <2>2. CASE UNCHANGED txn
    BY <2>1, <2>2
  <2>3. ASSUME NEW n \in Net, Relay(Len(requests) + 1, m, n)
        PROVE  Rung(txn', said')
    <3> DEFINE b    == m.branch
               k    == Len(requests) + 1
               new  == NewTransaction(ClientKind(b), b, n,
                           IF b \in Invite THEN "CALLING" ELSE "TRYING", k)
               sent == [new EXCEPT !.retry =
                           IF b \in Retransmitted THEN RetryBegun(new) ELSE @]
               dead == [new EXCEPT !.state = "TERMINATED"]
    <3>1. txn' = With(tid + 1, sent) \/ txn' = With(tid + 1, dead)
      BY <2>3 DEF Relay
    <3>2. new.kind # "NIST" /\ "kind" \in DOMAIN new
      BY DEF NewTransaction, ClientKind
    <3> HIDE DEF new
    <3>3. sent.kind # "NIST" /\ dead.kind # "NIST"
      BY <3>2
    <3> HIDE DEF sent, dead
    <3>4. ASSUME NEW a, txn' = With(tid + 1, a), a.kind # "NIST"
          PROVE  Rung(txn', said')
      BY <2>1, <3>4 DEF With, Rung
    <3> QED BY <3>1, <3>3, <3>4
  <2> QED BY <1>3, <2>2, <2>3 DEF ReturnRequest, Refuse
<1> QED BY <1>2, <1>3 DEF RouteReturns

(* A response concerns a client transaction. *)
LEMMA ReceiveResponseRung ==
    ASSUME IInv, Rung(txn, said), NEW b \in Branch \ Register, NEW status \in Said,
           ReceiveResponse(b, status)
    PROVE  Rung(txn', said')
<1>1. PICK t \in Oldest(b, ClientKind(b)) : TakeStatus(t, status) \/ IgnoreStatus(t)
  BY DEF ReceiveResponse
<1> DEFINE tx == [txn EXCEPT ![t].last = status, ![t].state = "PROCEEDING"]
<1>2. /\ t \in DOMAIN txn /\ txn[t].kind # "NIST"
      /\ \A i \in DOMAIN txn : txn[i] \in Transaction
  BY DEF Oldest, Matching, ClientKind, IInv, Core, CoreTypes
<1>3. SaidGrows
  BY DEF ReceiveResponse, SaidGrows, IInv, Rest
<1>4. Rung(txn, said')
  BY <1>2, <1>3 DEF Rung, SaidGrows, Transaction
<1>5. Rung(tx, said')
  <2>1. /\ DOMAIN tx = DOMAIN txn /\ \A i \in DOMAIN txn : i # t => tx[i] = txn[i]
        /\ tx[t].kind = txn[t].kind
    BY <1>2 DEF Transaction
  <2> HIDE DEF tx
  <2> QED BY <1>2, <1>4, <2>1, OneRung
<1>6. ASSUME NEW armed, Keep(tx, armed, ses, chan)
      PROVE  Rung(txn', said')
  <2> HIDE DEF tx
  <2> QED BY <1>5, <1>6, EndRung
<1>7. CASE Delete({t}, tx, ses, chan)
  <2> HIDE DEF tx
  <2> QED BY <1>5, <1>7, EndRung
<1>8. CASE Delete({t}, txn, ses, chan)
  BY <1>4, <1>8, EndRung
<1> QED BY <1>1, <1>6, <1>7, <1>8 DEF TakeStatus, IgnoreStatus

(* No step makes a request ring that its callee did not. *)
LEMMA NextRung ==
    ASSUME IInv, Honest, Rung(txn, said), [Next]_vars
    PROVE  Rung(txn, said)'
<1>0. Rung(txn, said)' <=> Rung(txn', said')
  BY DEF Rung
<1>1. ASSUME NEW b \in Branch, NEW n \in Net, ReceiveRequest(b, n)
      PROVE  Rung(txn', said')
  BY <1>1, ReceiveRequestRung
<1>2. ASSUME NEW T, UNCHANGED said, Delete(T, txn, ses, chan)
      PROVE  Rung(txn', said')
  BY <1>2, EndRung
<1>3. ASSUME NEW b \in Branch, ReceiveAck(b)
      PROVE  Rung(txn', said')
  BY <1>2, <1>3 DEF ReceiveAck
<1>4. ASSUME NEW m \in chan, RouteReturns(m)
      PROVE  Rung(txn', said')
  BY <1>4, RouteReturnsRung
<1>5. ASSUME NEW b \in Branch \ Register, NEW status \in Said, ReceiveResponse(b, status)
      PROVE  Rung(txn', said')
  BY <1>5, ReceiveResponseRung
<1>6. ASSUME NEW t \in timer, sip_redo(t)
      PROVE  Rung(txn', said')
  <2> DEFINE tx == [txn EXCEPT ![t].retry = @ + 1]
  <2>1. UNCHANGED said /\ t \in DOMAIN txn /\ txn[t] \in Transaction
    BY <1>6 DEF sip_redo, IInv, Core, CoreTypes
  <2>2. Rung(tx, said)
    <3>1. /\ DOMAIN tx = DOMAIN txn /\ \A i \in DOMAIN txn : i # t => tx[i] = txn[i]
          /\ tx[t].kind = txn[t].kind /\ tx[t].branch = txn[t].branch
          /\ tx[t].state = txn[t].state
      BY <2>1 DEF Transaction
    <3>2. txn[t].kind = "NIST" /\ txn[t].state = "PROCEEDING" =>
             \E d \in said[txn[t].branch] : d < 200
      BY <2>1 DEF Rung
    <3> HIDE DEF tx
    <3> QED BY <3>1, <3>2, OneRung
  <2>3. CASE Keep(tx, timer, ses, chan)
    <3> HIDE DEF tx
    <3> QED BY <2>1, <2>2, <2>3, EndRung
  <2> QED BY <1>2, <1>6, <2>1, <2>3 DEF sip_redo, Retransmit, GiveUp
<1>7. ASSUME NEW n \in Net, sip_timeout(n) \/ HangUp(n)
      PROVE  Rung(txn', said')
  BY <1>2, <1>7 DEF sip_timeout, HangUp
<1>8. CASE Age \/ LinkReady \/ LinkLost \/ UNCHANGED vars
  BY <1>8 DEF Age, LinkReady, LinkLost, vars
<1> QED BY <1>0, <1>1, <1>3, <1>4, <1>5, <1>6, <1>7, <1>8 DEF Next

(* The lines of the wire stay those of their branches. *)
LEMMA WireGrows ==
    ASSUME IInv, [Next]_vars
    PROVE  /\ Len(requests) \in Nat /\ Len(requests') \in Nat
           /\ Len(requests) <= Len(requests')
           /\ \A i \in 1..Len(requests) : wire'[i].branch = wire[i].branch
<1>0. /\ Len(requests) \in Nat /\ requests \in Seq(Uuid)
      /\ wire \in Seq(WireEntry) /\ DOMAIN wire = 1..Len(requests)
      /\ \A i \in DOMAIN wire : wire[i] \in WireEntry
  <2>1. requests \in Seq(Uuid) /\ wire \in Seq(WireEntry) /\ Len(wire) = Len(requests)
    BY DEF IInv, Core, CoreTypes
  <2> QED BY <2>1, SeqFacts
<1>1. CASE UNCHANGED <<requests, wire>>
  BY <1>0, <1>1
<1>2. ASSUME NEW m \in chan, ReturnRequest(m)
      PROVE  /\ Len(requests') = Len(requests) + 1
             /\ \A i \in 1..Len(requests) : wire'[i] = wire[i]
  <2>1. requests' = Append(requests, m.uuid) /\ m.uuid \in Uuid /\ m.branch \in Branch
    BY <1>2 DEF ReturnRequest, IInv, Core, CoreTypes, Message
  <2>2. \E x \in {0, 1} :
           wire' = Append(wire, [branch |-> m.branch, sent |-> x, heard |-> FALSE])
    BY <1>2 DEF ReturnRequest, Refuse, Relay
  <2>3. Len(wire) = Len(requests)
    BY DEF IInv, Core, CoreTypes
  <2>4. ASSUME NEW w \in WireEntry, wire' = Append(wire, w)
        PROVE  \A i \in 1..Len(requests) : wire'[i] = wire[i]
    BY <1>0, <2>3, <2>4, AppendFacts
  <2>5. \A x \in {0, 1} : [branch |-> m.branch, sent |-> x, heard |-> FALSE] \in WireEntry
    BY <2>1 DEF WireEntry
  <2> QED BY <1>0, <2>1, <2>2, <2>4, <2>5, AppendFacts
<1>3. ASSUME NEW b \in Branch \ Register, NEW status \in Said, ReceiveResponse(b, status)
      PROVE  UNCHANGED requests /\ \A i \in 1..Len(requests) : wire'[i].branch = wire[i].branch
  <2>1. UNCHANGED requests /\ (UNCHANGED wire \/ \E k : wire' = [wire EXCEPT ![k].heard = TRUE])
    BY <1>3 DEF ReceiveResponse, TakeStatus, IgnoreStatus
  <2> QED BY <1>0, <2>1 DEF WireEntry
<1>4. ASSUME NEW t \in timer, sip_redo(t)
      PROVE  UNCHANGED requests /\ \A i \in 1..Len(requests) : wire'[i].branch = wire[i].branch
  <2>1. UNCHANGED requests /\ (UNCHANGED wire \/ \E k : wire' = [wire EXCEPT ![k].sent = @ + 1])
    BY <1>4 DEF sip_redo, Retransmit, GiveUp
  <2> QED BY <1>0, <2>1 DEF WireEntry
<1>5. \/ UNCHANGED <<requests, wire>>
      \/ \E m \in chan : ReturnRequest(m)
      \/ \E b \in Branch \ Register, status \in Said : ReceiveResponse(b, status)
      \/ \E t \in timer : sip_redo(t)
  BY DEF Next, vars, ReceiveRequest, ReceiveAck, RouteReturns, ReturnReply, Age, sip_timeout,
         HangUp, LinkReady, LinkLost
<1>6. CASE \E m \in chan : ReturnRequest(m)
  BY <1>0, <1>2, <1>6
<1>7. CASE UNCHANGED requests /\ \A i \in 1..Len(requests) : wire'[i].branch = wire[i].branch
  BY <1>0, <1>7
<1> QED BY <1>1, <1>3, <1>4, <1>5, <1>6, <1>7

(* Callees only ever speak of what was relayed. *)
LEMMA NextSpoken ==
    ASSUME IInv, Spoken, [Next]_vars
    PROVE  Spoken'
<1> SUFFICES ASSUME NEW b \in Branch, said'[b] # {}
             PROVE  \E j \in 1..Len(requests') : wire'[j].branch = b
  BY DEF Spoken
<1>1. \E j \in 1..Len(requests) : wire[j].branch = b
  <2>1. CASE said[b] # {}
    BY <2>1 DEF Spoken
  <2>2. CASE said'[b] # said[b]
    <3>1. PICK c \in Branch \ Register, status \in Said : ReceiveResponse(c, status)
      BY <2>2 DEF Next, vars, ReceiveRequest, ReceiveAck, RouteReturns, ReturnReply,
             ReturnRequest, Age, sip_redo, sip_timeout, HangUp, LinkReady, LinkLost
    <3>2. c = b
      BY <2>2, <3>1 DEF ReceiveResponse, IInv, Rest
    <3>3. DOMAIN wire = 1..Len(requests)
      <4>1. wire \in Seq(WireEntry) /\ Len(wire) = Len(requests)
        BY DEF IInv, Core, CoreTypes
      <4> QED BY <4>1, SeqFacts
    <3> QED BY <3>1, <3>2, <3>3 DEF ReceiveResponse
  <2> QED BY <2>1, <2>2
<1>2. PICK j \in 1..Len(requests) : wire[j].branch = b
  BY <1>1
<1>3. j \in 1..Len(requests') /\ wire'[j].branch = b
  BY <1>2, WireGrows
<1> QED BY <1>3


-----------------------------------------------------------------------------
(* What callers are told *)

(* The end of a server transaction puts nothing on the broker. *)
LEMMA DeleteServer ==
    ASSUME NEW t, NEW tx, NEW ss, NEW ch, ~Client(tx[t]), Delete({t}, tx, ss, ch)
    PROVE  chan' = ch
BY DEF Delete

(* A new final code of b was sent by a server transaction of b. *)
LEMMA SendFinal ==
    ASSUME NEW tx, NEW t, ~Client(tx[t]), NEW ss, NEW ch, NEW status,
           SendStatus(t, status, tx, ss, ch), final \in [Branch -> SUBSET Status],
           NEW b \in Branch, NEW c \in final'[b] \ final[b]
    PROVE  c = status /\ b = tx[t].branch /\ chan' = ch /\ status >= 200
<1>1. final' = [final EXCEPT ![tx[t].branch] = @ \cup {status}] /\ status >= 200
  BY DEF SendStatus
<1>2. chan' = ch
  BY DeleteServer DEF SendStatus, Keep
<1> QED BY <1>1, <1>2

(* A caller cmd_initiate answers at once is told why: there is no link, or *)
(* the request cannot be converted.                                        *)
LEMMA InitiateEarned ==
    ASSUME NEW tx, NEW t, ~Client(tx[t]), Initiate(t, tx),
           sends'[tx[t].branch] = sends[tx[t].branch] + 1,
           final \in [Branch -> SUBSET Status],
           NEW b \in Branch, NEW c \in final'[b] \ final[b]
    PROVE  Happens(b, c)
<1>1. ~ \E ss, ch : SendStatus(t, 180, tx, ss, ch)
  <2>1. ~(180 >= 200)
    OBVIOUS
  <2> QED BY <2>1, SendFinal
<1>2. CASE ~ready /\ SendStatus(t, 503, tx, ses, chan)
  BY <1>2, SendFinal DEF Happens
<1>3. CASE ready /\ "convert" \in Adverse
           /\ \E code \in {500, 503} : SendStatus(t, code, tx, SessionGet(t), chan)
  BY <1>3, SendFinal DEF Happens
<1> QED BY <1>1, <1>2, <1>3 DEF Initiate

(* sip_execute on a request. *)
LEMMA ReceiveRequestEarned ==
    ASSUME IInv, Rung(txn, said), NEW a \in Branch, NEW n \in Net, ReceiveRequest(a, n),
           NEW b \in Branch, NEW c \in final'[b] \ final[b]
    PROVE  Happens(b, c)
<1>1. /\ sends'[a] = sends[a] + 1 /\ final \in [Branch -> SUBSET Status]
      /\ \A t \in DOMAIN txn : txn[t] \in Transaction
  BY DEF ReceiveRequest, IInv, Rest, Core, CoreTypes
<1>2. CASE ReceiveNew(a, n)
  <2> DEFINE st == IF a \in Invite THEN "PROCEEDING" ELSE "TRYING"
             x  == NewTransaction(ServerKind(a), a, n, st, None)
             tx == With(tid + 1, x)
  <2>1. Initiate(tid + 1, tx)
    BY <1>2 DEF ReceiveNew
  <2>2. tx[tid + 1].branch = a /\ ~Client(tx[tid + 1])
    BY DEF With, NewTransaction, ServerKind, Client, XICT
  <2> HIDE DEF tx
  <2> QED BY <1>1, <2>1, <2>2, InitiateEarned
<1>3. ASSUME NEW t \in Oldest(a, ServerKind(a)),
             \/ a \in Invite /\ ReceiveInviteAgain(a, t)
             \/ a \notin Invite /\ ReceiveRequestAgain(t)
      PROVE  Happens(b, c)
  <2>1. /\ t \in DOMAIN txn /\ ~Client(txn[t]) /\ txn[t].branch = a
        /\ txn[t].kind = ServerKind(a)
    BY DEF Oldest, Matching, ServerKind, Client, XICT
  <2>2. CASE Initiate(t, txn)
    BY <1>1, <2>1, <2>2, InitiateEarned
  <2>3. CASE /\ a \notin Invite /\ txn[t].state = "PROCEEDING"
             /\ SendStatus(t, 501, txn, ses, chan)
    <3>1. c = 501 /\ b = a
      BY <1>1, <2>1, <2>3, SendFinal
    <3>2. \E d \in said[a] : d < 200
      BY <2>1, <2>3 DEF Rung, ServerKind
    <3> QED BY <1>1, <2>3, <3>1, <3>2 DEF Happens
  <2> QED BY <1>3, <2>2, <2>3 DEF ReceiveInviteAgain, ReceiveRequestAgain
<1> QED BY <1>2, <1>3 DEF ReceiveRequest

(* A reply that Route returns says what happened, or fails to convert. *)
LEMMA ReturnReplyEarned ==
    ASSUME IInv, Honest, NEW m \in chan, ReturnReply(m),
           NEW b \in Branch, NEW c \in final'[b] \ final[b]
    PROVE  Happened(b, c) \/ Happens(b, c)
<1>0. Core /\ final \in [Branch -> SUBSET Status]
  BY DEF IInv, Rest
<1>1. ASSUME NEW u, NEW status, QueryUuid(u, m.branch, txn, ses),
             Finalize(u, status, chan \ {m})
      PROVE  /\ b = m.branch /\ m \in chan \ chan'
             /\ c = status \/ (c = 500 /\ "convert" \in Adverse)
  <2> DEFINE t == SessionFind(u)
  <2>1. t \in DOMAIN txn => txn[t].branch = m.branch
    BY <1>0, <1>1, QueryFound
  <2>2. \E code : /\ t \in DOMAIN txn /\ ~Client(txn[t])
                  /\ SendStatus(t, code, txn, ses, chan \ {m})
                  /\ code = status \/ (code = 500 /\ "convert" \in Adverse)
    BY <1>1 DEF Finalize
  <2> HIDE DEF t
  <2> QED BY <1>0, <2>1, <2>2, SendFinal
<1>2. ASSUME m.status = None, m.branch \in Register, NEW code \in {200, 403},
             Finalize(m.uuid, code, chan \ {m})
      PROVE  Happens(b, c)
  <2>1. QueryUuid(m.uuid, m.branch, txn, ses)
    BY <1>0, <1>2 DEF Core, Traces, Traceable
  <2> QED BY <1>1, <1>2, <2>1 DEF Happens
<1>3. ASSUME m.status # None, Finalize(requests[m.uuid[2]], m.status, chan \ {m})
      PROVE  Happened(b, c) \/ Happens(b, c)
  <2> DEFINE k == m.uuid[2]
  <2>1. k \in 1..Len(requests) /\ QueryUuid(requests[k], m.branch, txn, ses)
    BY <1>0, <1>3, ReplyFacts
  <2>2. token \in Seq([port : Nat, uses : Nat]) /\ Len(token) = Len(requests)
    BY <1>0 DEF Core, CoreTypes
  <2>3. k \in DOMAIN token
    BY <2>1, <2>2, SeqFacts
  <2>4. HonestReply(m, token, wire, said)
    BY <1>3 DEF Honest, HonestReplies
  <2>5. /\ b = m.branch /\ m \in chan \ chan'
        /\ c = m.status \/ (c = 500 /\ "convert" \in Adverse)
    BY <1>1, <1>3, <2>1
  <2>6. CASE c = m.status
    <3>1. token[k].uses # 0 /\ HonestStatus(c, b, wire[k], said)
      BY <2>4, <2>5, <2>6 DEF HonestReply
    <3> HIDE DEF k
    <3>2. Happened(b, c)
      BY <2>3, <3>1 DEF HonestStatus, Happened, Unheard
    <3> QED BY <3>2
  <2>7. CASE c = 500 /\ "convert" \in Adverse
    BY <1>3, <2>5, <2>7 DEF Happens
  <2> QED BY <2>5, <2>6, <2>7
<1> QED BY <1>2, <1>3 DEF ReturnReply

(* No step tells a caller what did not happen. *)
LEMMA NextEarned ==
    ASSUME IInv, Honest, Rung(txn, said), [Next]_vars,
           NEW b \in Branch, NEW c \in final'[b] \ final[b]
    PROVE  Happened(b, c) \/ Happens(b, c)
<1>1. ASSUME NEW a \in Branch, NEW n \in Net, ReceiveRequest(a, n)
      PROVE  Happens(b, c)
  BY <1>1, ReceiveRequestEarned
<1>2. ASSUME NEW m \in chan, RouteReturns(m)
      PROVE  Happened(b, c) \/ Happens(b, c)
  <2>1. ReturnReply(m)
    BY <1>2 DEF RouteReturns, ReturnRequest
  <2> QED BY <2>1, ReturnReplyEarned
<1>3. CASE UNCHANGED final
  BY <1>3
<1> QED BY <1>1, <1>2, <1>3
        DEF Next, vars, ReceiveAck, ReceiveResponse, Age, sip_redo, sip_timeout, HangUp,
            LinkReady, LinkLost

-----------------------------------------------------------------------------
(* Theorems *)

(* What the state says of the callees is true throughout: replies on their *)
(* way, last responses, retransmission counters and what rings.            *)
THEOREM Honesty == Spec => [](IInv /\ Honest /\ Spoken /\ Rung(txn, said))
<1>1. Init => IInv /\ Honest /\ Spoken /\ Rung(txn, said)
  <2> SUFFICES ASSUME Init PROVE Honest /\ Spoken /\ Rung(txn, said)
    BY InitIInv
  <2>1. DOMAIN txn = {} /\ chan = {}
    BY DEF Init
  <2>2. \A b \in Branch : said[b] = {}
    BY DEF Init
  <2> QED BY <2>1, <2>2 DEF Honest, HonestClients, HonestReplies, Spoken, Rung
<1>2. IInv /\ Honest /\ Spoken /\ Rung(txn, said) /\ [Next]_vars =>
         IInv' /\ Honest' /\ Spoken' /\ Rung(txn, said)'
  BY NextCore, NextRest, NextHonest, NextSpoken, NextRung DEF IInv, Rest
<1> QED BY <1>1, <1>2, PTL DEF Spec

(* No callback forgets what a callee said. *)
LEMMA NextSaid ==
    ASSUME IInv, [Next]_vars
    PROVE  SaidGrows
<1>1. CASE UNCHANGED said
  BY <1>1 DEF SaidGrows
<1>2. ASSUME NEW b \in Branch \ Register, NEW status \in Said, ReceiveResponse(b, status)
      PROVE  SaidGrows
  BY <1>2 DEF ReceiveResponse, SaidGrows, IInv, Rest
<1> QED BY <1>1, <1>2
        DEF Next, vars, ReceiveRequest, ReceiveAck, RouteReturns, ReturnReply, ReturnRequest,
            Age, sip_redo, sip_timeout, HangUp, LinkReady, LinkLost

(* A client transaction that ends with 408 was sent to the end, unheard. *)
LEMMA EndedUnheard ==
    ASSUME Core, Honest, SaidGrows, NEW m, m.status = 408, Ended(m),
           408 \notin said'[m.branch]
    PROVE  LET k == m.uuid[2]
           IN  /\ wire[k].sent = SIP_RETRY + 1
               /\ ~wire[k].heard
               /\ said[m.branch] # {} => \E j \in 1..(k - 1) : wire[j].branch = m.branch
<1>1. PICK t \in DOMAIN txn \ DOMAIN txn' :
        /\ Client(txn[t]) /\ txn[t].opaque = m.uuid[2] /\ txn[t].branch = m.branch
        /\ m.status = ReplyStatus(txn[t])
  BY DEF Ended
<1>2. txn[t] \in Transaction /\ m.branch \in Branch
  BY <1>1, ClientFacts DEF Transaction
<1>3. HonestClient(t, txn[t], timer, wire, said)
  BY <1>1 DEF Honest, HonestClients
<1>4. txn[t].last = None
  <2>1. ASSUME txn[t].last # None
        PROVE  FALSE
    <3>1. txn[t].last = 408
      BY <1>1, <2>1 DEF ReplyStatus
    <3>2. 408 \in said[m.branch]
      BY <1>1, <1>3, <2>1, <3>1 DEF HonestClient
    <3> QED BY <1>2, <3>2 DEF SaidGrows
  <2> QED BY <2>1
<1>5. txn[t].retry = SIP_RETRY
  BY <1>1, <1>4 DEF ReplyStatus
<1>6. SIP_RETRY \in Nat /\ SIP_RETRY # 0
  BY GatewayAssumption
<1>7. wire[txn[t].opaque].sent = SIP_RETRY + 1 /\ txn[t].state # "TERMINATED"
  BY <1>3, <1>5, <1>6 DEF HonestClient
<1>8. ~wire[txn[t].opaque].heard /\ Silent(txn[t], wire, said)
  BY <1>3, <1>4, <1>7 DEF HonestClient
<1> QED BY <1>1, <1>7, <1>8 DEF Silent

(* sip_destroy reports 408 only for a request that was transmitted every    *)
(* time it could be, that drew no response in its transaction, and whose    *)
(* callee never said a word unless an earlier request of the branch had     *)
(* been relayed.                                                            *)
THEOREM TimeoutsSilent == Spec => TimeoutMeansSilence
<1>1. IInv /\ Honest /\ [Next]_vars =>
         [\A m \in chan' \ chan :
             m.status = 408 /\ 408 \notin said'[m.branch] =>
                LET k == m.uuid[2]
                IN  /\ wire[k].sent = SIP_RETRY + 1
                    /\ ~wire[k].heard
                    /\ said[m.branch] # {} =>
                          \E j \in 1..(k - 1) : wire[j].branch = m.branch]_vars
  <2> SUFFICES ASSUME IInv, Honest, [Next]_vars, NEW m \in chan' \ chan,
                      m.status = 408, 408 \notin said'[m.branch]
               PROVE  LET k == m.uuid[2]
                      IN  /\ wire[k].sent = SIP_RETRY + 1
                          /\ ~wire[k].heard
                          /\ said[m.branch] # {} =>
                                \E j \in 1..(k - 1) : wire[j].branch = m.branch
    OBVIOUS
  <2>1. m.status # None /\ m.status \notin {403, 410, 500}
    BY DEF None
  <2>2. Ended(m)
    BY <2>1, NextReplies DEF Explained
  <2> QED BY <2>2, NextSaid, EndedUnheard DEF IInv
<1> QED BY Honesty, <1>1, PTL DEF Spec, TimeoutMeansSilence

(* A caller is told what its callee said, or a failure that did happen: to  *)
(* a request of its branch that is over, or to the message being handled.   *)
THEOREM AnswersEarned == Spec => AnswersAreEarned
<1>1. IInv /\ Honest /\ Rung(txn, said) /\ [Next]_vars =>
         [\A b \in Branch : \A c \in final'[b] \ final[b] :
             Happened(b, c) \/ Happens(b, c)]_vars
  BY NextEarned
<1> QED BY Honesty, <1>1, PTL DEF Spec, AnswersAreEarned

(* A client transaction that rings is answered with a provisional status    *)
(* only by the sweep or by the end of its socket, with all that used it.    *)
THEOREM ProvisionalsCut == Spec => ProvisionalOnlyWhenCut
<1>1. IInv /\ Honest /\ [Next]_vars =>
         [\A m \in chan' \ chan : m.status \in 100..199 =>
             /\ UNCHANGED <<wire, said>>
             /\ \E t \in DOMAIN txn \ DOMAIN txn' :
                   /\ Client(txn[t]) /\ txn[t].opaque = m.uuid[2]
                   /\ txn[t].last = m.status
                   /\ \/ t <= aged
                      \/ \A u \in DOMAIN txn \cap DOMAIN txn' :
                            txn[u].net = txn[t].net => txn[u].state = "TERMINATED"]_vars
  <2> SUFFICES ASSUME IInv, Honest, [Next]_vars, NEW m \in chan' \ chan,
                      m.status \in 100..199
               PROVE  /\ UNCHANGED <<wire, said>>
                      /\ \E t \in DOMAIN txn \ DOMAIN txn' :
                            /\ Client(txn[t]) /\ txn[t].opaque = m.uuid[2]
                            /\ txn[t].last = m.status
                            /\ \/ t <= aged
                               \/ \A u \in DOMAIN txn \cap DOMAIN txn' :
                                     txn[u].net = txn[t].net => txn[u].state = "TERMINATED"
    OBVIOUS
  <2>1. m.status # None /\ m.status \notin {403, 410, 500} /\ ~(m.status >= 200)
        /\ m.status \notin {408, 502}
    BY DEF None
  <2>2. Ended(m)
    BY <2>1, NextReplies DEF Explained
  <2>3. PICK t \in DOMAIN txn \ DOMAIN txn' :
          /\ Client(txn[t]) /\ txn[t].opaque = m.uuid[2]
          /\ m.status = ReplyStatus(txn[t])
          /\ txn[t].last = None \/ Cut(t)
    BY <2>1, <2>2 DEF Ended
  <2>4. txn[t].last = m.status
    BY <2>1, <2>3 DEF ReplyStatus
  <2>5. Cut(t)
    BY <2>1, <2>3, <2>4
  <2> QED BY <2>3, <2>4, <2>5 DEF Cut
<1> QED BY Honesty, <1>1, PTL DEF Spec, ProvisionalOnlyWhenCut
=============================================================================
