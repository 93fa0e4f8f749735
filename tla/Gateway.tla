------------------------------- MODULE Gateway -------------------------------
(***************************************************************************)
(* The request path of sipecho: SIP transactions (src/src/sip.c), the      *)
(* session map and the Route client (src/src/cmd.c, src/lib/proto/         *)
(* transport.c) and the Route service itself (src/example/cmd/main.go).    *)
(*                                                                         *)
(* A request from a caller opens a server transaction (IST, NIST).  The    *)
(* server transaction publishes a query to Route under a session uuid.     *)
(* Route gives the query a uuid of its own and sends it back; sip_proxy    *)
(* relays it to the callee in a client transaction (ICT, NICT) that owns   *)
(* a token.  Destroying the client transaction consumes the token: the     *)
(* answer is published to Route, which maps the uuid back, and the server  *)
(* transaction sends it to the caller.                                     *)
(*                                                                         *)
(* The daemon is one libevent loop, so one callback is one action.         *)
(***************************************************************************)
EXTENDS Integers, Sequences, FiniteSets

CONSTANTS
    Invite,     \* INVITE requests, each named by its Via branch
    Plain,      \* OPTIONS, CANCEL, BYE and INFO requests
    Subscribe,  \* SUBSCRIBE requests
    Register,   \* REGISTER requests
    Net,        \* net events (sockets) that carry SIP
    Reliable,   \* those of them that are TCP connections
    Said,       \* status codes callees answer with
    SIP_RETRY,  \* retransmissions before a transaction gives up
    MaxSends,   \* bound: transmissions of one request by its caller
    MaxPort,    \* bound: connections to the broker, one port each
    Adverse     \* the adverse events an instance lets happen

Branch == Invite \cup Plain \cup Subscribe \cup Register

ASSUME GatewayAssumption ==
    /\ Plain \cap Invite = {}
    /\ Subscribe \cap (Invite \cup Plain) = {}
    /\ Register \cap (Invite \cup Plain \cup Subscribe) = {}
    /\ Reliable \subseteq Net
    /\ Said \subseteq 100..699
    /\ SIP_RETRY \in Nat \ {0}
    /\ MaxSends \in Nat
    /\ MaxPort \in Nat \ {0}
    /\ Adverse \subseteq {"send", "convert", "refuse", "age", "hangup", "link"}

VARIABLES
    tid,      \* the last transaction id osip gave out
    txn,      \* the transactions that exist, by id (osip's four lists)
    timer,    \* ids whose retransmission timer is armed
    entities, \* for each net event, the ids in its entity map
    aged,     \* transactions up to this id are older than 64*T1
    ses,      \* the session map __ses of cmd.c
    token,    \* the tokens of transport.c, numbered by Route's uuids
    requests, \* Route's map from its own uuids to the uuids of queries
    chan,     \* messages published to Route and not yet handled
    port,     \* the connection to the broker, 0 when there is none
    ready,    \* every topic of the connection is subscribed
    sends,    \* history: transmissions of each request by its caller
    wire,     \* history: what each relayed request met on the wire
    said,     \* history: status codes callees gave each request
    final     \* history: final codes sent to the caller of each request

link == <<port, ready>>
vars == <<tid, txn, timer, entities, aged, ses, token, requests, chan, link,
          sends, wire, said, final>>

-----------------------------------------------------------------------------
(* Values *)

XIST == {"IST", "NIST"}
XICT == {"ICT", "NICT"}

Uuid == {"sip", "route"} \X Nat
Status == 100..699
None == 0

Transaction ==
    [kind   : XIST \cup XICT,
     branch : Branch,
     net    : Net,
     state  : {"TRYING", "CALLING", "PROCEEDING", "COMPLETED", "TERMINATED"},
     retry  : Nat,               \* SIP_APPLICATION_RETRY_COUNT
     last   : Status \cup {None},  \* last_response
     opaque : Nat]               \* the token, None in a server transaction

(* A message on the broker: a query has no status, a reply has one.  The    *)
(* copy tells apart the queries of one request, a reply has no copies.     *)
Message ==
    [uuid : Uuid, branch : Branch, copy : Nat, status : Status \cup {None}]

ServerKind(b) == IF b \in Invite THEN "IST" ELSE "NIST"
ClientKind(b) == IF b \in Invite THEN "ICT" ELSE "NICT"
Client(a) == a.kind \in XICT

(* Only these requests make sip_callback_switch start the timer when they *)
(* are sent: SUBSCRIBE has no case there.                                  *)
Retransmitted == Invite \cup Plain

(* sip_transaction_retransmit_begin leaves the counter alone on UDP and    *)
(* exhausts it on anything else.                                           *)
RetryBegun(a) == IF a.net \in Reliable THEN SIP_RETRY + 1 ELSE a.retry

-----------------------------------------------------------------------------
(* The session map *)

(* cmd_session_find: the id a uuid is known under, -1 for none. *)
SessionFind(u) ==
    IF \E s \in ses : s.uuid = u
    THEN (CHOOSE s \in ses : s.uuid = u).id
    ELSE -1

(* map_push refuses a session whose id or uuid is taken. *)
SessionFits(s) == \A r \in ses : r.id # s.id /\ r.uuid # s.uuid

(* Bug: the session gets its uuid before the uuid is generated. *)
SessionGetUnset(t) ==
    IF \E s \in ses : s.id = t
    THEN ses
    ELSE ses \cup {[id |-> t, uuid |-> <<"sip", 0>>]}

(* cmd_session_get: find the session of a server transaction or make one. *)
SessionGet(t) ==
    IF \E s \in ses : s.id = t
    THEN ses
    ELSE ses \cup {[id |-> t, uuid |-> <<"sip", t>>]}

-----------------------------------------------------------------------------
(* The end of a callback *)

(* Bug: the request is answered although it was relayed. *)
TokenNewAnswered(uses) == Append(token, [port |-> port, uses |-> 1])

(* transport_input makes a token for every request of Route. *)
TokenNew(uses) == Append(token, [port |-> port, uses |-> uses])

(* Bug: a transaction sip_loop created is not put into the entity map. *)
PushedNever(tx) == entities

(* sip_loop puts a transaction it created into the map of its net event. *)
Pushed(tx) ==
    [n \in Net |-> entities[n] \cup
        {t \in DOMAIN tx \ DOMAIN txn : tx[t].net = n}]

(* The callback ends with every transaction in place: tx holds them, armed *)
(* their timers, ss the sessions and ch the messages on the broker.         *)
Keep(tx, armed, ss, ch) ==
    /\ txn' = tx
    /\ timer' = armed
    /\ entities' = Pushed(tx)
    /\ ses' = ss
    /\ chan' = ch
    /\ UNCHANGED token

(* Bug: 408 wins over the last response. *)
ReplyStatusTimeoutFirst(a) ==
    IF a.retry = SIP_RETRY THEN 408
    ELSE IF a.last # None THEN a.last ELSE 502

(* Bug: the two codes change places. *)
ReplyStatusSwapped(a) ==
    IF a.last # None THEN a.last
    ELSE IF a.retry = SIP_RETRY THEN 502 ELSE 408

(* What sip_destroy answers for a client transaction. *)
ReplyStatus(a) ==
    IF a.last # None THEN a.last
    ELSE IF a.retry = SIP_RETRY THEN 408 ELSE 502

(* Bug: the timer outlives the transaction. *)
TimersAfterNone(gone) == timer

(* sip_destroy ends the retransmission of what it destroys. *)
TimersAfter(gone) == timer \ gone

(* Bug: the reply goes out under the uuid of the latest request. *)
ReplyToLatest(t, tx, ss) ==
    [uuid   |-> <<"route", Len(requests)>>,
     branch |-> tx[t].branch,
     copy   |-> 0,
     status |-> ReplyStatus(tx[t])]

(* The reply for the client transaction t, under the uuid of its session. *)
Reply(t, tx, ss) ==
    [uuid   |-> (CHOOSE s \in ss : s.id = t).uuid,
     branch |-> tx[t].branch,
     copy   |-> 0,
     status |-> ReplyStatus(tx[t])]

(* The callback ends in sip_delete of the transactions T, sip_destroy on   *)
(* each: a client transaction without session is left as it is, one with   *)
(* a session gives its answer to its token, which is freed.  A token       *)
(* points at the transport it came from; after a reconnection that memory  *)
(* is freed, and the reply is lost or goes out on the new connection.  A   *)
(* reply that cannot be converted is lost, too.                            *)
Delete(T, tx, ss, ch) ==
    LET stuck    == {t \in T : Client(tx[t]) /\ \A s \in ss : s.id # t}
        gone     == T \ stuck
        closing  == {t \in gone : Client(tx[t])}
        stale    == {t \in closing : token[tx[t].opaque].port # port}
        doubtful == IF "convert" \in Adverse THEN closing ELSE stale
    IN  /\ txn' = [t \in DOMAIN tx \ gone |-> tx[t]]
        /\ timer' = TimersAfter(gone)
        /\ entities' = [n \in Net |-> Pushed(tx)[n] \ T]
        /\ ses' = {s \in ss : s.id \notin closing}
        /\ token' = [k \in DOMAIN token |->
                        IF \E t \in closing : tx[t].opaque = k
                        THEN [port |-> token[k].port, uses |-> token[k].uses + 1]
                        ELSE token[k]]
        /\ \E lost \in SUBSET doubtful :
              /\ port = 0 => lost = closing
              /\ chan' = ch \cup {Reply(t, tx, ss) : t \in closing \ lost}

(* A status event is executed by the server transaction t of tx: osip      *)
(* sends it, or fails to and terminates the transaction; sip_call deletes  *)
(* the transaction if its state is final.  An IST that has sent a failure  *)
(* waits for the ACK with its timer armed.                                 *)
SendStatus(t, status, tx, ss, ch) ==
    \/ /\ "send" \in Adverse
       /\ Delete({t}, tx, ss, ch)
       /\ UNCHANGED final
    \/ /\ status < 200
       /\ Keep([tx EXCEPT ![t].state = "PROCEEDING", ![t].last = status],
               timer, ss, ch)
       /\ UNCHANGED final
    \/ /\ status >= 200
       /\ IF tx[t].kind = "IST" /\ status >= 300
          THEN Keep([tx EXCEPT ![t].state = "COMPLETED", ![t].last = status,
                               ![t].retry = RetryBegun(tx[t])],
                    timer \cup {t}, ss, ch)
          ELSE Delete({t}, tx, ss, ch)
       /\ final' = [final EXCEPT ![tx[t].branch] = @ \cup {status}]

-----------------------------------------------------------------------------
(* Requests from callers *)

(* The query for the request b as its caller sends it this time. *)
Query(t, b) ==
    [uuid |-> <<"sip", t>>, branch |-> b, copy |-> sends'[b], status |-> None]

(* osip_create_transaction for message m of the kind given. *)
NewTransaction(kind, b, n, state, k) ==
    [kind |-> kind, branch |-> b, net |-> n, state |-> state,
     retry |-> 0, last |-> None, opaque |-> k]

With(t, a) == [i \in DOMAIN txn \cup {t} |-> IF i = t THEN a ELSE txn[i]]

(* osip_find_transaction: the oldest transaction of the branch and kind. *)
Matching(b, kind) ==
    {t \in DOMAIN txn : txn[t].branch = b /\ txn[t].kind = kind}
Oldest(b, kind) ==
    {t \in Matching(b, kind) : \A u \in Matching(b, kind) : t <= u}

(* sip_callback_invite and the like: cmd_initiate publishes the query if   *)
(* the link is up and ready (0) and gives up if it is not (-1), if the     *)
(* request cannot be converted (-2) or not be packed for the broker (-1).  *)
(* An INVITE that is on its way is answered 100 and 180, any other request *)
(* is not answered yet.                                                    *)
Initiate(t, tx) ==
    LET b == tx[t].branch
    IN  \/ /\ ready
           /\ IF b \in Invite
              THEN SendStatus(t, 180, tx, SessionGet(t), chan \cup {Query(t, b)})
              ELSE /\ Keep(tx, timer, SessionGet(t), chan \cup {Query(t, b)})
                   /\ UNCHANGED final
        \/ /\ ~ready
           /\ SendStatus(t, 503, tx, ses, chan)
        \/ /\ ready /\ "convert" \in Adverse
           /\ \E code \in {500, 503} : SendStatus(t, code, tx, SessionGet(t), chan)

(* A request no server transaction knows: sip_loop creates one. *)
ReceiveNew(b, n) ==
    /\ Matching(b, ServerKind(b)) = {}
    /\ tid' = tid + 1
    /\ Initiate(tid + 1,
                With(tid + 1,
                     NewTransaction(ServerKind(b), b, n,
                        IF b \in Invite THEN "PROCEEDING" ELSE "TRYING", None)))

(* An INVITE again: its query is published again, with the same session;   *)
(* osip sends the last response again, and the new provisional or failure  *)
(* response after it if the transaction still takes one.                   *)
ReceiveInviteAgain(b, t) ==
    \/ /\ txn[t].state = "PROCEEDING"
       /\ Initiate(t, txn)
    \/ /\ txn[t].state = "COMPLETED"
       /\ \E ss \in {ses, SessionGet(t)}, ch \in {chan, chan \cup {Query(t, b)}} :
             /\ \/ ready /\ ss = SessionGet(t) /\ ch = chan \cup {Query(t, b)}
                \/ ready /\ "convert" \in Adverse /\ ss = SessionGet(t) /\ ch = chan
                \/ ~ready /\ ss = ses /\ ch = chan
             /\ \/ /\ "send" \in Adverse
                   /\ Delete({t}, txn, ss, ch)
                \/ Keep([txn EXCEPT ![t].retry = RetryBegun(txn[t])],
                        timer \cup {t}, ss, ch)
       /\ UNCHANGED final

(* Any other request again: osip drops it in TRYING; in PROCEEDING the     *)
(* default case of sip_callback_switch answers 501.                        *)
ReceiveRequestAgain(t) ==
    \/ /\ txn[t].state = "TRYING"
       /\ Keep(txn, timer, ses, chan)
       /\ UNCHANGED final
    \/ /\ txn[t].state = "PROCEEDING"
       /\ SendStatus(t, 501, txn, ses, chan)

ReceiveRequest(b, n) ==
    /\ sends[b] < MaxSends
    /\ sends' = [sends EXCEPT ![b] = @ + 1]
    /\ \/ ReceiveNew(b, n)
       \/ \E t \in Oldest(b, ServerKind(b)) :
             /\ \/ b \in Invite /\ ReceiveInviteAgain(b, t)
                \/ b \notin Invite /\ ReceiveRequestAgain(t)
             /\ UNCHANGED tid
    /\ UNCHANGED <<aged, requests, link, wire, said>>

(* The ACK of a failure confirms the IST, which is deleted. *)
ReceiveAck(b) ==
    /\ \E t \in Oldest(b, "IST") :
          /\ txn[t].state = "COMPLETED"
          /\ Delete({t}, txn, ses, chan)
    /\ UNCHANGED <<tid, aged, requests, link, sends, wire, said, final>>

-----------------------------------------------------------------------------
(* Messages from Route *)

(* Bug: only a transaction nothing was sent in yet takes a response. *)
FinalizeFirst(u, status, ch) ==
    LET t    == SessionFind(u)
        open == t \in DOMAIN txn /\ ~Client(txn[t]) /\ txn[t].state = "TRYING"
    IN  \/ open /\ SendStatus(t, status, txn, ses, ch)
        \/ ~open /\ Keep(txn, timer, ses, ch) /\ UNCHANGED final

(* sip_finalize: the response goes to the server transaction its session   *)
(* names, if that still exists; sip_finalize_failure answers 500 instead   *)
(* when the reply cannot be converted.  osip ignores a status once the     *)
(* transaction has completed.                                              *)
Finalize(u, status, ch) ==
    LET t    == SessionFind(u)
        open == t \in DOMAIN txn /\ ~Client(txn[t]) /\ txn[t].state # "COMPLETED"
    IN  \/ open /\ SendStatus(t, status, txn, ses, ch)
        \/ open /\ "convert" \in Adverse /\ SendStatus(t, 500, txn, ses, ch)
        \/ ~open /\ Keep(txn, timer, ses, ch) /\ UNCHANGED final

(* Route answers a REGISTER itself, which sip_finalize_registrate turns    *)
(* into 403 when the caller is unknown, and returns a reply under the uuid *)
(* of the query; cmd_finalise_request takes either.                        *)
ReturnReply(m) ==
    /\ \/ /\ m.status = None /\ m.branch \in Register
          /\ \E code \in {200, 403} : Finalize(m.uuid, code, chan \ {m})
       \/ /\ m.status # None
          /\ Finalize(requests[m.uuid[2]], m.status, chan \ {m})
    /\ UNCHANGED <<tid, aged, requests, link, sends, wire, said>>

(* The token k is used up without a transaction: cmd_maintain_request      *)
(* drops a request it cannot convert, sip_proxy answers for a callee that  *)
(* is unknown (403), has no contact left (410) or that sip_relay fails on  *)
(* before it gets to a transaction (410 for the last contact, else 500).   *)
Refuse(k, m) ==
    /\ \/ /\ "convert" \in Adverse
          /\ chan' = chan \ {m}
       \/ /\ "refuse" \in Adverse
          /\ \E code \in {403, 410, 500} :
                chan' = (chan \ {m}) \cup
                    {[uuid |-> <<"route", k>>, branch |-> m.branch, copy |-> 0,
                      status |-> code]}
    /\ token' = TokenNew(1)
    /\ wire' = Append(wire, [branch |-> m.branch, sent |-> 0, heard |-> FALSE])
    /\ UNCHANGED <<tid, txn, timer, entities, ses>>

(* sip_relay: a client transaction, then a session for it.  If the request *)
(* cannot be sent, the transaction terminates and sip_delete finds no      *)
(* session yet: it stays, out of the entity map, for good.                 *)
Relay(k, m, n) ==
    LET t    == tid + 1
        b    == m.branch
        new  == NewTransaction(ClientKind(b), b, n,
                    IF b \in Invite THEN "CALLING" ELSE "TRYING", k)
        s    == [id |-> t, uuid |-> <<"route", k>>]
        sent == [new EXCEPT !.retry =
                    IF b \in Retransmitted THEN RetryBegun(new) ELSE @]
    IN  /\ tid' = t
        /\ \/ /\ txn' = With(t, sent)
              /\ timer' = IF b \in Retransmitted THEN timer \cup {t} ELSE timer
              /\ entities' = [entities EXCEPT ![n] = @ \cup {t}]
              /\ wire' = Append(wire, [branch |-> b, sent |-> 1, heard |-> FALSE])
           \/ /\ "send" \in Adverse
              /\ txn' = With(t, [new EXCEPT !.state = "TERMINATED"])
              /\ wire' = Append(wire, [branch |-> b, sent |-> 0, heard |-> FALSE])
              /\ UNCHANGED <<timer, entities>>
        /\ IF SessionFits(s)
           THEN /\ ses' = ses \cup {s}
                /\ token' = TokenNew(0)
                /\ chan' = chan \ {m}
           ELSE /\ token' = TokenNew(1)
                /\ \E code \in {410, 500} :
                      chan' = (chan \ {m}) \cup
                        {[uuid |-> s.uuid, branch |-> b, copy |-> 0, status |-> code]}
                /\ UNCHANGED ses

(* Route returns any other query as a request under a uuid of its own. *)
ReturnRequest(m) ==
    LET k == Len(requests) + 1
    IN  /\ m.status = None
        /\ m.branch \notin Register
        /\ requests' = Append(requests, m.uuid)
        /\ \/ Refuse(k, m)
           \/ \E n \in Net : Relay(k, m, n)
        /\ UNCHANGED <<aged, link, sends, said, final>>

(* The broker hands a message to Route and Route's message to cmd_execute. *)
RouteReturns(m) ==
    /\ ready
    /\ ReturnReply(m) \/ ReturnRequest(m)

-----------------------------------------------------------------------------
(* Responses from callees *)

(* Bugs: a provisional status frees the session; it ends the transaction. *)
TakeStatusReleasing(t, status) ==
    LET tx == [txn EXCEPT ![t].last = status, ![t].state = "PROCEEDING"]
    IN  /\ txn[t].state # "TERMINATED"
        /\ IF status < 200
           THEN Keep(tx, timer \ {t}, {s \in ses : s.id # t}, chan)
           ELSE Delete({t}, tx, ses, chan)
        /\ wire' = [wire EXCEPT ![txn[t].opaque].heard = TRUE]
TakeStatusEnding(t, status) ==
    LET tx == [txn EXCEPT ![t].last = status, ![t].state = "PROCEEDING"]
    IN  /\ txn[t].state # "TERMINATED"
        /\ Delete({t}, tx, ses, chan)
        /\ wire' = [wire EXCEPT ![txn[t].opaque].heard = TRUE]

(* A status the client transaction takes: a provisional one stops the      *)
(* timer, a final one ends the transaction.                                *)
TakeStatus(t, status) ==
    LET tx == [txn EXCEPT ![t].last = status, ![t].state = "PROCEEDING"]
    IN  /\ txn[t].state # "TERMINATED"
        /\ IF status < 200
           THEN Keep(tx, timer \ {t}, ses, chan)
           ELSE Delete({t}, tx, ses, chan)
        /\ wire' = [wire EXCEPT ![txn[t].opaque].heard = TRUE]

(* osip ignores a status in a terminated transaction, and sip_call then    *)
(* deletes the transaction that was left behind.                           *)
IgnoreStatus(t) ==
    /\ txn[t].state = "TERMINATED"
    /\ Delete({t}, txn, ses, chan)
    /\ UNCHANGED wire

(* A callee that got the request answers it.  A response without a         *)
(* transaction is dropped.                                                 *)
ReceiveResponse(b, status) ==
    /\ \E k \in DOMAIN wire : wire[k].branch = b /\ wire[k].sent > 0
    /\ said' = [said EXCEPT ![b] = @ \cup {status}]
    /\ \E t \in Oldest(b, ClientKind(b)) : TakeStatus(t, status) \/ IgnoreStatus(t)
    /\ UNCHANGED <<tid, aged, requests, link, sends, final>>

-----------------------------------------------------------------------------
(* Timers *)

(* sip_redo sends the request or the failure response once more... *)
Retransmit(t) ==
    /\ txn[t].retry < SIP_RETRY
    /\ \/ /\ Keep([txn EXCEPT ![t].retry = @ + 1], timer, ses, chan)
          /\ IF Client(txn[t])
             THEN wire' = [wire EXCEPT ![txn[t].opaque].sent = @ + 1]
             ELSE UNCHANGED wire
       \/ /\ "send" \in Adverse
          /\ Delete({t}, txn, ses, chan)
          /\ UNCHANGED wire

(* ...and gives up when the retries are used up. *)
GiveUp(t) ==
    /\ txn[t].retry >= SIP_RETRY
    /\ Delete({t}, txn, ses, chan)
    /\ UNCHANGED wire

sip_redo(t) ==
    /\ t \in timer
    /\ Retransmit(t) \/ GiveUp(t)
    /\ UNCHANGED <<tid, aged, requests, link, sends, said, final>>

(* Time passes: the oldest transaction not yet older than 64*T1 gets so.   *)
(* A client transaction still waiting for its first response gives up      *)
(* earlier: after 28 s on UDP, after 32 s on TCP.                          *)
Age ==
    /\ "age" \in Adverse
    /\ aged < tid
    /\ aged + 1 \in timer => ~Client(txn[aged + 1])
    /\ aged' = aged + 1
    /\ UNCHANGED <<tid, txn, timer, entities, ses, token, requests, chan, link,
                   sends, wire, said, final>>

(* Bug: the sweep leaves the youngest of the old transactions. *)
sip_timeout_Strict(n) ==
    LET old == {t \in entities[n] : t < aged}
    IN  /\ old # {}
        /\ Delete(old, txn, ses, chan)
        /\ UNCHANGED <<tid, aged, requests, link, sends, wire, said, final>>

(* sip_timeout: a net event deletes its old transactions. *)
sip_timeout(n) ==
    LET old == {t \in entities[n] : t <= aged}
    IN  /\ old # {}
        /\ Delete(old, txn, ses, chan)
        /\ UNCHANGED <<tid, aged, requests, link, sends, wire, said, final>>

-----------------------------------------------------------------------------
(* Connections *)

(* A socket ends: a TCP connection closes, a read or a write fails on any  *)
(* of them, UDP too.  net_event_free destroys its entities; the socket of  *)
(* the same name that carries SIP afterwards is a new one.                 *)
HangUp(n) ==
    /\ "hangup" \in Adverse
    /\ entities[n] # {}
    /\ Delete(entities[n], txn, ses, chan)
    /\ UNCHANGED <<tid, aged, requests, link, sends, wire, said, final>>

(* Every SUBSCRIBE has been acknowledged. *)
LinkReady ==
    /\ port # 0
    /\ ~ready
    /\ ready' = TRUE
    /\ UNCHANGED <<tid, txn, timer, entities, aged, ses, token, requests, chan,
                   port, sends, wire, said, final>>

(* The connection to the broker fails.  cmd_open connects again, from      *)
(* another port, or cannot.  What is on its way to Route is answered, if   *)
(* at all, to the topics of the old port.                                  *)
LinkLost ==
    /\ "link" \in Adverse
    /\ port # 0
    /\ port' \in {0} \cup (IF port < MaxPort THEN {port + 1} ELSE {})
    /\ ready' = FALSE
    /\ chan' = {}
    /\ UNCHANGED <<tid, txn, timer, entities, aged, ses, token, requests,
                   sends, wire, said, final>>

-----------------------------------------------------------------------------
Init ==
    /\ tid = 0
    /\ txn = [t \in {} |-> None]
    /\ timer = {}
    /\ entities = [n \in Net |-> {}]
    /\ aged = 0
    /\ ses = {}
    /\ token = <<>>
    /\ requests = <<>>
    /\ chan = {}
    /\ port = 1
    /\ ready = FALSE
    /\ sends = [b \in Branch |-> 0]
    /\ wire = <<>>
    /\ said = [b \in Branch |-> {}]
    /\ final = [b \in Branch |-> {}]

Next ==
    \/ \E b \in Branch, n \in Net : ReceiveRequest(b, n)
    \/ \E b \in Branch : ReceiveAck(b)
    \/ \E m \in chan : RouteReturns(m)
    \/ \E b \in Branch \ Register, status \in Said : ReceiveResponse(b, status)
    \/ \E t \in timer : sip_redo(t)
    \/ Age
    \/ \E n \in Net : sip_timeout(n)
    \/ \E n \in Net : HangUp(n)
    \/ LinkReady
    \/ LinkLost

Spec == Init /\ [][Next]_vars

(* The loop dispatches what is due (timers, sweeps), Route and the broker  *)
(* hand back what they are given, and a client transaction grows old.      *)
Fairness ==
    /\ WF_vars(Age)
    /\ WF_vars(LinkReady)
    /\ WF_vars(\E m \in chan : RouteReturns(m))
    /\ WF_vars(\E t \in timer : sip_redo(t))
    /\ \A n \in Net : WF_vars(sip_timeout(n))

FairSpec == Spec /\ Fairness

(* Callees that answer what reaches them.                                  *)
AnsweringCallees ==
    \A b \in Branch \ Register :
        WF_vars(\E status \in Said : status >= 200 /\ ReceiveResponse(b, status))

AnsweringSpec == FairSpec /\ AnsweringCallees

-----------------------------------------------------------------------------
(* Properties *)

(* Types; a message on the broker always comes from a live connection.     *)
TypeOK ==
    /\ tid \in Nat
    /\ DOMAIN txn \subseteq 1..tid
    /\ \A t \in DOMAIN txn : txn[t] \in Transaction
    /\ timer \subseteq 1..tid
    /\ entities \in [Net -> SUBSET (1..tid)]
    /\ aged \in 0..tid
    /\ ses \subseteq [id : 1..tid, uuid : Uuid]
    /\ token \in Seq([port : Nat, uses : Nat])
    /\ requests \in Seq(Uuid)
    /\ chan \subseteq Message
    /\ port \in Nat /\ ready \in BOOLEAN
    /\ sends \in [Branch -> Nat]
    /\ wire \in Seq([branch : Branch, sent : Nat, heard : BOOLEAN])
    /\ said \in [Branch -> SUBSET Said]
    /\ final \in [Branch -> SUBSET Status]

(* No timer is armed for a transaction that was freed: sip_redo gets the   *)
(* transaction as a bare pointer (sip_destroy must end the timer).         *)
NoDanglingTimer == timer \subseteq DOMAIN txn

(* The entity map of a net event holds the transactions sip_timeout and    *)
(* net_event_free have to destroy: all that use the event, but those that  *)
(* could not be sent, and none that was freed.                             *)
EntityMapExact ==
    \A n \in Net : entities[n] =
        {t \in DOMAIN txn : txn[t].net = n /\ txn[t].state # "TERMINATED"}

(* The session map is one to one between ids and uuids, and what comes     *)
(* next fits in: cmd_session_add of a relayed request cannot fail, which   *)
(* would leave its transaction holding a message that sip_proxy frees.     *)
SessionsOneToOne ==
    /\ \A r, s \in ses : r.id = s.id \/ r.uuid = s.uuid => r = s
    /\ SessionFits([id |-> tid + 1, uuid |-> <<"route", Len(requests) + 1>>])

(* The token of a client transaction is not spent and has no other owner,  *)
(* and the session under which it will be answered is there: transport.c   *)
(* frees the token in the one call of its closure.                         *)
TokenOwned ==
    \A t \in DOMAIN txn : Client(txn[t]) =>
        /\ txn[t].opaque \in DOMAIN token
        /\ token[txn[t].opaque].uses = 0
        /\ \A u \in DOMAIN txn : Client(txn[u]) /\ txn[u].opaque = txn[t].opaque => u = t
        /\ [id |-> t, uuid |-> <<"route", txn[t].opaque>>] \in ses

(* No token is freed twice and no request of Route is answered twice.      *)
TokenFreedOnce == \A k \in DOMAIN token : token[k].uses <= 1

(* Whoever still has to call the closure of a request is the only one, and  *)
(* the first.                                                               *)
TokensSafe == TokenOwned /\ TokenFreedOnce

(* A request that went out to its callee and is not answered to Route yet  *)
(* has a transaction the sweep will find: only a request that could not be *)
(* sent at all is ever forgotten.                                          *)
NoSentRequestForgotten ==
    \A k \in DOMAIN token :
        token[k].uses = 0 /\ wire[k].sent > 0 =>
            \E n \in Net : \E t \in entities[n] :
                t \in DOMAIN txn /\ Client(txn[t]) /\ txn[t].opaque = k

(* A reply finds its way back to a transaction of the request it answers:  *)
(* Route's map and the session map compose to the right server transaction.*)
NoCrossedReply ==
    \A m \in chan : m.status # None =>
        LET t == SessionFind(requests[m.uuid[2]])
        IN  /\ t # -1
            /\ t \in DOMAIN txn =>
                 ~Client(txn[t]) /\ txn[t].branch = m.branch

(* 408 is told to Route only for a request that was sent SIP_RETRY + 1     *)
(* times and drew no response in its transaction; and unless an earlier    *)
(* request of the same branch had been relayed, whose transaction takes    *)
(* the responses of both, the callee said nothing at all.                  *)
TimeoutMeansSilence ==
    [][\A m \in chan' \ chan :
          m.status = 408 /\ 408 \notin said'[m.branch] =>
              LET k == m.uuid[2]
              IN  /\ wire[k].sent = SIP_RETRY + 1
                  /\ ~wire[k].heard
                  /\ said[m.branch] # {} => \E j \in 1..(k - 1) : wire[j].branch = m.branch]_vars

(* Some request of the branch b is over, its callee not heard.             *)
Unheard(b, k) == wire[k].branch = b /\ ~wire[k].heard /\ token[k].uses # 0

(* Why the caller of b may be given the code c: the callee said it, or     *)
(* what it stands for has happened: 408 when a request was sent to the end *)
(* in silence, 502 when one ended sooner than that, 403, 410 and 500 when  *)
(* one was refused unsent.                                                 *)
Happened(b, c) ==
    \/ c \in said[b]
    \/ c = 408 /\ \E k \in DOMAIN token : Unheard(b, k) /\ wire[k].sent = SIP_RETRY + 1
    \/ c = 502 /\ \E k \in DOMAIN token : Unheard(b, k) /\ wire[k].sent # SIP_RETRY + 1
    \/ /\ c \in {403, 410, 500} /\ "refuse" \in Adverse
       /\ \E k \in DOMAIN token : Unheard(b, k) /\ wire[k].sent = 0

(* Or it happens in this step: the request finds no link to Route or       *)
(* repeats one that rings, it or the answer cannot be converted, or Route  *)
(* answers a REGISTER.                                                     *)
Happens(b, c) ==
    \/ /\ sends'[b] = sends[b] + 1
       /\ \/ c = 503 /\ ~ready
          \/ c \in {500, 503} /\ "convert" \in Adverse /\ UNCHANGED chan
          \/ c = 501 /\ b \notin Invite /\ \E d \in said[b] : d < 200
    \/ \E m \in chan \ chan' :
          /\ m.branch = b /\ (m.status # None \/ b \in Register)
          /\ \/ c = 500 /\ "convert" \in Adverse
             \/ c \in {200, 403} /\ m.status = None

(* The caller is told what the callee said, or a failure that did happen.  *)
AnswersAreEarned ==
    [][\A b \in Branch : \A c \in final'[b] \ final[b] :
          Happened(b, c) \/ Happens(b, c)]_vars

(* Route is given a provisional status as the answer to its request only   *)
(* by the sweep of an old transaction or the end of its socket, with all   *)
(* that used it: no response and no timer of a ringing request does that.  *)
ProvisionalOnlyWhenCut ==
    [][\A m \in chan' \ chan : m.status \in 100..199 =>
          /\ UNCHANGED <<wire, said>>
          /\ \E t \in DOMAIN txn \ DOMAIN txn' :
                /\ Client(txn[t]) /\ txn[t].opaque = m.uuid[2]
                /\ txn[t].last = m.status
                /\ \/ t <= aged
                   \/ \A u \in DOMAIN txn \cap DOMAIN txn' :
                         txn[u].net = txn[t].net => txn[u].state = "TERMINATED"]_vars

L == INSTANCE Link

(* All this module assumes of the connection to the broker is what Link    *)
(* says of it, which is what CmdLink keeps.                                *)
ImplementsLink == L!Spec

(* While nothing goes wrong and nothing takes longer than 64*T1, every     *)
(* request of a caller gets a final response, by the callee or a timeout.  *)
RequestsAnswered ==
    \A b \in Branch : sends[b] > 0 ~> final[b] # {}
=============================================================================
