-------------------------------- MODULE Path --------------------------------
(***************************************************************************)
(* The headers src/src/sip.c edits itself, over a chain of gateways: the   *)
(* Vias an answer goes back by, the Record-Routes later requests will go   *)
(* by, and Max-Forwards.  osip sends an answer to its topmost Via.         *)
(*                                                                         *)
(* hop[1] is the caller, hop[2] the first gateway, and so on; the number   *)
(* of a hop stands for its address.  The last gateway has the callee       *)
(* behind it.  Answers may be lost, repeated and overtake each other; that *)
(* requests are repeated, too, is left to Gateway.                         *)
(***************************************************************************)
EXTENDS Integers, Sequences

CONSTANTS Null,
          Limits,       \* Max-Forwards of the caller's request, Null for none
          Gateways      \* bound: gateways of the chain

VARIABLES hop,          \* what each hop was asked and has sent, see Hop
          answer,       \* under way to a hop, for what it has sent
          reply         \* under way from Route to the server transaction of a hop

vars == <<hop, answer, reply>>

Status == {"provisional", "success", "failure"}
Final == Status \ {"provisional"}
SIP_DEFAULT_MAX_FORWARD == 70

\* A gateway that was asked q: `server' and `client' say whether it has the
\* transaction, `query' whether Route has the request and did not return it.
Hop(q) == [asked |-> q, server |-> TRUE, query |-> TRUE,
           sent |-> Null, client |-> FALSE, last |-> Null]

Here == Len(hop)        \* the hop that was reached last

Init ==
  /\ \E n \in Limits :
       hop = << [Hop(Null) EXCEPT !.server = FALSE, !.query = FALSE, !.client = TRUE,
                   !.sent = [vias |-> <<1>>, record |-> <<>>, forwards |-> n]] >>
  /\ answer = {} /\ reply = {}

-----------------------------------------------------------------------------
(* Messages *)

sip_message_add_record_route(q, n) == [q EXCEPT !.record = <<n>> \o @]

sip_message_remove_top_via(m) == [m EXCEPT !.vias = Tail(@)]

\* sip_response_new builds an answer to q, sip_response makes q itself one.
sip_response_new(q, status) == [status |-> status, vias |-> q.vias, record |-> q.record]
sip_response(q, status) == [status |-> status, vias |-> q.vias, record |-> q.record]

\* Hop n answers what the one before it has sent.
Answers(n, m) == answer' = answer \cup {[hop |-> n - 1, message |-> m]}

Replies(n, m) == reply' = reply \cup {[hop |-> n, message |-> m]}

-----------------------------------------------------------------------------
(* Requests *)

\* A gateway is asked, and publishes the request; a call is answered at once
\* that it is on its way.  Without a link, or if it cannot be converted, the
\* request fails.
sip_execute ==
  /\ hop[Here].sent # Null /\ Here <= Gateways /\ \A r \in answer : r.hop # Here
  /\ LET n == Here + 1
         q == sip_message_add_record_route(hop[Here].sent, n)
     IN \/ /\ hop' = Append(hop, Hop(q))
           /\ Answers(n, sip_response_new(q, "provisional")) \/ UNCHANGED answer
        \/ /\ hop' = Append(hop, [Hop(q) EXCEPT !.server = FALSE, !.query = FALSE])
           /\ Answers(n, sip_response_new(q, "failure"))
  /\ UNCHANGED reply

\* What is left of Max-Forwards, Null when the request may not be relayed.
Left(q) ==
  CASE q.forwards = Null -> SIP_DEFAULT_MAX_FORWARD
    [] q.forwards # Null /\ q.forwards > 1 -> q.forwards - 1
    [] OTHER -> Null

\* The request as hop n relays it.
Relayed(q, n) ==
  sip_message_add_record_route([q EXCEPT !.vias = <<n>> \o @, !.forwards = Left(q)], n)

\* The request after sip_relay has failed behind its last change to it, for want
\* of an event.  (For want of a transaction sip_loop has freed the request that is
\* used on: that is left out.)
Unrelayed(q, n) == sip_message_remove_top_via(Relayed(q, n))

\* Route returns the request: it is relayed; or nobody is there, or it cannot
\* be, at any point of sip_relay, and what is left of it becomes the answer.
sip_proxy ==
  /\ hop[Here].query
  /\ LET q == hop[Here].asked
     IN \/ /\ Left(q) # Null
           /\ hop' = [hop EXCEPT ![Here].query = FALSE, ![Here].client = TRUE,
                                 ![Here].sent = Relayed(q, Here)]
           /\ UNCHANGED reply
        \/ /\ hop' = [hop EXCEPT ![Here].query = FALSE]
           /\ \E m \in {q} \cup (IF Left(q) = Null THEN {} ELSE {Unrelayed(q, Here)}) :
                Replies(Here, sip_response(m, "failure"))
  /\ UNCHANGED answer

\* The callee, or whoever else is behind the last gateway, answers as the
\* standard says: with the Vias and the Record-Routes of the request.
CalleeAnswers ==
  /\ hop[Here].sent # Null
  /\ \E status \in Status : Answers(Here + 1, sip_response_new(hop[Here].sent, status))
  /\ UNCHANGED <<hop, reply>>

-----------------------------------------------------------------------------
(* Answers *)

\* The client transaction that an answer belongs to by its topmost Via notes
\* a provisional one; a final one ends it and goes to Route.
ReceiveResponse ==
  /\ \E r \in answer :
       LET m == r.message
           n == Head(m.vias)
       IN /\ n \in 2..Here /\ hop[n].client
          /\ IF m.status \in Final
             THEN /\ hop' = [hop EXCEPT ![n].client = FALSE]
                  /\ Replies(n, sip_message_remove_top_via(m))
             ELSE hop' = [hop EXCEPT ![n].last = m] /\ UNCHANGED reply
  /\ UNCHANGED answer

\* Bug: the answer made up for a silent callee keeps the Via of the gateway.
UnansweredWithVia(x) ==
  IF x.last = Null THEN sip_response_new(x.sent, "failure") ELSE x.last
\* What Route is told of a request that ends without a final answer.
Unanswered(x) ==
  IF x.last = Null THEN sip_message_remove_top_via(sip_response_new(x.sent, "failure"))
  ELSE x.last

\* A timer or the sweep ends a transaction.
sip_destroy ==
  /\ \E n \in 2..Here :
       \/ /\ hop[n].client
          /\ hop' = [hop EXCEPT ![n].client = FALSE]
          /\ Replies(n, Unanswered(hop[n]))
       \/ /\ hop[n].server
          /\ hop' = [hop EXCEPT ![n].server = FALSE]
          /\ UNCHANGED reply
  /\ UNCHANGED answer

\* Route returns an answer to the server transaction, if there still is one:
\* it is sent on, becomes a failure if a REGISTER cannot be noted, or a
\* failure is built when it cannot be converted.
sip_finalize ==
  \E x \in reply :
    LET n == x.hop
    IN /\ reply' = reply \ {x}
       /\ \/ ~hop[n].server /\ UNCHANGED <<hop, answer>>
          \/ \E m \in {x.message, sip_response_new(hop[n].asked, "failure")}
                  \cup (IF x.message.status = "success"
                        THEN {sip_response(x.message, "failure")} ELSE {}) :
               /\ hop[n].server
               /\ hop' = [hop EXCEPT ![n].server = m.status \notin Final]
               /\ Answers(n, m)

Next ==
  \/ sip_execute \/ sip_proxy \/ CalleeAnswers
  \/ ReceiveResponse \/ sip_destroy \/ sip_finalize

Spec == Init /\ [][Next]_vars

-----------------------------------------------------------------------------
(* Properties *)

Request == [vias : Seq(Nat), record : Seq(Nat), forwards : Nat \cup {Null}]
Response == [status : Status, vias : Seq(Nat), record : Seq(Nat)]

Shape == [asked : Request \cup {Null}, server : BOOLEAN, query : BOOLEAN,
          sent : Request \cup {Null}, client : BOOLEAN, last : Response \cup {Null}]

TypeOK ==
  /\ hop \in Seq(Shape)
  /\ answer \subseteq [hop : 1..Here, message : Response]
  /\ reply \subseteq [hop : 2..Here, message : Response]

\* Each answer finds its way: whether the callee gave it, a gateway made it of
\* the request, of what it had relayed or of what it could not relay, it goes
\* back with exactly the Vias the hop it is for has sent, and so to that hop.
\* The one exception is the provisional status a cut call is reported with: it
\* still has the Via of the gateway that reports it, on top, and stays there.
AnswersRetrace ==
  \A r \in answer :
    LET sent == hop[r.hop].sent.vias
    IN \/ r.message.vias = sent
       \/ r.message.status = "provisional" /\ r.message.vias = <<r.hop + 1>> \o sent
=============================================================================
