-------------------------------- MODULE CmdLink --------------------------------
(***************************************************************************)
(* The connection to the MQTT broker: the net event of the CMD application *)
(* (src/src/cmd.c, src/src/net.c) and its transport (src/lib/proto/        *)
(* transport.c).                                                           *)
(*                                                                         *)
(* The daemon connects, sends CONNECT, subscribes to one topic per method  *)
(* once it is accepted, counts the acknowledgements and is ready when all  *)
(* are there.  Any error closes the connection and opens another, with     *)
(* another local port and so other topics.                                 *)
(*                                                                         *)
(* A packet of the daemon reaches the broker when it is written; what the  *)
(* broker sends is a byte stream, and a read may end inside a packet.      *)
(***************************************************************************)
EXTENDS Integers, Sequences, FiniteSets

CONSTANTS
    Methods,    \* the number of methods of the service, a topic for each
    MaxQueries, \* bound: queries published
    MaxPort,    \* bound: connections made
    Adverse     \* the adverse events an instance lets happen

ASSUME CmdLinkAssumption ==
    /\ Methods \in Nat \ {0}
    /\ MaxQueries \in Nat
    /\ MaxPort \in Nat \ {0}
    /\ Adverse \subseteq {"unreachable", "fail", "close", "deny", "garble", "cut"}

VARIABLES
    port,       \* the connection in __con by its local port, 0 for none
    open,       \* net_callback_connect has handed over to net_callback_inout
    ready,      \* transport_t.ready
    subscribes, \* transport_t.subscribes
    err,        \* net_event_t.err
    outgoing,   \* net_event_t.outgoing
    writing,    \* the event waits for EV_WRITE, too
    stream,     \* packets of the broker the daemon has not executed
    whole,      \* how many of them the current read took in completely
    cut,        \* the current read took in a part of the next one
    subs,       \* topics the broker has subscriptions for
    asked,      \* queries the broker has passed on and Route not returned
    published   \* queries published so far

transport == <<open, ready, subscribes, err, outgoing, writing>>
reading == <<stream, whole, cut>>
broker == <<subs, asked>>
vars == <<port, transport, reading, broker, published>>

-----------------------------------------------------------------------------
(* Packets *)

Topic == 1..Methods

Packet ==
    [type  : {"CONNECT", "SUBSCRIBE", "PUBLISH", "PINGREQ",
              "CONNACK", "SUBACK", "PINGRESP"},
     topic : Topic,    \* of SUBSCRIBE, SUBACK and PUBLISH: a method
     ok    : BOOLEAN,  \* the broker does not deny, Route does not garble
     id    : Nat]      \* of PUBLISH: the query, or what returns it

Make(type, i, ok, n) == [type |-> type, topic |-> i, ok |-> ok, id |-> n]
Connect == Make("CONNECT", 1, TRUE, 0)
Connack(ok) == Make("CONNACK", 1, ok, 0)
Subscribe(i) == Make("SUBSCRIBE", i, TRUE, 0)
Suback(i, ok) == Make("SUBACK", i, ok, 0)
Publish(i, ok, n) == Make("PUBLISH", i, ok, n)
Pingreq == Make("PINGREQ", 1, TRUE, 0)
Pingresp == Make("PINGRESP", 1, TRUE, 0)

(* transport.c subscribe: from the last method down to the first. *)
Subscriptions == [k \in Topic |-> Subscribe(Methods + 1 - k)]

-----------------------------------------------------------------------------
(* Opening and closing *)

(* What may go wrong needs a port left to connect again. *)
Mishap(kind) == kind \in Adverse /\ port < MaxPort

(* Bug: the new transport takes over the flag of the old one. *)
FreshStillReady ==
    /\ open' = FALSE /\ ready' = ready /\ subscribes' = 0 /\ err' = FALSE
    /\ outgoing' = <<Connect>> /\ writing' = TRUE

(* A new event and a new transport: begin has queued CONNECT. *)
Fresh ==
    /\ open' = FALSE /\ ready' = FALSE /\ subscribes' = 0 /\ err' = FALSE
    /\ outgoing' = <<Connect>> /\ writing' = TRUE

(* net_event_close, cmd_release, cmd_open.  The broker forgets a client     *)
(* that is gone (MQTT_CONNECT_CLEAN_SESSION), what was on its way either    *)
(* way is lost, and Route's returns go to topics nobody listens to.  If     *)
(* connect fails at once there is no connection any more, nor will be.      *)
Reopen ==
    /\ Fresh
    /\ \/ port' = port + 1
       \/ "unreachable" \in Adverse /\ port' = 0
    /\ stream' = <<>> /\ whole' = 0 /\ cut' = FALSE
    /\ subs' = {} /\ asked' = {}
    /\ UNCHANGED published

(* No callback of the link is under way. *)
Idle == port # 0 /\ whole = 0 /\ ~cut

(* net_callback_connect: the socket became writable and has a peer. *)
Connected ==
    /\ Idle /\ ~open
    /\ open' = TRUE
    /\ UNCHANGED <<port, ready, subscribes, err, outgoing, writing, reading,
                   broker, published>>

(* net_callback_connect: the broker refused, or 30 seconds went by. *)
ConnectFails == Idle /\ ~open /\ Mishap("fail") /\ Reopen

(* The broker closed, or the socket failed: net_callback_inout. *)
Closed == Idle /\ open /\ Mishap("close") /\ Reopen

-----------------------------------------------------------------------------
(* Writing, and the broker *)

(* Bug: nobody tells the loop that there is something to write. *)
RelayQuietly(p) == outgoing' = Append(outgoing, p) /\ UNCHANGED writing

(* cmd_relay: the packet is queued and net_event_update waits for the       *)
(* socket to take it.                                                       *)
Relay(p) == outgoing' = Append(outgoing, p) /\ writing' = TRUE

(* The end of every callback: net_event_update. *)
Update == writing' = (outgoing' # <<>>)

(* What the broker makes of a packet, and what it answers. *)
Taken(p, ok) ==
    CASE p.type = "CONNECT" ->
           /\ stream' = Append(stream, Connack(ok))
           /\ UNCHANGED broker
      [] p.type = "SUBSCRIBE" ->
           /\ subs' = IF ok THEN subs \cup {p.topic} ELSE subs
           /\ stream' = Append(stream, Suback(p.topic, ok))
           /\ UNCHANGED asked
      [] p.type = "PUBLISH" ->
           /\ asked' = asked \cup {p}
           /\ UNCHANGED <<subs, stream>>
      [] p.type = "PINGREQ" ->
           /\ stream' = Append(stream, Pingresp)
           /\ UNCHANGED broker

(* net_callback_inout with EV_WRITE: the front of the queue is sent.  The    *)
(* code takes it off the queue one call later, when tcp_send finds nothing  *)
(* left of it; a packet sent in parts arrives with the last of them.        *)
Write ==
    /\ Idle /\ open /\ writing /\ outgoing # <<>>
    /\ outgoing' = Tail(outgoing) /\ Update
    /\ \E ok \in {TRUE} \cup (IF Mishap("deny") THEN {FALSE} ELSE {}) :
           Taken(Head(outgoing), ok)
    /\ UNCHANGED <<port, open, ready, subscribes, err, whole, cut, published>>

(* Route returns a query, as a request or as a reply, to its topic under    *)
(* the port it came from; the broker drops what nobody subscribed to.       *)
Return(q) ==
    /\ q \in asked
    /\ asked' = asked \ {q}
    /\ stream' \in
         IF q.topic \notin subs THEN {stream}
         ELSE {Append(stream, Publish(q.topic, ok, q.id)) :
                 ok \in {TRUE} \cup (IF Mishap("garble") THEN {FALSE} ELSE {})}
    /\ UNCHANGED <<port, transport, whole, cut, subs, published>>

-----------------------------------------------------------------------------
(* Reading *)

(* net_callback_inout with EV_READ: tcp_read takes in what has arrived,     *)
(* some packets and, where the bytes were cut, a part of the next.          *)
Read ==
    /\ Idle /\ open
    /\ \E k \in 0..Len(stream) : \E part \in BOOLEAN :
         /\ k > 0 \/ part
         /\ part => k < Len(stream) /\ Mishap("cut")
         /\ whole' = k /\ cut' = part
    /\ UNCHANGED <<port, transport, stream, broker, published>>

(* Bug: the return codes of SUBACK are not looked at. *)
RefusesConnection(p) == p.type = "CONNACK" /\ ~p.ok

Refuses(p) == p.type \in {"CONNACK", "SUBACK"} /\ ~p.ok

(* input cannot unpack the message: ERROR, but command goes on. *)
Garbled(p) == p.type = "PUBLISH" /\ ~p.ok

(* The loop over the chunk ends with net->err set: a part of a packet is    *)
(* taken for a malformed one, the broker refuses, or an earlier or the last *)
(* packet was garbled.                                                      *)
Fails ==
    IF whole = 0 THEN TRUE
    ELSE \/ Refuses(Head(stream))
         \/ whole = 1 /\ ~cut /\ (err \/ Garbled(Head(stream)))

(* Bug: the count is compared before it is increased. *)
CommandCountsLate(p) ==
    CASE p.type = "CONNACK" ->
           /\ subscribes' = 0 /\ ready' = FALSE
           /\ outgoing' = outgoing \o Subscriptions
           /\ UNCHANGED err
      [] p.type = "SUBACK" ->
           /\ subscribes' = subscribes + 1
           /\ ready' = (subscribes = Methods \/ ready)
           /\ UNCHANGED <<outgoing, err>>
      [] p.type = "PUBLISH" ->
           /\ err' = (err \/ ~p.ok)
           /\ UNCHANGED <<subscribes, ready, outgoing>>
      [] p.type = "PINGRESP" ->
           UNCHANGED <<subscribes, ready, outgoing, err>>

(* transport.c command on a whole packet that is not refused. *)
Command(p) ==
    CASE p.type = "CONNACK" ->
           /\ subscribes' = 0 /\ ready' = FALSE
           /\ outgoing' = outgoing \o Subscriptions
           /\ UNCHANGED err
      [] p.type = "SUBACK" ->
           /\ subscribes' = subscribes + 1
           /\ ready' = (subscribes + 1 = Methods \/ ready)
           /\ UNCHANGED <<outgoing, err>>
      [] p.type = "PUBLISH" ->
           /\ err' = (err \/ ~p.ok)
           /\ UNCHANGED <<subscribes, ready, outgoing>>
      [] p.type = "PINGRESP" ->
           UNCHANGED <<subscribes, ready, outgoing, err>>

(* One turn of the loop over the chunk: cmd_execute. *)
Execute ==
    /\ port # 0 /\ ~Idle
    /\ \/ /\ Fails /\ Reopen
       \/ /\ ~Fails
          /\ Command(Head(stream))
          /\ stream' = Tail(stream)
          /\ whole' = whole - 1
          /\ Update
          /\ UNCHANGED <<port, open, cut, broker, published>>

-----------------------------------------------------------------------------
(* The rest of the daemon *)

(* Bug: cmd_ready is not asked. *)
InitiateEarly(i) ==
    /\ Idle
    /\ published < MaxQueries
    /\ published' = published + 1
    /\ Relay(Publish(i, TRUE, published + 1))
    /\ UNCHANGED <<port, open, ready, subscribes, err, reading, broker>>

(* cmd_initiate_* and invoke: a request was received. *)
Initiate(i) ==
    /\ Idle /\ ready
    /\ published < MaxQueries
    /\ published' = published + 1
    /\ Relay(Publish(i, TRUE, published + 1))
    /\ UNCHANGED <<port, open, ready, subscribes, err, reading, broker>>

(* cmd_timeout: the socket was idle for 30 seconds. *)
Ping ==
    /\ Idle /\ open
    /\ stream = <<>> /\ ~writing
    /\ Relay(Pingreq)
    /\ UNCHANGED <<port, open, ready, subscribes, err, reading, broker,
                   published>>

-----------------------------------------------------------------------------
(* main: net_open. *)
Init ==
    /\ port = 1 /\ open = FALSE
    /\ ready = FALSE /\ subscribes = 0 /\ err = FALSE
    /\ outgoing = <<Connect>> /\ writing = TRUE
    /\ stream = <<>> /\ whole = 0 /\ cut = FALSE
    /\ subs = {} /\ asked = {}
    /\ published = 0

Next ==
    \/ Connected \/ ConnectFails \/ Closed
    \/ Write \/ Read \/ Execute \/ Ping
    \/ \E i \in Topic : Initiate(i)
    \/ \E q \in asked : Return(q)

Spec == Init /\ [][Next]_vars

(* The loop serves a socket that is ready; the broker and Route answer. *)
Fairness ==
    /\ WF_vars(Connected) /\ WF_vars(Write)
    /\ WF_vars(Read) /\ WF_vars(Execute)
    /\ WF_vars(\E q \in asked : Return(q))

FairSpec == Spec /\ Fairness

-----------------------------------------------------------------------------
(* Properties *)

(* The variables have their types. *)
TypeOK ==
    /\ port \in Nat /\ subscribes \in 0..Methods /\ published \in Nat
    /\ open \in BOOLEAN /\ ready \in BOOLEAN /\ err \in BOOLEAN
    /\ cut \in BOOLEAN /\ writing \in BOOLEAN
    /\ outgoing \in Seq(Packet) /\ stream \in Seq(Packet)
    /\ whole \in 0..Len(stream) /\ (cut => whole < Len(stream))
    /\ subs \subseteq Topic /\ asked \subseteq Packet

(* A connection that cmd_initiate_* finds ready has every topic subscribed  *)
(* at the broker: transport.c only counts acknowledgements, and of this     *)
(* connection alone.                                                        *)
ReadySubscribed == ready => subs = Topic

(* No query reaches Route over a connection that cannot take it back.       *)
QueriesCanReturn == asked # {} => subs = Topic

L == INSTANCE Link

(* The connection does to the rest of the daemon what Link says.            *)
ImplementsLink == L!Spec

(* A query on its way out, at Route or on its way back. *)
Pending(n) ==
    \/ \E q \in asked : q.id = n
    \/ \E k \in DOMAIN outgoing : outgoing[k].id = n
    \/ \E k \in DOMAIN stream : stream[k].id = n

(* Every query that is published comes back or is lost with its connection. *)
QueriesSettle == \A n \in 1..MaxQueries : Pending(n) ~> ~Pending(n)

(* The daemon gives up a connection that the broker keeps only because the  *)
(* broker refused something or sent something garbled.  lib/mqtt/mqtt.h:644 *)
(* says of the 0 that mqtt_unpack_response returns that the buffer does not *)
(* hold enough bytes for the packet; command takes it for an error.         *)
LinkDroppedForCause ==
    [][port' # port =>
          \/ Idle
          \/ err
          \/ \E k \in 1..whole : Refuses(stream[k]) \/ Garbled(stream[k])]_vars

(* Whatever happens to its connections, as long as it keeps trying the      *)
(* daemon becomes ready again.                                              *)
LinkHeals == []<>(ready \/ port = 0)
=============================================================================
