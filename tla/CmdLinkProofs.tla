----------------------------- MODULE CmdLinkProofs -----------------------------
(***************************************************************************)
(* What CmdLink promises, for every number of methods and whatever goes    *)
(* wrong.  The argument: until the broker has accepted the connection the  *)
(* link is in one of two known states (Greeting); afterwards each topic is *)
(* in one place only, waiting to be subscribed, subscribed and waiting for *)
(* its acknowledgement to be read, or acknowledged, and subscribes counts  *)
(* the last ones (Serving).                                                *)
(***************************************************************************)
EXTENDS CmdLink, FiniteSetTheorems, TLAPS

(* Types, but for the bound of subscribes, which is a consequence. *)
Types ==
    /\ port \in Nat /\ subscribes \in Nat /\ published \in Nat
    /\ open \in BOOLEAN /\ ready \in BOOLEAN /\ err \in BOOLEAN
    /\ cut \in BOOLEAN /\ writing \in BOOLEAN
    /\ outgoing \in Seq(Packet) /\ stream \in Seq(Packet)
    /\ whole \in 0..Len(stream) /\ (cut => whole < Len(stream))
    /\ subs \subseteq Topic /\ asked \subseteq Packet

(* CONNECT waits to be written, or its answer to be read, and that is all. *)
Greeting ==
    /\ subs = {} /\ asked = {} /\ subscribes = 0 /\ ~ready
    /\ \/ outgoing = <<Connect>> /\ stream = <<>>
       \/ /\ outgoing = <<>>
          /\ \E ok \in BOOLEAN : stream = <<Connack(ok)>>

(* The subscription of topic i is acknowledged in the k-th packet of s.     *)
Acks(s, k, i) == s[k].type = "SUBACK" /\ s[k].topic = i

(* Topics whose acknowledgement the daemon has read. *)
Acked == {i \in subs : \A k \in 1..Len(stream) : ~Acks(stream, k, i)}

(* Requests: never CONNECT again, each topic once and not yet known. *)
Requests ==
    \A k \in 1..Len(outgoing) :
        /\ outgoing[k].type \in {"SUBSCRIBE", "PUBLISH", "PINGREQ"}
        /\ outgoing[k].type = "SUBSCRIBE" =>
             /\ outgoing[k].topic \notin subs
             /\ \A j \in 1..Len(stream) : ~Acks(stream, j, outgoing[k].topic)
             /\ \A j \in 1..Len(outgoing) :
                  /\ outgoing[j].type = "SUBSCRIBE"
                  /\ outgoing[j].topic = outgoing[k].topic
                  => j = k
        /\ outgoing[k].type = "PUBLISH" => ready

(* Answers: never CONNACK again, each topic once, and subscribed if ok. *)
Answers ==
    \A k \in 1..Len(stream) :
        /\ stream[k].type \in {"SUBACK", "PUBLISH", "PINGRESP"}
        /\ stream[k].type = "SUBACK" =>
             /\ stream[k].ok => stream[k].topic \in subs
             /\ \A j \in 1..Len(stream) : Acks(stream, j, stream[k].topic) => j = k

Serving ==
    /\ Requests
    /\ Answers
    /\ subscribes = Cardinality(Acked)
    /\ ready => subscribes = Methods
    /\ asked # {} => ready

(* The loop is told to write exactly while there is something to write.     *)
Awake == writing <=> outgoing # <<>>

Inv == Types /\ Awake /\ (Greeting \/ Serving)

-----------------------------------------------------------------------------
(* The number of topics is Methods. *)
LEMMA Topics == IsFiniteSet(Topic) /\ Cardinality(Topic) = Methods
BY CmdLinkAssumption, FS_Interval DEF Topic

(* A set of topics is no larger than all of them, and equal if as large.   *)
LEMMA SomeTopics ==
    ASSUME NEW S \in SUBSET Topic
    PROVE  /\ IsFiniteSet(S)
           /\ Cardinality(S) \in 0..Methods
           /\ Cardinality(S) = Methods => S = Topic
<1>1. IsFiniteSet(S) /\ Cardinality(S) <= Methods
  BY Topics, FS_Subset
<1>2. Cardinality(S) \in Nat
  BY <1>1, FS_CardinalityType
<1>3. Cardinality(S) = Methods => S = Topic
  BY Topics, FS_Subset
<1> QED
  BY <1>1, <1>2, <1>3, CmdLinkAssumption

(* The packets of the daemon and of the broker are packets. *)
LEMMA Packets ==
    /\ Connect \in Packet /\ Pingreq \in Packet /\ Pingresp \in Packet
    /\ \A ok \in BOOLEAN : Connack(ok) \in Packet
    /\ \A i \in Topic : Subscribe(i) \in Packet
    /\ \A i \in Topic, ok \in BOOLEAN : Suback(i, ok) \in Packet
    /\ \A i \in Topic, ok \in BOOLEAN, n \in Nat : Publish(i, ok, n) \in Packet
BY CmdLinkAssumption
DEF Packet, Topic, Make, Connect, Pingreq, Pingresp, Connack, Subscribe,
    Suback, Publish

(* The subscriptions name every topic once. *)
LEMMA SubscriptionsOnce ==
    /\ Subscriptions \in Seq(Packet) /\ Len(Subscriptions) = Methods
    /\ \A k \in 1..Methods :
         /\ Subscriptions[k].type = "SUBSCRIBE"
         /\ Subscriptions[k].topic = Methods + 1 - k
<1>1. \A k \in 1..Methods : Methods + 1 - k \in Topic
  BY CmdLinkAssumption DEF Topic
<1>2. \A k \in 1..Methods : Subscriptions[k] = Subscribe(Methods + 1 - k)
  BY DEF Subscriptions, Topic
<1>3. Subscriptions \in [1..Methods -> Packet]
  BY <1>1, Packets DEF Subscriptions, Topic
<1>4. Subscriptions \in Seq(Packet) /\ Len(Subscriptions) = Methods
  BY <1>3, CmdLinkAssumption
<1> QED
  BY <1>1, <1>2, <1>4 DEF Subscribe, Make

-----------------------------------------------------------------------------
(* Appending to and taking from a sequence of packets. *)
LEMMA AppendPacket ==
    ASSUME NEW s \in Seq(Packet), NEW p \in Packet
    PROVE  /\ Append(s, p) \in Seq(Packet)
           /\ Len(Append(s, p)) = Len(s) + 1
           /\ \A k \in 1..Len(s) : Append(s, p)[k] = s[k]
           /\ Append(s, p)[Len(s) + 1] = p
OBVIOUS

LEMMA TailPacket ==
    ASSUME NEW s \in Seq(Packet), s # <<>>
    PROVE  /\ Head(s) \in Packet /\ Head(s) = s[1] /\ Len(s) \in Nat \ {0}
           /\ Tail(s) \in Seq(Packet)
           /\ Len(Tail(s)) = Len(s) - 1
           /\ \A k \in 1..Len(s) - 1 : Tail(s)[k] = s[k + 1]
OBVIOUS

(* The queues of a new connection. *)
LEMMA NewQueues ==
    /\ <<Connect>> \in Seq(Packet)
    /\ <<>> \in Seq(Packet) /\ Len(<<>>) = 0
<1>1. \A s : s \in Packet => <<s>> \in Seq(Packet)
  OBVIOUS
<1> QED
  BY <1>1, Packets

(* The first state. *)
LEMMA InitInv == Init => Inv
<1> SUFFICES ASSUME Init PROVE Inv
  OBVIOUS
<1>1. Types
  <2>1. /\ port \in Nat /\ subscribes \in Nat /\ published \in Nat
        /\ outgoing \in Seq(Packet) /\ stream \in Seq(Packet)
        /\ whole \in 0..Len(stream) /\ subs \subseteq Topic /\ asked \subseteq Packet
    BY NewQueues DEF Init
  <2>2. /\ open \in BOOLEAN /\ ready \in BOOLEAN /\ err \in BOOLEAN
        /\ cut \in BOOLEAN /\ writing \in BOOLEAN
        /\ (cut => whole < Len(stream))
    BY Zenon DEF Init
  <2> QED
    BY <2>1, <2>2, Zenon DEF Types
<1>2. Greeting
  BY DEF Init, Greeting
<1>3. Awake
  BY NewQueues DEF Init, Awake
<1> QED
  BY <1>1, <1>2, <1>3 DEF Inv

(* A new connection begins with the greeting. *)
LEMMA ReopenInv == Inv /\ Reopen => Inv'
<1> SUFFICES ASSUME Inv, Reopen PROVE Inv'
  OBVIOUS
<1>1. Types'
  <2>1. /\ port' \in Nat /\ subscribes' \in Nat /\ published' \in Nat
        /\ outgoing' \in Seq(Packet) /\ stream' \in Seq(Packet)
        /\ whole' \in 0..Len(stream')
        /\ subs' \subseteq Topic /\ asked' \subseteq Packet
    BY NewQueues DEF Inv, Types, Reopen, Fresh
  <2>2. /\ open' \in BOOLEAN /\ ready' \in BOOLEAN /\ err' \in BOOLEAN
        /\ cut' \in BOOLEAN /\ writing' \in BOOLEAN
        /\ (cut' => whole' < Len(stream'))
    BY Zenon DEF Reopen, Fresh
  <2> QED
    BY <2>1, <2>2, Zenon DEF Types
<1>2. Greeting'
  BY DEF Reopen, Fresh, Greeting
<1>3. Awake'
  BY NewQueues DEF Reopen, Fresh, Awake
<1> QED
  BY <1>1, <1>2, <1>3 DEF Inv

(* Nothing that Greeting or Serving speaks of changes. *)
LEMMA QuietInv ==
    ASSUME Inv, Types',
           UNCHANGED <<subs, asked, subscribes, ready, outgoing, writing,
                       stream>>
    PROVE  Inv'
<1>1. Acked' = Acked
  BY DEF Acked, Acks
<1>2. Greeting => Greeting'
  BY DEF Greeting
<1>3. Serving => Serving'
  BY <1>1 DEF Serving, Requests, Answers, Acks
<1> QED
  BY <1>2, <1>3 DEF Inv, Awake

(* cmd_relay queues a query of a ready link, or a ping. *)
LEMMA QueueServing ==
    ASSUME Types, Serving, NEW p \in Packet,
           p.type = "PINGREQ" \/ (p.type = "PUBLISH" /\ ready),
           outgoing' = Append(outgoing, p),
           UNCHANGED <<subs, asked, subscribes, ready, stream>>
    PROVE  Serving'
<1>1. /\ Len(outgoing') = Len(outgoing) + 1
      /\ \A k \in 1..Len(outgoing) : outgoing'[k] = outgoing[k]
      /\ outgoing'[Len(outgoing) + 1] = p
      /\ Len(outgoing) \in Nat
  BY AppendPacket DEF Types
<1>2. Requests'
  <2> SUFFICES ASSUME NEW k \in 1..Len(outgoing')
               PROVE  /\ outgoing'[k].type \in {"SUBSCRIBE", "PUBLISH", "PINGREQ"}
                      /\ outgoing'[k].type = "SUBSCRIBE" =>
                           /\ outgoing'[k].topic \notin subs
                           /\ \A j \in 1..Len(stream) : ~Acks(stream, j, outgoing'[k].topic)
                           /\ \A j \in 1..Len(outgoing') :
                                /\ outgoing'[j].type = "SUBSCRIBE"
                                /\ outgoing'[j].topic = outgoing'[k].topic
                                => j = k
                      /\ outgoing'[k].type = "PUBLISH" => ready
    BY DEF Requests, Acks
  <2>1. CASE k \in 1..Len(outgoing)
    BY <2>1, <1>1 DEF Serving, Requests
  <2>2. CASE k = Len(outgoing) + 1
    BY <2>2, <1>1
  <2> QED
    BY <2>1, <2>2, <1>1
<1>3. Answers' /\ Acked' = Acked
  BY DEF Serving, Answers, Acked, Acks
<1> QED
  BY <1>2, <1>3 DEF Serving


(* The first packet of the queue is written; unless it is a subscription    *)
(* nothing else changes but what is asked or answered with p.               *)
LEMMA WrittenServing ==
    ASSUME Types, Serving, outgoing # <<>>,
           outgoing' = Tail(outgoing),
           UNCHANGED <<subs, subscribes, ready>>,
           asked' # {} => ready,
           \/ stream' = stream
           \/ \E p \in Packet :
                p.type = "PINGRESP" /\ stream' = Append(stream, p)
    PROVE  Serving'
<1>1. /\ Len(outgoing) \in Nat \ {0}
      /\ Len(outgoing') = Len(outgoing) - 1
      /\ \A k \in 1..Len(outgoing) - 1 : outgoing'[k] = outgoing[k + 1]
  BY TailPacket DEF Types
<1>2. /\ Len(stream) \in Nat
      /\ Len(stream') \in {Len(stream), Len(stream) + 1}
      /\ \A k \in 1..Len(stream) : stream'[k] = stream[k]
      /\ \A k \in 1..Len(stream') :
            k \notin 1..Len(stream) => stream'[k].type = "PINGRESP"
  <2>1. stream \in Seq(Packet) /\ Len(stream) \in Nat
    BY DEF Types
  <2>2. CASE stream' = stream
    BY <2>1, <2>2
  <2>3. CASE \E p \in Packet : p.type = "PINGRESP" /\ stream' = Append(stream, p)
    BY <2>1, <2>3, AppendPacket
  <2> QED
    BY <2>2, <2>3
<1>3. ASSUME NEW k \in 1..Len(stream'), NEW i
      PROVE  Acks(stream', k, i) <=> (k \in 1..Len(stream) /\ Acks(stream, k, i))
  <2>1. CASE k \in 1..Len(stream)
    BY <2>1, <1>2 DEF Acks
  <2>2. CASE k \notin 1..Len(stream)
    BY <2>2, <1>2 DEF Acks
  <2> QED
    BY <2>1, <2>2
<1>4. Requests'
  BY <1>1, <1>2, <1>3 DEF Serving, Requests, Acks
<1>5. Answers'
  BY SMTT(60), <1>2, <1>3 DEF Serving, Answers, Acks
<1>6. Acked' = Acked
  BY <1>2, <1>3 DEF Acked, Acks
<1> QED
  BY <1>4, <1>5, <1>6 DEF Serving

(* A subscription is written, and granted or not. *)
LEMMA SubscribedServing ==
    ASSUME Types, Serving, outgoing # <<>>, NEW ok \in BOOLEAN,
           NEW i \in Topic, Head(outgoing).topic = i,
           Head(outgoing).type = "SUBSCRIBE",
           outgoing' = Tail(outgoing),
           subs' = IF ok THEN subs \cup {i} ELSE subs,
           stream' = Append(stream, Suback(i, ok)),
           UNCHANGED <<asked, subscribes, ready>>
    PROVE  Serving'
<1>1. /\ Len(outgoing) \in Nat \ {0}
      /\ Len(outgoing') = Len(outgoing) - 1
      /\ \A k \in 1..Len(outgoing) - 1 : outgoing'[k] = outgoing[k + 1]
      /\ outgoing[1].type = "SUBSCRIBE" /\ outgoing[1].topic = i
  BY TailPacket DEF Types
<1>2. /\ Suback(i, ok) \in Packet /\ Suback(i, ok).type = "SUBACK"
      /\ Suback(i, ok).topic = i /\ Suback(i, ok).ok = ok
  BY Packets DEF Suback, Make
<1>3. /\ Len(stream) \in Nat
      /\ Len(stream') = Len(stream) + 1
      /\ \A k \in 1..Len(stream) : stream'[k] = stream[k]
      /\ stream'[Len(stream) + 1] = Suback(i, ok)
  BY <1>2, AppendPacket DEF Types
<1>4. /\ i \notin subs
      /\ \A j \in 1..Len(stream) : ~Acks(stream, j, i)
      /\ \A k \in 2..Len(outgoing) :
            outgoing[k].type = "SUBSCRIBE" => outgoing[k].topic # i
  BY <1>1 DEF Serving, Requests
<1>5. /\ \A k \in 1..Len(stream) : \A t : Acks(stream', k, t) <=> Acks(stream, k, t)
      /\ \A t : Acks(stream', Len(stream) + 1, t) <=> t = i
  BY <1>2, <1>3 DEF Acks
<1>6. Requests'
  <2> SUFFICES ASSUME NEW k \in 1..Len(outgoing')
               PROVE  /\ outgoing'[k].type \in {"SUBSCRIBE", "PUBLISH", "PINGREQ"}
                      /\ outgoing'[k].type = "SUBSCRIBE" =>
                           /\ outgoing'[k].topic \notin subs'
                           /\ \A j \in 1..Len(stream') : ~Acks(stream', j, outgoing'[k].topic)
                           /\ \A j \in 1..Len(outgoing') :
                                /\ outgoing'[j].type = "SUBSCRIBE"
                                /\ outgoing'[j].topic = outgoing'[k].topic
                                => j = k
                      /\ outgoing'[k].type = "PUBLISH" => ready'
    BY DEF Requests, Acks
  <2>1. k + 1 \in 2..Len(outgoing) /\ outgoing'[k] = outgoing[k + 1]
    BY <1>1
  <2>2. /\ outgoing'[k].type \in {"SUBSCRIBE", "PUBLISH", "PINGREQ"}
        /\ outgoing'[k].type = "PUBLISH" => ready'
    BY <2>1, <1>1 DEF Serving, Requests
  <2>3. ASSUME outgoing'[k].type = "SUBSCRIBE"
        PROVE  /\ outgoing'[k].topic \notin subs'
               /\ \A j \in 1..Len(stream') : ~Acks(stream', j, outgoing'[k].topic)
               /\ \A j \in 1..Len(outgoing') :
                    /\ outgoing'[j].type = "SUBSCRIBE"
                    /\ outgoing'[j].topic = outgoing'[k].topic
                    => j = k
    <3>1. /\ outgoing'[k].topic \notin subs
          /\ \A j \in 1..Len(stream) : ~Acks(stream, j, outgoing'[k].topic)
          /\ outgoing'[k].topic # i
      BY <2>1, <2>3, <1>1, <1>4 DEF Serving, Requests
    <3>2. \A j \in 1..Len(stream') : ~Acks(stream', j, outgoing'[k].topic)
      BY <3>1, <1>3, <1>5
    <3>3. \A j \in 1..Len(outgoing') :
             /\ outgoing'[j].type = "SUBSCRIBE"
             /\ outgoing'[j].topic = outgoing'[k].topic
             => j = k
      BY <2>1, <2>3, <1>1 DEF Serving, Requests
    <3> QED
      BY <3>1, <3>2, <3>3
  <2> QED
    BY <2>2, <2>3
<1>7. Answers'
  <2> SUFFICES ASSUME NEW k \in 1..Len(stream')
               PROVE  /\ stream'[k].type \in {"SUBACK", "PUBLISH", "PINGRESP"}
                      /\ stream'[k].type = "SUBACK" =>
                           /\ stream'[k].ok => stream'[k].topic \in subs'
                           /\ \A j \in 1..Len(stream') :
                                 Acks(stream', j, stream'[k].topic) => j = k
    BY DEF Answers, Acks
  <2>1. CASE k \in 1..Len(stream)
    <3>1. stream'[k] = stream[k] /\ subs \subseteq subs'
      BY <2>1, <1>3
    <3>2. stream[k].type = "SUBACK" => stream[k].topic # i
      BY <2>1, <1>4 DEF Acks
    <3>3. /\ stream[k].type \in {"SUBACK", "PUBLISH", "PINGRESP"}
          /\ stream[k].type = "SUBACK" =>
               /\ stream[k].ok => stream[k].topic \in subs
               /\ \A j \in 1..Len(stream) : Acks(stream, j, stream[k].topic) => j = k
      BY <2>1 DEF Serving, Answers
    <3> QED
      BY <3>1, <3>2, <3>3, <1>3, <1>5
  <2>2. CASE k = Len(stream) + 1
    <3>1. stream'[k] = Suback(i, ok) /\ (ok => i \in subs')
      BY <2>2, <1>3
    <3>2. \A j \in 1..Len(stream') : Acks(stream', j, i) => j = k
      BY <2>2, <1>3, <1>4, <1>5
    <3> QED
      BY <3>1, <3>2, <1>2
  <2> QED
    BY <2>1, <2>2, <1>3
<1>8. Acked' = Acked
  BY <1>3, <1>4, <1>5 DEF Acked
<1> QED
  BY <1>6, <1>7, <1>8 DEF Serving

(* Route returns a query or not, and whatever else is added to the stream   *)
(* is no acknowledgement.                                                   *)
LEMMA ReturnedServing ==
    ASSUME Types, Serving, asked' \subseteq asked,
           UNCHANGED <<outgoing, subs, subscribes, ready>>,
           \/ stream' = stream
           \/ \E p \in Packet :
                p.type = "PUBLISH" /\ stream' = Append(stream, p)
    PROVE  Serving'
<1>1. /\ Len(stream) \in Nat
      /\ Len(stream') \in {Len(stream), Len(stream) + 1}
      /\ \A k \in 1..Len(stream) : stream'[k] = stream[k]
      /\ \A k \in 1..Len(stream') :
            k \notin 1..Len(stream) => stream'[k].type = "PUBLISH"
  <2>1. stream \in Seq(Packet) /\ Len(stream) \in Nat
    BY DEF Types
  <2>2. CASE stream' = stream
    BY <2>1, <2>2
  <2>3. CASE \E p \in Packet : p.type = "PUBLISH" /\ stream' = Append(stream, p)
    BY <2>1, <2>3, AppendPacket
  <2> QED
    BY <2>2, <2>3
<1>2. ASSUME NEW k \in 1..Len(stream'), NEW i
      PROVE  Acks(stream', k, i) <=> (k \in 1..Len(stream) /\ Acks(stream, k, i))
  <2>1. CASE k \in 1..Len(stream)
    BY <2>1, <1>1 DEF Acks
  <2>2. CASE k \notin 1..Len(stream)
    BY <2>2, <1>1 DEF Acks
  <2> QED
    BY <2>1, <2>2
<1>3. Requests'
  BY <1>1, <1>2 DEF Serving, Requests
<1>4. Answers'
  BY <1>1, <1>2 DEF Serving, Answers, Acks
<1>5. Acked' = Acked
  BY <1>1, <1>2 DEF Acked
<1> QED
  BY <1>3, <1>4, <1>5 DEF Serving

(* A packet other than an acknowledgement is read. *)
LEMMA ReadServing ==
    ASSUME Types, Serving, stream # <<>>, Head(stream).type # "SUBACK",
           stream' = Tail(stream),
           UNCHANGED <<outgoing, subs, asked, subscribes, ready>>
    PROVE  Serving'
<1>1. /\ Len(stream) \in Nat \ {0} /\ Len(stream') = Len(stream) - 1
      /\ stream[1].type # "SUBACK"
      /\ \A k \in 1..Len(stream') :
            k + 1 \in 1..Len(stream) /\ stream'[k] = stream[k + 1]
  BY TailPacket DEF Types
<1>2. \A i : (\E k \in 1..Len(stream) : Acks(stream, k, i))
             <=> (\E k \in 1..Len(stream') : Acks(stream', k, i))
  <2> SUFFICES ASSUME NEW i
               PROVE  (\E k \in 1..Len(stream) : Acks(stream, k, i))
                      <=> (\E k \in 1..Len(stream') : Acks(stream', k, i))
    OBVIOUS
  <2>1. ASSUME NEW k \in 1..Len(stream), Acks(stream, k, i)
        PROVE  k - 1 \in 1..Len(stream') /\ Acks(stream', k - 1, i)
    BY <2>1, <1>1 DEF Acks
  <2>2. ASSUME NEW k \in 1..Len(stream'), Acks(stream', k, i)
        PROVE  k + 1 \in 1..Len(stream) /\ Acks(stream, k + 1, i)
    BY <2>2, <1>1 DEF Acks
  <2> QED
    BY <2>1, <2>2
<1>3. Requests'
  BY <1>2 DEF Serving, Requests
<1>4. Answers'
  <2> SUFFICES ASSUME NEW k \in 1..Len(stream')
               PROVE  /\ stream'[k].type \in {"SUBACK", "PUBLISH", "PINGRESP"}
                      /\ stream'[k].type = "SUBACK" =>
                           /\ stream'[k].ok => stream'[k].topic \in subs
                           /\ \A j \in 1..Len(stream') :
                                 Acks(stream', j, stream'[k].topic) => j = k
    BY DEF Answers
  <2>1. ASSUME NEW j \in 1..Len(stream'), Acks(stream', j, stream'[k].topic),
               stream'[k].type = "SUBACK"
        PROVE  j = k
    BY <2>1, <1>1 DEF Serving, Answers, Acks
  <2> QED
    BY <2>1, <1>1 DEF Serving, Answers
<1>5. Acked' = Acked
  BY <1>2 DEF Acked
<1> QED
  BY <1>3, <1>4, <1>5 DEF Serving

(* An acknowledgement is read: one more topic is counted. *)
LEMMA CountedServing ==
    ASSUME Types, Serving, stream # <<>>, Head(stream).type = "SUBACK",
           Head(stream).ok,
           stream' = Tail(stream),
           subscribes' = subscribes + 1,
           ready' = (subscribes + 1 = Methods \/ ready),
           UNCHANGED <<outgoing, subs, asked>>
    PROVE  Serving'
<1> DEFINE i == Head(stream).topic
<1>1. /\ Len(stream) \in Nat \ {0} /\ Len(stream') = Len(stream) - 1
      /\ Acks(stream, 1, i) /\ stream[1].ok
      /\ stream[1].type = "SUBACK" /\ stream[1].topic = i
      /\ \A k \in 1..Len(stream') :
            k + 1 \in 2..Len(stream) /\ stream'[k] = stream[k + 1]
  BY TailPacket DEF Types, Acks
<1>2. /\ i \in subs
      /\ \A k \in 2..Len(stream) : ~Acks(stream, k, i)
  BY <1>1 DEF Serving, Answers
<1>3. \A t : (\E k \in 1..Len(stream') : Acks(stream', k, t))
             <=> (\E k \in 1..Len(stream) : Acks(stream, k, t)) /\ t # i
  <2> SUFFICES ASSUME NEW t
               PROVE  (\E k \in 1..Len(stream') : Acks(stream', k, t))
                      <=> (\E k \in 1..Len(stream) : Acks(stream, k, t)) /\ t # i
    OBVIOUS
  <2>1. ASSUME NEW k \in 1..Len(stream'), Acks(stream', k, t)
        PROVE  k + 1 \in 2..Len(stream) /\ Acks(stream, k + 1, t) /\ t # i
    BY <2>1, <1>1, <1>2 DEF Acks
  <2>2. ASSUME NEW k \in 1..Len(stream), Acks(stream, k, t), t # i
        PROVE  k - 1 \in 1..Len(stream') /\ Acks(stream', k - 1, t)
    BY <2>2, <1>1 DEF Acks
  <2> QED
    BY <2>1, <2>2, <1>1
<1>4. Answers'
  <2> SUFFICES ASSUME NEW k \in 1..Len(stream')
               PROVE  /\ stream'[k].type \in {"SUBACK", "PUBLISH", "PINGRESP"}
                      /\ stream'[k].type = "SUBACK" =>
                           /\ stream'[k].ok => stream'[k].topic \in subs
                           /\ \A j \in 1..Len(stream') :
                                 Acks(stream', j, stream'[k].topic) => j = k
    BY DEF Answers
  <2>1. ASSUME NEW j \in 1..Len(stream'), Acks(stream', j, stream'[k].topic),
               stream'[k].type = "SUBACK"
        PROVE  j = k
    BY <2>1, <1>1 DEF Serving, Answers, Acks
  <2> QED
    BY <2>1, <1>1 DEF Serving, Answers
<1>5. Acked \in SUBSET Topic /\ Acked' \in SUBSET Topic
  BY DEF Types, Acked
<1>6. Acked' = Acked \cup {i} /\ i \notin Acked
  BY <1>1, <1>2, <1>3 DEF Acked
<1>7. Cardinality(Acked') = Cardinality(Acked) + 1
  BY <1>5, <1>6, SomeTopics, FS_AddElement
<1>8. Cardinality(Acked') <= Methods /\ Cardinality(Acked) \in Nat
  BY <1>5, SomeTopics, CmdLinkAssumption
<1>9. ~ready
  BY <1>7, <1>8, CmdLinkAssumption DEF Serving
<1>10. ready' => subscribes' = Methods
  BY <1>9
<1>11. Requests'
  BY <1>3, <1>9 DEF Serving, Requests
<1> QED
  BY <1>4, <1>7, <1>9, <1>10, <1>11 DEF Serving

-----------------------------------------------------------------------------
(* Every action preserves the invariant. *)

(* Inv survives what changes nothing but flags of the event. *)
LEMMA ConnectedInv == Inv /\ Connected => Inv'
<1> SUFFICES ASSUME Inv, Connected PROVE Inv'
  OBVIOUS
<1>1. Types'
  BY DEF Inv, Types, Connected, reading, broker
<1>2. UNCHANGED <<subs, asked, subscribes, ready, outgoing, writing, stream>>
  BY DEF Connected, reading, broker
<1> QED
  BY <1>1, <1>2, QuietInv

(* A read only marks a part of the stream. *)
LEMMA ReadInv == Inv /\ Read => Inv'
<1> SUFFICES ASSUME Inv, Read PROVE Inv'
  OBVIOUS
<1>1. Types'
  BY DEF Inv, Types, Read, transport, broker
<1>2. UNCHANGED <<subs, asked, subscribes, ready, outgoing, writing, stream>>
  BY DEF Read, transport, broker
<1> QED
  BY <1>1, <1>2, QuietInv

(* A query needs a ready link, which has left the greeting behind. *)
LEMMA InitiateInv == ASSUME Inv, NEW i \in Topic, Initiate(i) PROVE Inv'
<1> DEFINE p == Publish(i, TRUE, published + 1)
<1>1. p \in Packet /\ p.type = "PUBLISH"
  <2>1. published + 1 \in Nat
    BY DEF Inv, Types
  <2>2. p \in Packet
    BY <2>1, Packets
  <2>3. p.type = "PUBLISH"
    BY DEF Publish, Make
  <2> QED
    BY <2>2, <2>3
<1>2. outgoing' \in Seq(Packet) /\ outgoing' # <<>> /\ writing' = TRUE
  <2>1. outgoing' = Append(outgoing, p) /\ writing' = TRUE
    BY DEF Initiate, Relay
  <2>2. outgoing \in Seq(Packet)
    BY DEF Inv, Types
  <2> HIDE DEF p
  <2> QED
    BY <1>1, <2>1, <2>2, AppendPacket
<1>3. Types' /\ Awake'
  <2>1. published' \in Nat
    BY DEF Inv, Types, Initiate
  <2>2. UNCHANGED <<port, open, ready, subscribes, err, stream, whole, cut,
                    subs, asked>>
    BY DEF Initiate, reading, broker
  <2> QED
    BY <1>2, <2>1, <2>2, Zenon DEF Inv, Types, Awake
<1>4. Serving
  BY DEF Inv, Greeting, Initiate
<1>5. /\ outgoing' = Append(outgoing, p) /\ ready
      /\ UNCHANGED <<subs, asked, subscribes, ready, stream>>
  BY DEF Initiate, Relay, reading, broker
<1>6. Serving'
  BY <1>1, <1>4, <1>5, QueueServing DEF Inv
<1> QED
  BY <1>3, <1>6 DEF Inv

(* A ping needs empty queues, which the greeting never has. *)
LEMMA PingInv == Inv /\ Ping => Inv'
<1> SUFFICES ASSUME Inv, Ping PROVE Inv'
  OBVIOUS
<1>1. Pingreq \in Packet /\ Pingreq.type = "PINGREQ"
  BY Packets DEF Pingreq, Make
<1>2. outgoing' \in Seq(Packet) /\ outgoing' # <<>> /\ writing' = TRUE
  BY <1>1, AppendPacket DEF Inv, Types, Ping, Relay
<1>3. Types' /\ Awake'
  <2>1. UNCHANGED <<port, open, ready, subscribes, err, stream, whole, cut,
                    subs, asked, published>>
    BY DEF Ping, reading, broker
  <2> QED
    BY <1>2, <2>1, Zenon DEF Inv, Types, Awake
<1>4. Serving
  <2>1. outgoing = <<>> /\ stream = <<>>
    BY Zenon DEF Inv, Awake, Ping
  <2> QED
    BY <2>1 DEF Inv, Greeting
<1>5. /\ outgoing' = Append(outgoing, Pingreq)
      /\ UNCHANGED <<subs, asked, subscribes, ready, stream>>
  BY DEF Ping, Relay, reading, broker
<1>6. Serving'
  BY <1>1, <1>4, <1>5, QueueServing DEF Inv
<1> QED
  BY <1>3, <1>6 DEF Inv

(* The first packet is written: the greeting goes on, a subscription is     *)
(* granted or not, a query is asked, a ping answered.                       *)
LEMMA WriteInv == Inv /\ Write => Inv'
<1> SUFFICES ASSUME Inv, Write PROVE Inv'
  OBVIOUS
<1> DEFINE p == Head(outgoing)
<1>1. PICK ok \in BOOLEAN : Taken(p, ok)
  BY DEF Write
<1>2. /\ outgoing # <<>> /\ outgoing' = Tail(outgoing)
      /\ UNCHANGED <<port, open, ready, subscribes, err, whole, cut, published>>
      /\ writing' = (outgoing' # <<>>)
  BY DEF Write, Update
<1>3. outgoing \in Seq(Packet) /\ stream \in Seq(Packet)
  BY DEF Inv, Types
<1>4. p \in Packet /\ p = outgoing[1] /\ outgoing' \in Seq(Packet)
  BY <1>2, <1>3, TailPacket
<1>5. p.topic \in Topic
  BY <1>4 DEF Packet
<1>6. /\ stream' \in Seq(Packet)
      /\ Len(stream) \in Nat /\ Len(stream') \in {Len(stream), Len(stream) + 1}
      /\ subs' \subseteq Topic /\ asked' \subseteq Packet
  <2>1. subs \subseteq Topic /\ asked \subseteq Packet
    BY DEF Inv, Types
  <2>2. \/ /\ stream' = Append(stream, Connack(ok)) /\ UNCHANGED <<subs, asked>>
        \/ /\ stream' = Append(stream, Suback(p.topic, ok))
           /\ subs' \subseteq subs \cup {p.topic} /\ UNCHANGED asked
        \/ /\ stream' = stream /\ UNCHANGED subs /\ asked' = asked \cup {p}
        \/ /\ stream' = Append(stream, Pingresp) /\ UNCHANGED <<subs, asked>>
    <3>1. CASE p.type = "CONNECT"
      BY <1>1, <3>1 DEF Taken, broker
    <3>2. CASE p.type = "SUBSCRIBE"
      BY <1>1, <3>2 DEF Taken
    <3>3. CASE p.type = "PUBLISH"
      BY <1>1, <3>3 DEF Taken
    <3>4. CASE p.type = "PINGREQ"
      BY <1>1, <3>4 DEF Taken, broker
    <3>5. p.type \in {"CONNECT", "SUBSCRIBE", "PUBLISH", "PINGREQ"}
      <4>1. CASE Greeting
        BY <1>2, <1>4, <4>1 DEF Greeting, Connect, Make
      <4>2. CASE Serving
        BY <1>2, <1>3, <1>4, <4>2, TailPacket DEF Serving, Requests
      <4> QED
        BY <4>1, <4>2 DEF Inv
    <3> QED
      BY <3>1, <3>2, <3>3, <3>4, <3>5
  <2>3. /\ Connack(ok) \in Packet /\ Suback(p.topic, ok) \in Packet
        /\ Pingresp \in Packet
    BY <1>5, Packets
  <2>4. \A x \in Packet : /\ Append(stream, x) \in Seq(Packet)
                          /\ Len(Append(stream, x)) = Len(stream) + 1
    BY <1>3, AppendPacket
  <2>5. Len(stream) \in Nat
    BY <1>3
  <2> HIDE DEF p
  <2>6. stream' \in Seq(Packet) /\ Len(stream') \in {Len(stream), Len(stream) + 1}
    BY <1>3, <2>2, <2>3, <2>4, <2>5
  <2>7. subs' \subseteq Topic /\ asked' \subseteq Packet
    BY <1>4, <1>5, <2>1, <2>2
  <2> QED
    BY <2>5, <2>6, <2>7
<1>7. Types'
  <2>1. whole' \in 0..Len(stream') /\ (cut' => whole' < Len(stream'))
    BY <1>2, <1>6 DEF Inv, Types
  <2> QED
    BY <1>2, <1>4, <1>6, <2>1 DEF Inv, Types
<1>8. Awake'
  BY <1>2, Zenon DEF Awake
<1>9. CASE Greeting
  <2>1. outgoing = <<Connect>> /\ stream = <<>>
    BY <1>2, <1>9 DEF Greeting
  <2>2. p = Connect /\ outgoing' = <<>> /\ p.type = "CONNECT"
    BY <1>2, <2>1 DEF Connect, Make
  <2>3. stream' = <<Connack(ok)>> /\ UNCHANGED <<subs, asked>>
    <3>1. stream' = Append(stream, Connack(ok)) /\ UNCHANGED <<subs, asked>>
      BY <1>1, <2>2 DEF Taken, broker
    <3>2. Append(<<>>, Connack(ok)) = <<Connack(ok)>>
      OBVIOUS
    <3> QED
      BY <2>1, <3>1, <3>2
  <2>4. Greeting'
    BY <1>2, <1>9, <2>2, <2>3 DEF Greeting
  <2> QED
    BY <1>7, <1>8, <2>4 DEF Inv
<1>10. CASE Serving
  <2>1. p.type \in {"SUBSCRIBE", "PUBLISH", "PINGREQ"} /\ (p.type = "PUBLISH" => ready)
    BY <1>2, <1>3, <1>4, <1>10, TailPacket DEF Serving, Requests
  <2>2. CASE p.type = "SUBSCRIBE"
    <3>1. /\ subs' = IF ok THEN subs \cup {p.topic} ELSE subs
          /\ stream' = Append(stream, Suback(p.topic, ok))
          /\ asked' = asked
      BY <1>1, <2>2 DEF Taken
    <3> QED
      BY <1>2, <1>5, <1>10, <2>2, <3>1, SubscribedServing, <1>7, <1>8 DEF Inv
  <2>3. CASE p.type = "PUBLISH"
    <3>1. UNCHANGED <<subs, stream>>
      BY <1>1, <2>3 DEF Taken
    <3>2. Serving'
      BY <1>2, <1>10, <2>1, <2>3, <3>1, WrittenServing DEF Inv
    <3> QED
      BY <3>2, <1>7, <1>8 DEF Inv
  <2>4. CASE p.type = "PINGREQ"
    <3>1. UNCHANGED <<subs, asked>> /\ stream' = Append(stream, Pingresp)
      BY <1>1, <2>4 DEF Taken, broker
    <3>2. Pingresp \in Packet /\ Pingresp.type = "PINGRESP"
      BY Packets DEF Pingresp, Make
    <3>3. asked' # {} => ready
      BY <1>10, <3>1 DEF Serving
    <3>4. Serving'
      BY <1>2, <1>10, <3>1, <3>2, <3>3, WrittenServing DEF Inv
    <3> QED
      BY <3>4, <1>7, <1>8 DEF Inv
  <2> QED
    BY <2>1, <2>2, <2>3, <2>4
<1> QED
  BY <1>9, <1>10 DEF Inv

(* Route returns a query. *)
LEMMA ReturnInv == ASSUME Inv, NEW q \in asked, Return(q) PROVE Inv'
<1>1. /\ q \in Packet /\ q.topic \in Topic /\ q.id \in Nat
      /\ stream \in Seq(Packet)
  BY DEF Inv, Types, Packet
<1>2. /\ asked' = asked \ {q}
      /\ UNCHANGED <<port, open, ready, subscribes, err, outgoing, writing, whole,
                     cut, subs, published>>
  BY DEF Return, transport
<1>3. \/ stream' = stream
      \/ \E p \in Packet : p.type = "PUBLISH" /\ stream' = Append(stream, p)
  <2>1. \/ stream' = stream
        \/ \E ok \in BOOLEAN : stream' = Append(stream, Publish(q.topic, ok, q.id))
    BY DEF Return
  <2>2. ASSUME NEW ok \in BOOLEAN
        PROVE  /\ Publish(q.topic, ok, q.id) \in Packet
               /\ Publish(q.topic, ok, q.id).type = "PUBLISH"
    BY <1>1, Packets DEF Publish, Make
  <2> QED
    BY <2>1, <2>2
<1>4. /\ stream' \in Seq(Packet)
      /\ Len(stream) \in Nat /\ Len(stream') \in {Len(stream), Len(stream) + 1}
  BY <1>1, <1>3, AppendPacket
<1>5. Types'
  <2>1. whole' \in 0..Len(stream') /\ (cut' => whole' < Len(stream'))
    BY <1>2, <1>4 DEF Inv, Types
  <2> QED
    BY <1>2, <1>4, <2>1 DEF Inv, Types
<1>6. Awake'
  BY <1>2 DEF Inv, Awake
<1>7. Serving
  BY DEF Inv, Greeting
<1>8. Serving'
  BY <1>2, <1>3, <1>7, ReturnedServing DEF Inv
<1> QED
  BY <1>5, <1>6, <1>8 DEF Inv

(* One packet of the chunk is executed, or the connection is given up.      *)
LEMMA ExecuteInv == Inv /\ Execute => Inv'
<1> SUFFICES ASSUME Inv, Execute PROVE Inv'
  OBVIOUS
<1> DEFINE p == Head(stream)
<1>1. CASE Reopen
  BY <1>1, ReopenInv
<1>2. CASE ~Reopen
  <2>1. /\ ~Fails /\ Command(p)
        /\ stream' = Tail(stream) /\ whole' = whole - 1
        /\ writing' = (outgoing' # <<>>)
        /\ UNCHANGED <<port, open, cut, subs, asked, published>>
    BY <1>2 DEF Execute, Update, broker
  <2>2. whole # 0 /\ ~Refuses(p)
    BY <2>1 DEF Fails
  <2>3. stream \in Seq(Packet) /\ whole \in 1..Len(stream) /\ stream # <<>>
    BY <2>2, NewQueues DEF Inv, Types
  <2>4. /\ p \in Packet /\ p = stream[1]
        /\ stream' \in Seq(Packet) /\ Len(stream') = Len(stream) - 1
        /\ Len(stream) \in Nat \ {0}
    BY <2>1, <2>3, TailPacket
  <2>5. p.ok \in BOOLEAN
    BY <2>4 DEF Packet
  <2>6. whole' \in 0..Len(stream') /\ (cut' => whole' < Len(stream'))
    BY <2>1, <2>3, <2>4 DEF Inv, Types
  <2>7. \/ p.type \in {"CONNACK", "SUBACK"} /\ p.ok
        \/ p.type \in {"PUBLISH", "PINGRESP"}
    <3>1. p.type \in {"CONNACK", "SUBACK", "PUBLISH", "PINGRESP"}
      <4>1. CASE Greeting
        BY <2>3, <2>4, <4>1 DEF Greeting, Connack, Make
      <4>2. CASE Serving
        BY <2>4, <4>2 DEF Serving, Answers
      <4> QED
        BY <4>1, <4>2 DEF Inv
    <3> QED
      BY <2>2, <3>1 DEF Refuses
  <2>8. Awake'
    BY <2>1, Zenon DEF Awake
  <2>9. CASE p.type = "CONNACK"
    <3>1. /\ subscribes' = 0 /\ ready' = FALSE /\ UNCHANGED err
          /\ outgoing' = outgoing \o Subscriptions
      BY <2>1, <2>9 DEF Command
    <3>2. Greeting
      BY <2>4, <2>9 DEF Inv, Serving, Answers
    <3>3. outgoing = <<>> /\ Len(stream) = 1 /\ subs = {} /\ asked = {}
      BY <2>3, <3>2 DEF Greeting
    <3>4. outgoing' = Subscriptions
      BY <3>1, <3>3, SubscriptionsOnce
    <3>5. stream' = <<>> /\ Len(stream') = 0
      BY <2>4, <3>3
    <3>6. Types'
      <4>1. /\ outgoing' \in Seq(Packet) /\ subscribes' \in Nat
            /\ subs' \subseteq Topic /\ asked' \subseteq Packet
            /\ port' \in Nat /\ published' \in Nat
        BY <2>1, <3>1, <3>3, <3>4, SubscriptionsOnce DEF Inv, Types
      <4>2. /\ open' \in BOOLEAN /\ ready' \in BOOLEAN /\ err' \in BOOLEAN
            /\ cut' \in BOOLEAN /\ writing' \in BOOLEAN
        BY <2>1, <3>1, Zenon DEF Inv, Types
      <4> QED
        BY <2>4, <2>6, <4>1, <4>2, Zenon DEF Types
    <3>7. Requests'
      <4> SUFFICES ASSUME NEW k \in 1..Len(outgoing')
                   PROVE  /\ outgoing'[k].type = "SUBSCRIBE"
                          /\ \A j \in 1..Len(outgoing') :
                               outgoing'[j].topic = outgoing'[k].topic => j = k
        <5>1. subs' = {} /\ \A j : j \notin 1..Len(stream')
          BY <2>1, <3>3, <3>5
        <5> QED
          BY <5>1, Zenon DEF Requests
      <4>1. Len(outgoing') = Methods
        BY <3>4, SubscriptionsOnce
      <4>2. \A j \in 1..Methods : /\ outgoing'[j].type = "SUBSCRIBE"
                                  /\ outgoing'[j].topic = Methods + 1 - j
        BY <3>4, SubscriptionsOnce
      <4> QED
        BY <4>1, <4>2, CmdLinkAssumption
    <3>8. Answers'
      BY <3>5 DEF Answers
    <3>9. Acked' = {} /\ Cardinality(Acked') = 0
      <4>1. Acked' \subseteq subs'
        BY DEF Acked
      <4> QED
        BY <2>1, <3>3, <4>1, FS_EmptySet
    <3>10. Serving'
      BY <2>1, <3>1, <3>3, <3>7, <3>8, <3>9 DEF Serving
    <3> QED
      BY <2>8, <3>6, <3>10 DEF Inv
  <2>10. CASE p.type # "CONNACK"
    <3>1. Serving
      BY <2>3, <2>4, <2>10 DEF Inv, Greeting, Connack, Make
    <3>2. CASE p.type = "SUBACK"
      <4>1. /\ subscribes' = subscribes + 1
            /\ ready' = (subscribes + 1 = Methods \/ ready)
            /\ UNCHANGED <<outgoing, err>>
        BY <2>1, <3>2 DEF Command
      <4>2. Serving'
        BY <2>1, <2>3, <2>7, <3>1, <3>2, <4>1, CountedServing DEF Inv
      <4>3. Types'
        <5>1. /\ outgoing' \in Seq(Packet) /\ subscribes' \in Nat
              /\ subs' \subseteq Topic /\ asked' \subseteq Packet
              /\ port' \in Nat /\ published' \in Nat
          BY <2>1, <4>1 DEF Inv, Types
        <5>2. /\ open' \in BOOLEAN /\ ready' \in BOOLEAN /\ err' \in BOOLEAN
              /\ cut' \in BOOLEAN /\ writing' \in BOOLEAN
          BY <2>1, <4>1, Zenon DEF Inv, Types
        <5> QED
          BY <2>4, <2>6, <5>1, <5>2, Zenon DEF Types
      <4> QED
        BY <2>8, <4>2, <4>3 DEF Inv
    <3>3. CASE p.type \in {"PUBLISH", "PINGRESP"}
      <4>1. /\ UNCHANGED <<subscribes, ready, outgoing>>
            /\ err' = err \/ err' = (err \/ ~p.ok)
        BY <2>1, <3>3 DEF Command
      <4>2. Serving'
        BY <2>1, <2>3, <3>1, <3>3, <4>1, ReadServing DEF Inv
      <4>3. Types'
        <5>1. /\ outgoing' \in Seq(Packet) /\ subscribes' \in Nat
              /\ subs' \subseteq Topic /\ asked' \subseteq Packet
              /\ port' \in Nat /\ published' \in Nat
          BY <2>1, <4>1 DEF Inv, Types
        <5>2. /\ open' \in BOOLEAN /\ ready' \in BOOLEAN /\ err' \in BOOLEAN
              /\ cut' \in BOOLEAN /\ writing' \in BOOLEAN
          BY <2>1, <4>1, Zenon DEF Inv, Types
        <5> QED
          BY <2>4, <2>6, <5>1, <5>2, Zenon DEF Types
      <4> QED
        BY <2>8, <4>2, <4>3 DEF Inv
    <3> QED
      BY <2>7, <2>10, <3>2, <3>3
  <2> QED
    BY <2>9, <2>10
<1> QED
  BY <1>1, <1>2

-----------------------------------------------------------------------------
(* Theorems *)

(* The inductive invariant holds: every action of the daemon, the broker    *)
(* and Route preserves it.                                                  *)
THEOREM LinkInvariance == Spec => []Inv
<1>1. Inv /\ [Next]_vars => Inv'
  <2> SUFFICES ASSUME Inv, [Next]_vars PROVE Inv'
    OBVIOUS
  <2>1. CASE Connected
    BY <2>1, ConnectedInv
  <2>2. CASE ConnectFails
    BY <2>2, ReopenInv DEF ConnectFails
  <2>3. CASE Closed
    BY <2>3, ReopenInv DEF Closed
  <2>4. CASE Write
    BY <2>4, WriteInv
  <2>5. CASE Read
    BY <2>5, ReadInv
  <2>6. CASE Execute
    BY <2>6, ExecuteInv
  <2>7. CASE Ping
    BY <2>7, PingInv
  <2>8. ASSUME NEW i \in Topic, Initiate(i) PROVE Inv'
    BY <2>8, InitiateInv
  <2>9. ASSUME NEW q \in asked, Return(q) PROVE Inv'
    BY <2>9, ReturnInv
  <2>10. CASE UNCHANGED vars
    <3>1. Types'
      BY <2>10, Zenon DEF vars, transport, reading, broker, Inv, Types
    <3>2. UNCHANGED <<subs, asked, subscribes, ready, outgoing, writing, stream>>
      BY <2>10 DEF vars, transport, reading, broker
    <3> QED
      BY <3>1, <3>2, QuietInv
  <2> QED
    BY <2>1, <2>2, <2>3, <2>4, <2>5, <2>6, <2>7, <2>8, <2>9, <2>10 DEF Next
<1> QED
  BY <1>1, InitInv, PTL DEF Spec

(* What the invariant says of the acknowledged topics. *)
LEMMA ReadyFacts == Inv => TypeOK /\ ReadySubscribed /\ QueriesCanReturn
<1> SUFFICES ASSUME Inv PROVE TypeOK /\ ReadySubscribed /\ QueriesCanReturn
  OBVIOUS
<1>1. CASE Greeting
  <2>1. subscribes \in 0..Methods /\ ~ready /\ asked = {}
    BY <1>1, CmdLinkAssumption DEF Greeting
  <2> QED
    BY <2>1, Zenon DEF Inv, Types, TypeOK, ReadySubscribed, QueriesCanReturn
<1>2. CASE Serving
  <2>1. Acked \in SUBSET Topic /\ Acked \subseteq subs /\ subs \subseteq Topic
    BY DEF Inv, Types, Acked
  <2>2. subscribes \in 0..Methods /\ (subscribes = Methods => Acked = Topic)
    BY <1>2, <2>1, SomeTopics DEF Serving
  <2>3. ready => subs = Topic
    BY <1>2, <2>1, <2>2 DEF Serving
  <2>4. asked # {} => subs = Topic
    BY <1>2, <2>3 DEF Serving
  <2> QED
    BY <2>2, <2>3, <2>4, Zenon DEF Inv, Types, TypeOK, ReadySubscribed, QueriesCanReturn
<1> QED
  BY <1>1, <1>2 DEF Inv

(* The variables have their types; in particular no more acknowledgements   *)
(* are counted than there are topics.                                       *)
THEOREM LinkTypeCorrect == Spec => []TypeOK
BY LinkInvariance, ReadyFacts, PTL

(* transport.c sets ready only when the broker holds every subscription of  *)
(* this very connection.                                                    *)
THEOREM LinkReady == Spec => []ReadySubscribed
BY LinkInvariance, ReadyFacts, PTL

(* A query that the broker has passed on can come back.                     *)
THEOREM LinkQueriesReturn == Spec => []QueriesCanReturn
BY LinkInvariance, ReadyFacts, PTL

(* Every step of the connection is a step of Link, or none.                 *)
THEOREM LinkRefinement == Spec => ImplementsLink
<1>1. Init => L!Init
  BY DEF Init, L!Init
<1>2. Inv /\ [Next]_vars => [L!Next]_L!vars
  <2> SUFFICES ASSUME Inv, [Next]_vars PROVE [L!Next]_L!vars
    OBVIOUS
  <2>1. port \in Nat /\ ready \in BOOLEAN
    BY DEF Inv, Types
  <2>2. ASSUME Reopen, port # 0 PROVE L!Dropped
    BY <2>2 DEF Reopen, Fresh, L!Dropped
  <2>3. CASE Connected
    BY <2>3 DEF Connected, L!vars
  <2>4. CASE ConnectFails \/ Closed
    BY <2>2, <2>4 DEF ConnectFails, Closed, Idle, L!Next
  <2>5. CASE Write \/ Ping
    BY <2>5 DEF Write, Ping, L!vars
  <2>6. CASE Read
    BY <2>6 DEF Read, transport, L!vars
  <2>7. CASE Execute
    <3>1. CASE Reopen
      BY <2>2, <2>7, <3>1 DEF Execute, L!Next
    <3>2. CASE ~Reopen
      <4>1. /\ Command(Head(stream)) /\ port' = port /\ port # 0
            /\ ~Fails
        BY <2>7, <3>2 DEF Execute
      <4>2. stream \in Seq(Packet) /\ stream # <<>> /\ Head(stream) = stream[1]
        <5>1. whole # 0
          BY <4>1, Zenon DEF Fails
        <5>2. stream \in Seq(Packet) /\ whole \in 0..Len(stream)
          BY DEF Inv, Types
        <5> QED
          BY <5>1, <5>2, NewQueues, TailPacket
      <4>3. \/ Head(stream).type = "CONNACK" /\ ~ready
            \/ Head(stream).type \in {"SUBACK", "PUBLISH", "PINGRESP"}
        <5>1. CASE Greeting
          BY <4>2, <5>1 DEF Greeting, Connack, Make
        <5>2. CASE Serving
          BY <4>2, <5>2 DEF Serving, Answers
        <5> QED
          BY <5>1, <5>2 DEF Inv
      <4>4. CASE Head(stream).type = "CONNACK"
        <5>1. ready' = FALSE /\ ready = FALSE
          BY <2>1, <4>1, <4>3, <4>4 DEF Command
        <5> QED
          BY <4>1, <5>1 DEF L!vars
      <4>5. CASE Head(stream).type = "SUBACK"
        <5>1. ready' = TRUE \/ ready' = ready
          BY <2>1, <4>1, <4>5 DEF Command
        <5> QED
          BY <2>1, <4>1, <5>1 DEF L!Next, L!Subscribed, L!vars
      <4>6. CASE Head(stream).type \in {"PUBLISH", "PINGRESP"}
        <5>1. ready' = ready
          BY <4>1, <4>6 DEF Command
        <5> QED
          BY <4>1, <5>1 DEF L!vars
      <4> QED
        BY <4>3, <4>4, <4>5, <4>6
    <3> QED
      BY <3>1, <3>2
  <2>8. ASSUME NEW i \in Topic, Initiate(i) PROVE UNCHANGED L!vars
    BY <2>8 DEF Initiate, L!vars
  <2>9. ASSUME NEW q \in asked, Return(q) PROVE UNCHANGED L!vars
    BY <2>9 DEF Return, transport, L!vars
  <2>10. CASE UNCHANGED vars
    BY <2>10 DEF vars, transport, L!vars
  <2> QED
    BY <2>3, <2>4, <2>5, <2>6, <2>7, <2>8, <2>9, <2>10 DEF Next
<1> QED
  BY <1>1, <1>2, LinkInvariance, PTL DEF Spec, ImplementsLink, L!Spec
=============================================================================
