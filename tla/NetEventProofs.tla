--------------------------- MODULE NetEventProofs ---------------------------
(***************************************************************************)
(* What is proved of NetEvent, for any delays, lifetimes and bounds.       *)
(*                                                                         *)
(* The code of src/src/net.c works on the map of events with a handful of  *)
(* operations, which its callbacks call one after the other and for each   *)
(* other's events.  Good(ev, tx, k, C) is what every one of them keeps of  *)
(* the events ev and the transactions tx, with the link k, wherever in a   *)
(* callback it is called; only the events of C may be waiting for an       *)
(* update that is still to come.                                           *)
(***************************************************************************)
EXTENDS NetEvent, TLAPS

EventShape == [bind : Binding, type : Type, handler : Handler, out : BOOLEAN,
               write : BOOLEAN, timer : Nat \cup {Never}, calm : Nat]

\* An event that nothing wakes has not been calm; a timer of SIP runs for the
\* delay of a sweep at most, and DNS has none.
Timed(x) ==
  /\ x \in EventShape
  /\ x.timer = Never => x.calm = 0
  /\ x.bind # "cmd" => x.timer <= Sweep
  /\ x.bind = "dns" => x.timer = Never

Events(ev) == DOMAIN ev \subseteq Nat \ {None} /\ \A e \in DOMAIN ev : Timed(ev[e])

TxnShape == [event : Nat, age : Nat, token : Nat, left : BOOLEAN]

Txns(tx) == \A n \in DOMAIN tx : tx[n] \in TxnShape

IsLink(x) == x.bind = "cmd" /\ x.type = "CONNECT"

Linked(ev, k) ==
  /\ k # None => k \in DOMAIN ev
  /\ \A e \in DOMAIN ev : IsLink(ev[e]) <=> e = k

\* Only a client transaction is left over without its event.
Owned(ev, tx) ==
  \A n \in DOMAIN tx :
    IF tx[n].left THEN tx[n].token # None
    ELSE tx[n].event \in DOMAIN ev /\ ev[tx[n].event].bind \in Sip

Watched(ev, tx, C) ==
  /\ \A e \in DOMAIN ev \ C : ev[e].out => ev[e].write \/ ev[e].timer # Never
  /\ \A n \in DOMAIN tx :
       ~tx[n].left /\ tx[n].event \notin C => ev[tx[n].event].timer # Never

\* The timer of an event has run for Sweep - timer.  If that is less than the
\* event was calm, it began with a sweep.
SweptIn(x, age) == x.calm > Sweep - x.timer => age <= Lifetime + Sweep - x.timer

Calmed(ev, tx) ==
  \A n \in DOMAIN tx :
    ~tx[n].left /\ ev[tx[n].event].timer # Never => SweptIn(ev[tx[n].event], tx[n].age)

Good(ev, tx, k, C) ==
  /\ Events(ev) /\ Txns(tx) /\ k \in Nat
  /\ Linked(ev, k) /\ Owned(ev, tx) /\ Watched(ev, tx, C) /\ Calmed(ev, tx)

-----------------------------------------------------------------------------
(* Delays *)

LEMMA DelayIs ==
  ASSUME NEW b
  PROVE  /\ Delay(b) \in Nat \cup {Never} /\ (b = "dns" <=> Delay(b) = Never)
         /\ b # "cmd" => Delay(b) <= Sweep
  BY NetAssumption DEF Delay, Never

LEMMA Names ==
  /\ "tcp" \in Binding /\ "udp" \in Binding /\ "dns" \in Binding /\ "cmd" \in Binding
  /\ "LISTEN" \in Type /\ "ACCEPT" \in Type /\ "CONNECT" \in Type
  /\ "accept" \in Handler /\ "connect" \in Handler /\ "inout" \in Handler
  BY DEF Binding, Type, Handler

\* An event x that has nothing to send yet.
Born(x, b, type) == Timed(x) /\ x.bind = b /\ x.type = type /\ ~x.out

\* A new event is what net_event_new was asked for.
LEMMA NewIs ==
  ASSUME NEW b \in Binding, NEW type \in Type, NEW handler \in Handler
  PROVE  Born(New(b, type, handler), b, type) /\ Born(Awaited(b, type, handler), b, type)
<1> DEFINE x == New(b, type, handler)
           y == Awaited(b, type, handler)
<1>1. /\ x \in EventShape /\ x.bind = b /\ x.type = type /\ x.out = FALSE
      /\ x.timer = Never /\ x.calm = 0
  BY DEF New, EventShape
<1>2. y = [x EXCEPT !.timer = Delay(b)]
  BY DEF Awaited
<1> HIDE DEF x, y
<1>3. /\ y \in EventShape /\ y.bind = b /\ y.type = type /\ y.out = FALSE
      /\ y.timer = Delay(b) /\ y.calm = 0
  BY <1>1, <1>2, DelayIs DEF EventShape
<1>4. Timed(x)
  BY <1>1, NetAssumption DEF Timed, Never
<1>5. Timed(y)
  BY <1>3, DelayIs DEF Timed
<1> QED
  BY <1>1, <1>3, <1>4, <1>5 DEF Born, x, y

\* The link is new with its CONNECT queued, and waits to be connected.
LEMMA LinkIs ==
  Timed(Link) /\ IsLink(Link) /\ Link.write = TRUE
<1> DEFINE y == Awaited("cmd", "CONNECT", "connect")
<1>1. Timed(y) /\ y.bind = "cmd" /\ y.type = "CONNECT"
  <2>1. Born(y, "cmd", "CONNECT")
    BY NewIs, Names
  <2> QED
    BY <2>1 DEF Born
<1>2. y.write = TRUE
  BY DEF Awaited, New
<1>3. Link = [y EXCEPT !.out = TRUE]
  BY DEF Link
<1> HIDE DEF y
<1> QED
  BY <1>1, <1>2, <1>3 DEF Timed, EventShape, IsLink

-----------------------------------------------------------------------------
(* What keeps events and transactions good *)

\* More may be waiting for an update.
LEMMA Weaken ==
  ASSUME NEW ev, NEW tx, NEW k, NEW C, NEW D, Good(ev, tx, k, C), C \subseteq D
  PROVE  Good(ev, tx, k, D)
  BY DEF Good, Watched

\* An event e becomes x: the socket it stands for is the same, and its timer
\* runs on or begins again.
LEMMA Retouch ==
  ASSUME NEW ev, NEW tx, NEW k, NEW C, NEW D, NEW e \in DOMAIN ev, NEW x,
         Good(ev, tx, k, C), Timed(x), x.bind = ev[e].bind, x.type = ev[e].type,
         C \subseteq D \cup {e},
         \/ x.timer = ev[e].timer /\ x.calm = ev[e].calm /\ (e \in C => e \in D)
         \/ x.calm = 0 /\ (x.timer # Never \/ x.bind \notin Sip),
         e \notin D /\ x.out => x.write \/ x.timer # Never
  PROVE  Good([ev EXCEPT ![e] = x], tx, k, D)
<1> DEFINE w == [ev EXCEPT ![e] = x]
<1>1. DOMAIN w = DOMAIN ev /\ w[e] = x /\ \A f \in DOMAIN ev : f # e => w[f] = ev[f]
  OBVIOUS
<1> HIDE DEF w
<1>2. Events(w)
  BY <1>1 DEF Good, Events
<1>3. Linked(w, k)
  BY <1>1 DEF Good, Linked, IsLink
<1>4. Owned(w, tx)
  BY <1>1 DEF Good, Owned
<1>5. Watched(w, tx, D)
  BY <1>1 DEF Good, Watched, Owned
<1>6. Calmed(w, tx)
  <2>1. ASSUME NEW n \in DOMAIN tx, ~tx[n].left, w[tx[n].event].timer # Never
        PROVE  SweptIn(w[tx[n].event], tx[n].age)
    <3>1. CASE tx[n].event # e
      BY <3>1, <2>1, <1>1 DEF Good, Calmed, Owned
    <3>2. CASE tx[n].event = e /\ x.timer = ev[e].timer /\ x.calm = ev[e].calm
      BY <3>2, <2>1, <1>1 DEF Good, Calmed, SweptIn
    <3>3. CASE tx[n].event = e /\ x.calm = 0
      <4>1. x.bind # "cmd"
        BY <2>1, <3>3 DEF Good, Owned, Sip
      <4>2. x.timer \in Nat /\ x.timer <= Sweep
        BY <2>1, <3>3, <4>1, <1>1 DEF Timed, EventShape
      <4> QED
        BY <3>3, <4>2, <1>1, NetAssumption DEF SweptIn
    <3> QED
      BY <3>1, <3>2, <3>3
  <2> QED
    BY <2>1 DEF Calmed
<1> QED
  BY <1>2, <1>3, <1>4, <1>5, <1>6 DEF Good, w

\* An event goes that is not the link and has no transactions.
LEMMA Drop ==
  ASSUME NEW ev, NEW tx, NEW k, NEW C, NEW e, Good(ev, tx, k, C),
         e # k, Entities(e, tx) = {}
  PROVE  Good(Without(ev, {e}), tx, k, C)
<1> DEFINE w == Without(ev, {e})
<1>1. DOMAIN w = DOMAIN ev \ {e} /\ \A f \in DOMAIN ev \ {e} : w[f] = ev[f]
  BY DEF Without, Restrict
<1> HIDE DEF w
<1>2. \A n \in DOMAIN tx : ~tx[n].left => tx[n].event # e
  BY DEF Entities
<1>3. Events(w) /\ Linked(w, k)
  BY <1>1 DEF Good, Events, Linked
<1>4. Owned(w, tx) /\ Watched(w, tx, C) /\ Calmed(w, tx)
  BY <1>1, <1>2 DEF Good, Owned, Watched, Calmed
<1> QED
  BY <1>3, <1>4 DEF Good, w

\* An event comes that is not a link and has nothing to send.
LEMMA Come ==
  ASSUME NEW ev, NEW tx, NEW k, NEW C, NEW i \in Nat \ {None}, i \notin DOMAIN ev, i # k,
         NEW x, Good(ev, tx, k, C), Timed(x), ~IsLink(x), ~x.out
  PROVE  Good(With(ev, i, x), tx, k, C)
<1> DEFINE w == With(ev, i, x)
<1>1. DOMAIN w = DOMAIN ev \cup {i} /\ w[i] = x /\ \A f \in DOMAIN ev : w[f] = ev[f]
  BY DEF With
<1> HIDE DEF w
<1>2. Events(w) /\ Linked(w, k)
  BY <1>1 DEF Good, Events, Linked
<1>3. Owned(w, tx) /\ Watched(w, tx, C) /\ Calmed(w, tx)
  BY <1>1 DEF Good, Owned, Watched, Calmed
<1> QED
  BY <1>2, <1>3 DEF Good, w

\* Transactions go.
LEMMA Leave ==
  ASSUME NEW ev, NEW tx, NEW k, NEW C, NEW D, Good(ev, tx, k, C)
  PROVE  Good(ev, Without(tx, D), k, C)
<1> DEFINE t == Without(tx, D)
<1>1. DOMAIN t = DOMAIN tx \ D /\ \A n \in DOMAIN tx \ D : t[n] = tx[n]
  BY DEF Without, Restrict
<1> HIDE DEF t
<1>2. Txns(t) /\ Owned(ev, t) /\ Watched(ev, t, C) /\ Calmed(ev, t)
  BY <1>1 DEF Good, Txns, Owned, Watched, Calmed
<1> QED
  BY <1>2 DEF Good, t

\* A transaction comes, at an event whose update is still to come; one without
\* a token is not left over.
LEMMA Join ==
  ASSUME NEW ev, NEW tx, NEW k, NEW C, NEW n, n \notin DOMAIN tx, NEW f \in DOMAIN ev,
         NEW token \in Nat, NEW left \in BOOLEAN, left => token # None,
         ev[f].bind \in Sip, Good(ev, tx, k, C)
  PROVE  Good(ev, With(tx, n, NewTxn(f, token, left)), k, C \cup {f})
<1> DEFINE t == With(tx, n, NewTxn(f, token, left))
<1>1. /\ DOMAIN t = DOMAIN tx \cup {n} /\ t[n] = NewTxn(f, token, left)
      /\ \A m \in DOMAIN tx : t[m] = tx[m]
  BY DEF With
<1> HIDE DEF t
<1>2. f \in Nat /\ Timed(ev[f])
  BY DEF Good, Events
<1>3. NewTxn(f, token, left) \in TxnShape
  BY <1>2 DEF NewTxn, TxnShape
<1>4. Txns(t)
  BY <1>1, <1>3 DEF Good, Txns
<1>5. Owned(ev, t)
  BY <1>1 DEF Good, Owned, NewTxn
<1>6. Watched(ev, t, C \cup {f})
  BY <1>1 DEF Good, Watched, NewTxn
<1>7. Calmed(ev, t)
  <2>1. ev[f].timer # Never => SweptIn(ev[f], 0)
    BY <1>2, NetAssumption DEF Timed, EventShape, SweptIn, Sip
  <2>2. t[n].event = f /\ t[n].age = 0
    BY <1>1 DEF NewTxn
  <2>3. \A m \in DOMAIN t : m = n \/ (m \in DOMAIN tx /\ t[m] = tx[m])
    BY <1>1
  <2> QED
    BY <2>1, <2>2, <2>3 DEF Good, Calmed
<1> QED
  BY <1>4, <1>5, <1>6, <1>7 DEF Good, t

\* The events w are those of ev after the update of e, which may have freed it.
Updated(e, k, ev, w) ==
  /\ DOMAIN w \in {DOMAIN ev, DOMAIN ev \ {e}}
  /\ ev[e].out \/ e = k => e \in DOMAIN w
  /\ \A f \in DOMAIN w : w[f].bind = ev[f].bind /\ w[f].out = ev[f].out
  /\ e \in DOMAIN w => w[e].timer = Delay(ev[e].bind)

\* net_event_update.
LEMMA UpdateGood ==
  ASSUME NEW ev, NEW tx, NEW k, NEW C, NEW e \in DOMAIN ev, Good(ev, tx, k, C)
  PROVE  /\ Good(Update(e, ev, tx), tx, k, C \ {e})
         /\ Updated(e, k, ev, Update(e, ev, tx))
<1> DEFINE w == Update(e, ev, tx)
           idle == /\ ev[e].type = "CONNECT" /\ ev[e].bind # "cmd"
                   /\ ~ev[e].out /\ Entities(e, tx) = {}
           x == [ev[e] EXCEPT !.write = ev[e].out, !.timer = Delay(ev[e].bind), !.calm = 0]
<1>1. CASE idle
  <2>1. w = Without(ev, {e})
    BY <1>1 DEF Update
  <2>2. e # k
    BY <1>1 DEF Good, Linked, IsLink
  <2>3. Good(w, tx, k, C)
    <3> HIDE DEF w
    <3> QED
      BY <1>1, <2>1, <2>2, Drop
  <2>5. DOMAIN w = DOMAIN ev \ {e} /\ \A f \in DOMAIN w : w[f] = ev[f]
    BY <2>1 DEF Without, Restrict
  <2> HIDE DEF w
  <2>4. Good(w, tx, k, C \ {e})
    BY <2>3, <2>5 DEF Good, Watched, Owned
  <2>6. Updated(e, k, ev, w)
    BY <1>1, <2>2, <2>5 DEF Updated
  <2> QED
    BY <2>4, <2>6 DEF w
<1>2. CASE ~idle
  <2>1. w = [ev EXCEPT ![e] = x]
    BY <1>2 DEF Update
  <2>2. /\ Timed(ev[e]) /\ x.bind = ev[e].bind /\ x.type = ev[e].type /\ x.out = ev[e].out
        /\ x.write = ev[e].out /\ x.timer = Delay(ev[e].bind) /\ x.calm = 0
    BY DEF Good, Events, Timed, EventShape
  <2>3. Timed(x)
    <3>1. x \in EventShape
      BY <2>2, DelayIs DEF Timed, EventShape
    <3> QED
      BY <2>2, <3>1, DelayIs DEF Timed
  <2> HIDE DEF x
  <2>4. x.timer # Never \/ x.bind \notin Sip
    BY <2>2, DelayIs DEF Sip
  <2>5. C \subseteq (C \ {e}) \cup {e}
    OBVIOUS
  <2>6. Good([ev EXCEPT ![e] = x], tx, k, C \ {e})
    BY <2>2, <2>3, <2>4, <2>5, Retouch
  <2> HIDE DEF idle
  <2>7. Updated(e, k, ev, [ev EXCEPT ![e] = x])
    BY <2>2 DEF Updated
  <2> QED
    BY <2>1, <2>6, <2>7
<1> QED
  BY <1>1, <1>2

\* The events w are those of ev, with what they had to send.
Keeps(ev, w) ==
  /\ DOMAIN w = DOMAIN ev
  /\ \A f \in DOMAIN ev : w[f].bind = ev[f].bind /\ (ev[f].out => w[f].out)

\* A packet is queued, by whoever calls net_event_update later, or at an event
\* with a transaction, whose timer runs.
LEMMA QueueGood ==
  ASSUME NEW ev, NEW tx, NEW k, NEW C, NEW D, NEW e \in DOMAIN ev, Good(ev, tx, k, C),
         C \subseteq D, e \in D \/ ev[e].timer # Never
  PROVE  /\ Good(Queue(e, ev), tx, k, D) /\ Keeps(ev, Queue(e, ev))
         /\ Queue(e, ev)[e].out
<1> DEFINE x == [ev[e] EXCEPT !.out = TRUE]
<1>1. Queue(e, ev) = [ev EXCEPT ![e] = x]
  BY DEF Queue
<1>2. /\ Timed(ev[e]) /\ x.bind = ev[e].bind /\ x.type = ev[e].type /\ x.out = TRUE
      /\ x.timer = ev[e].timer /\ x.calm = ev[e].calm
  BY DEF Good, Events, Timed, EventShape
<1>3. Timed(x)
  <2>1. x \in EventShape
    BY <1>2 DEF Timed, EventShape
  <2> QED
    BY <1>2, <2>1 DEF Timed
<1>4. \A f \in DOMAIN ev : [ev EXCEPT ![e] = x][f] = IF f = e THEN x ELSE ev[f]
  OBVIOUS
<1> HIDE DEF x
<1>5. Good([ev EXCEPT ![e] = x], tx, k, D)
  BY <1>2, <1>3, Retouch
<1> QED
  BY <1>1, <1>2, <1>4, <1>5 DEF Keeps

\* cmd_relay and what else queues a packet and updates: the event stays.
LEMMA SendGood ==
  ASSUME NEW ev, NEW tx, NEW k, NEW C, NEW e \in DOMAIN ev, Good(ev, tx, k, C)
  PROVE  /\ Good(Send(e, ev, tx), tx, k, C \ {e}) /\ Keeps(ev, Send(e, ev, tx))
         /\ Send(e, ev, tx)[e].out
<1> DEFINE q == Queue(e, ev)
           w == Update(e, q, tx)
           E == C \cup {e}
<1>1. C \subseteq E /\ e \in E /\ E \ {e} = C \ {e}
  OBVIOUS
<1> HIDE DEF E
<1>2. Good(q, tx, k, E) /\ Keeps(ev, q) /\ q[e].out
  BY <1>1, QueueGood
<1> HIDE DEF q
<1>3. e \in DOMAIN q /\ DOMAIN q = DOMAIN ev
  BY <1>2 DEF Keeps
<1>4. Good(w, tx, k, E \ {e}) /\ Updated(e, k, q, w)
  BY <1>2, <1>3, UpdateGood
<1> HIDE DEF w
<1>5. DOMAIN w = DOMAIN ev
  BY <1>2, <1>3, <1>4 DEF Updated
<1>6. Keeps(ev, w) /\ w[e].out
  BY <1>2, <1>4, <1>5 DEF Keeps, Updated
<1> QED
  BY <1>1, <1>4, <1>6 DEF Send, w, q

\* sip_destroy of the transactions D among old: what Route asked for over the
\* link that is there is answered on it.
LEMMA AnsweredGood ==
  ASSUME NEW ev, NEW old, NEW C, NEW D, Good(ev, Without(old, D), con, C),
         transport = {con} \ {None}
  PROVE  /\ Good(Answered(D, ev, old), Without(old, D), con, C)
         /\ Keeps(ev, Answered(D, ev, old))
         /\ \A n \in D : old[n].token \in {con} \ {None} => Answered(D, ev, old)[con].out
<1> DEFINE t == Without(old, D)
<1>1. Good(ev, t, con, C)
  OBVIOUS
<1> HIDE DEF t
<1>2. CASE \E n \in D : old[n].token \in transport
  <2>1. con \in DOMAIN ev
    BY <1>2 DEF Good, Linked
  <2> DEFINE w == Send(con, ev, t)
  <2>2. Answered(D, ev, old) = w
    BY <1>2 DEF Answered, t
  <2>3. Good(w, t, con, C \ {con}) /\ Keeps(ev, w) /\ w[con].out
    BY <1>1, <2>1, SendGood
  <2> HIDE DEF w
  <2>4. Good(w, t, con, C)
    BY <2>3, Weaken
  <2> QED
    BY <2>2, <2>3, <2>4 DEF t
<1>3. CASE ~\E n \in D : old[n].token \in transport
  BY <1>1, <1>3 DEF Answered, Keeps, t
<1> QED
  BY <1>2, <1>3

-----------------------------------------------------------------------------
(* The invariant *)

\* The sockets, when the events of C may be waiting for their update.
Sockets(C) ==
  /\ id \in Nat /\ DOMAIN event \subseteq 1..id
  /\ transport = {con} \ {None}
  /\ Good(event, txn, con, C)

\* In the loop only the callback that runs has its update before it; when main()
\* is past the loop nobody waits for any.
Excused == IF phase = "loop" THEN {call.event} ELSE Nat

IInv ==
  /\ Sockets(Excused)
  /\ call \in [event : Nat, left : Nat, write : BOOLEAN, timeout : BOOLEAN]
  /\ call.event \in DOMAIN event \cup {None}
  /\ phase # "loop" => call = NoCall

\* What AnswersQueued says of a step.
Told ==
  \A n \in DOMAIN txn \ DOMAIN txn' :
    txn[n].token \in {con'} \ {None} => event'[con'].out

LEMMA InitIInv == Init => IInv
<1> SUFFICES ASSUME Init PROVE IInv
  OBVIOUS
<1>1. /\ event = << Listener("tcp"), Awaited("udp", "LISTEN", "accept"),
                    Listener("dns"), Listener("cmd"), Link >>
      /\ id = 5 /\ con = 5 /\ transport = {5} /\ txn = <<>> /\ call = NoCall
      /\ phase = "loop"
  BY DEF Init
<1>2. DOMAIN event = {1, 2, 3, 4, 5} /\ DOMAIN txn = {}
  BY <1>1
<1>3. /\ Born(event[1], "tcp", "LISTEN") /\ Born(event[2], "udp", "LISTEN")
      /\ Born(event[3], "dns", "LISTEN") /\ Born(event[4], "cmd", "LISTEN")
      /\ event[5] = Link
  BY <1>1, NewIs, Names DEF Listener
<1>4. Events(event)
  BY <1>2, <1>3, LinkIs DEF Events, None, Born
<1>5. /\ ~IsLink(event[1]) /\ ~IsLink(event[2]) /\ ~IsLink(event[3])
      /\ ~IsLink(event[4]) /\ IsLink(event[5])
  BY <1>3, LinkIs DEF IsLink, Born
<1>6. Linked(event, con)
  BY <1>1, <1>2, <1>5 DEF Linked
<1>7. \A e \in DOMAIN event : event[e].out => event[e].write
  BY <1>2, <1>3, LinkIs DEF Born
<1>8. Txns(txn) /\ Owned(event, txn) /\ Watched(event, txn, Excused) /\ Calmed(event, txn)
  BY <1>2, <1>7 DEF Txns, Owned, Watched, Calmed
<1>9. Good(event, txn, con, Excused)
  BY <1>1, <1>4, <1>6, <1>8 DEF Good
<1> QED
  BY <1>1, <1>2, <1>9 DEF IInv, Sockets, None, NoCall

\* The invariant has what the runs check.
LEMMA IInvShows == IInv => OneLink /\ Swept /\ NothingStranded
<1> SUFFICES ASSUME IInv PROVE OneLink /\ Swept /\ NothingStranded
  OBVIOUS
<1>1. OneLink
  BY DEF IInv, Sockets, Good, Linked, IsLink, Owned, OneLink, Events
<1>2. Swept
  <2>1. ASSUME NEW n \in DOMAIN txn, ~txn[n].left, event[txn[n].event].calm > Sweep
        PROVE  txn[n].age <= Lifetime + Sweep
    <3> DEFINE x == event[txn[n].event]
    <3>1. Timed(x) /\ (x.timer # Never => SweptIn(x, txn[n].age)) /\ txn[n].age \in Nat
      BY <2>1 DEF IInv, Sockets, Good, Events, Owned, Calmed, Txns, TxnShape
    <3>2. x.timer \in Nat /\ x.calm \in Nat
      BY <2>1, <3>1, NetAssumption DEF Timed, EventShape
    <3>3. x.timer # Never
      BY <3>2 DEF Never
    <3> QED
      BY <2>1, <3>1, <3>2, <3>3, NetAssumption DEF SweptIn
  <2> QED
    BY <2>1 DEF Swept, Entities
<1>3. NothingStranded
  BY DEF IInv, Sockets, Good, Watched, Excused, NothingStranded
<1> QED
  BY <1>1, <1>2, <1>3

-----------------------------------------------------------------------------
(* The steps *)

\* The link goes and leaves no connection to the broker.
LEMMA DropLink ==
  ASSUME NEW ev, NEW tx, NEW k, NEW C, Good(ev, tx, k, C)
  PROVE  Good(Without(ev, {k}), tx, None, C)
<1> DEFINE w == Without(ev, {k})
<1>1. DOMAIN w = DOMAIN ev \ {k} /\ \A f \in DOMAIN ev \ {k} : w[f] = ev[f]
  BY DEF Without, Restrict
<1> HIDE DEF w
<1>2. \A n \in DOMAIN tx : ~tx[n].left => tx[n].event # k
  BY DEF Good, Owned, Linked, IsLink, Sip
<1>3. Events(w) /\ Linked(w, None)
  BY <1>1 DEF Good, Events, Linked
<1>4. Owned(w, tx) /\ Watched(w, tx, C) /\ Calmed(w, tx)
  BY <1>1, <1>2 DEF Good, Owned, Watched, Calmed
<1> QED
  BY <1>3, <1>4 DEF Good, w, None

\* A link comes where there is none.
LEMMA ComeLink ==
  ASSUME NEW ev, NEW tx, NEW C, NEW i \in Nat \ {None}, i \notin DOMAIN ev,
         Good(ev, tx, None, C)
  PROVE  Good(With(ev, i, Link), tx, i, C)
<1> DEFINE w == With(ev, i, Link)
<1>1. DOMAIN w = DOMAIN ev \cup {i} /\ w[i] = Link /\ \A f \in DOMAIN ev : w[f] = ev[f]
  BY DEF With
<1> HIDE DEF w
<1>2. Events(w)
  BY <1>1, LinkIs DEF Good, Events
<1>3. Linked(w, i)
  BY <1>1, LinkIs DEF Good, Linked, Events
<1>4. Owned(w, tx) /\ Calmed(w, tx)
  BY <1>1 DEF Good, Owned, Calmed
<1>5. Watched(w, tx, C)
  BY <1>1, LinkIs DEF Good, Owned, Watched
<1> QED
  BY <1>2, <1>3, <1>4, <1>5 DEF Good, w

\* The transactions of an event end with it.
LEMMA DropAll ==
  ASSUME NEW ev, NEW tx, NEW k, NEW C, NEW e, Good(ev, tx, k, C), e # k
  PROVE  Good(Without(ev, {e}), Without(tx, Entities(e, tx)), k, C)
<1> DEFINE t == Without(tx, Entities(e, tx))
<1>1. Good(ev, t, k, C)
  BY Leave
<1>2. Entities(e, t) = {}
  BY DEF Entities, Without, Restrict
<1> HIDE DEF t
<1>3. Good(Without(ev, {e}), t, k, C)
  BY <1>1, <1>2, Drop
<1> QED
  BY <1>3 DEF t

\* sip_destroy in a step: what is destroyed is answered.
LEMMA DestroyTold ==
  ASSUME NEW ev, NEW C, NEW D, Good(ev, Without(txn, D), con, C),
         transport = {con} \ {None}, con' = con, Destroy(D, ev)
  PROVE  /\ Good(event', txn', con', C) /\ DOMAIN event' = DOMAIN ev /\ Told
<1> DEFINE w == Answered(D, ev, txn)
<1>1. /\ Good(w, Without(txn, D), con, C) /\ Keeps(ev, w)
      /\ \A n \in D : txn[n].token \in {con} \ {None} => w[con].out
  BY AnsweredGood
<1>2. event' = w /\ txn' = Without(txn, D)
  BY DEF Destroy
<1> HIDE DEF w
<1>3. DOMAIN txn \ DOMAIN txn' \subseteq D
  BY <1>2 DEF Without, Restrict
<1> QED
  BY <1>1, <1>2, <1>3 DEF Keeps, Told

\* net_event_close of a connection: the link opens its successor or none.
LEMMA CloseStep ==
  ASSUME NEW e \in DOMAIN event, Sockets({e}), Close(e)
  PROVE  Sockets({})' /\ Told
<1>1. Good(event, txn, con, {e}) /\ id \in Nat /\ DOMAIN event \subseteq 1..id
  BY DEF Sockets
<1> DEFINE rest == Without(event, {e})
<1>2. DOMAIN rest = DOMAIN event \ {e}
  BY DEF Without, Restrict
<1>3. CASE e = con
  <2>1. Good(rest, txn, None, {e})
    BY <1>1, <1>3, DropLink
  <2> HIDE DEF rest
  <2>2. PICK opened \in BOOLEAN :
          /\ Reopen(opened) /\ txn' = txn
          /\ event' = IF id' = id THEN rest ELSE With(rest, id', Link)
    BY <1>3 DEF Close, rest
  <2>3. Told
    BY <2>2 DEF Told
  <2>4. CASE opened /\ Bound("cmd") # {}
    <3>1. id' = id + 1 /\ con' = id' /\ transport' = (transport \ {con}) \cup {id'}
      BY <2>2, <2>4 DEF Reopen
    <3>2. id' \in Nat \ {None} /\ id' \notin DOMAIN rest /\ id' # id
      BY <1>1, <1>2, <3>1 DEF None
    <3>3. Good(With(rest, id', Link), txn, id', {e})
      BY <2>1, <3>2, ComeLink
    <3>4. event' = With(rest, id', Link)
      BY <2>2, <3>2
    <3>5. DOMAIN event' = DOMAIN rest \cup {id'}
      BY <3>4 DEF With
    <3>6. Good(event', txn', con', {})
      <4>1. Good(event', txn', con', {e})
        BY <2>2, <3>1, <3>3, <3>4
      <4>2. e \notin DOMAIN event'
        BY <1>1, <1>2, <3>1, <3>5
      <4> QED
        BY <4>1, <4>2 DEF Good, Watched, Owned
    <3>7. transport' = {con'} \ {None} /\ DOMAIN event' \subseteq 1..id'
      BY <1>1, <1>2, <3>1, <3>2, <3>5 DEF Sockets
    <3> QED
      BY <2>3, <3>2, <3>6, <3>7 DEF Sockets
  <2>5. CASE ~(opened /\ Bound("cmd") # {})
    <3>1. id' = id /\ con' = None /\ transport' = transport \ {con}
      BY <2>2, <2>5 DEF Reopen
    <3>2. event' = rest
      BY <2>2, <3>1
    <3>3. Good(event', txn', con', {})
      <4>1. Good(event', txn', con', {e}) /\ e \notin DOMAIN event'
        BY <1>2, <2>1, <2>2, <3>1, <3>2
      <4> QED
        BY <4>1 DEF Good, Watched, Owned
    <3> QED
      BY <1>1, <1>2, <2>3, <3>1, <3>2, <3>3 DEF Sockets
  <2> QED
    BY <2>4, <2>5
<1>4. CASE e # con
  <2> DEFINE D == Entities(e, txn)
  <2>1. Destroy(D, rest) /\ id' = id /\ con' = con /\ transport' = transport
    BY <1>4 DEF Close
  <2>2. Good(rest, Without(txn, D), con, {e})
    BY <1>1, <1>4, DropAll
  <2> HIDE DEF D, rest
  <2>3. Good(event', txn', con', {e}) /\ DOMAIN event' = DOMAIN rest /\ Told
    BY <2>1, <2>2, DestroyTold DEF Sockets
  <2>4. Good(event', txn', con', {})
    BY <1>2, <2>3 DEF Good, Watched, Owned
  <2> QED
    BY <1>1, <1>2, <2>1, <2>3, <2>4 DEF Sockets
<1> QED
  BY <1>3, <1>4

\* A socket that is bound is closed and, if that can be done, bound again.
LEMMA RebindStep ==
  ASSUME NEW e \in DOMAIN event, Sockets({e}), event[e].type = "LISTEN", Rebind(e)
  PROVE  Sockets({})' /\ Told
<1>1. Good(event, txn, con, {e}) /\ id \in Nat /\ DOMAIN event \subseteq 1..id
  BY DEF Sockets
<1>2. e # con /\ Timed(event[e])
  BY <1>1 DEF Good, Linked, IsLink, Events
<1> DEFINE rest == Without(event, {e})
           D == Entities(e, txn)
           left == Without(txn, D)
           x == New(event[e].bind, "LISTEN", "accept")
<1>3. DOMAIN rest = DOMAIN event \ {e}
  BY DEF Without, Restrict
<1>4. Good(rest, left, con, {e})
  BY <1>1, <1>2, DropAll
<1>5. Timed(x) /\ ~IsLink(x) /\ ~x.out
  <2>1. event[e].bind \in Binding
    BY <1>2 DEF Timed, EventShape
  <2>2. Born(x, event[e].bind, "LISTEN")
    BY <2>1, NewIs, Names
  <2> QED
    BY <2>2 DEF Born, IsLink
<1>6. con' = con /\ transport' = transport
  BY DEF Rebind
<1> HIDE DEF left, x
<1>7. CASE id' = id + 1 /\ Destroy(D, With(rest, id', x))
  <2>1. id' \in Nat \ {None} /\ id' \notin DOMAIN rest /\ id' # con
    BY <1>1, <1>3, <1>7 DEF Good, Linked, None
  <2> DEFINE w == With(rest, id', x)
  <2>2. DOMAIN w = DOMAIN rest \cup {id'}
    BY DEF With
  <2> HIDE DEF rest
  <2>3. Good(w, left, con, {e})
    BY <1>4, <1>5, <2>1, Come
  <2> HIDE DEF D, w
  <2>4. Destroy(D, w)
    BY <1>7 DEF w, D
  <2>5. Good(w, Without(txn, D), con, {e})
    BY <2>3 DEF left
  <2>6. Good(event', txn', con', {e}) /\ DOMAIN event' = DOMAIN w /\ Told
    BY <1>6, <2>4, <2>5, DestroyTold DEF Sockets
  <2>7. e \notin DOMAIN event'
    BY <1>1, <1>3, <1>7, <2>2, <2>6
  <2>8. Good(event', txn', con', {})
    BY <2>6, <2>7 DEF Good, Watched, Owned
  <2>9. DOMAIN event' \subseteq 1..id'
    BY <1>1, <1>3, <1>7, <2>2, <2>6
  <2> QED
    BY <1>6, <2>1, <2>6, <2>8, <2>9 DEF Sockets
<1>8. CASE id' = id /\ Destroy(D, rest)
  <2> HIDE DEF D, rest
  <2>1. Good(rest, Without(txn, D), con, {e})
    BY <1>4 DEF left
  <2>2. Good(event', txn', con', {e}) /\ DOMAIN event' = DOMAIN rest /\ Told
    BY <1>6, <1>8, <2>1, DestroyTold DEF Sockets
  <2>3. Good(event', txn', con', {})
    BY <1>3, <2>2 DEF Good, Watched, Owned
  <2> QED
    BY <1>1, <1>3, <1>6, <1>8, <2>2, <2>3 DEF Sockets
<1> QED
  BY <1>7, <1>8 DEF Rebind, x

\* While nobody runs no event waits for its update.
LEMMA Idle == ASSUME IInv, Free PROVE Sockets({})
<1>1. Sockets({None}) /\ None \notin DOMAIN event
  BY DEF IInv, Free, NoCall, Excused, Sockets, Good, Events
<1> QED
  BY <1>1 DEF Sockets, Good, Watched, Owned

LEMMA StaysFree ==
  ASSUME phase = "loop", Sockets({})', call' = NoCall, UNCHANGED phase
  PROVE  IInv'
<1>1. Sockets({None})'
  BY DEF Sockets, Good, Watched
<1> QED
  BY <1>1 DEF IInv, NoCall, Excused, None

\* While e runs it alone may wait for its update.
LEMMA Busy ==
  ASSUME NEW e, IInv, call.event = e, e # None
  PROVE  phase = "loop" /\ Sockets({e}) /\ e \in DOMAIN event
  BY DEF IInv, Excused, NoCall

LEMMA StaysBusy ==
  ASSUME NEW e, call.event = e, phase = "loop", Sockets({e})', e \in DOMAIN event',
         UNCHANGED phase, call' \in [event : Nat, left : Nat, write : BOOLEAN, timeout : BOOLEAN],
         call'.event = e
  PROVE  IInv'
  BY DEF IInv, Excused

\* Nothing changes but what the invariant does not read.
LEMMA Untouched ==
  ASSUME NEW C, Sockets(C), UNCHANGED <<event, id, con, transport, txn>>
  PROVE  Sockets(C)' /\ Told
  BY DEF Sockets, Told, Good, Events, Txns, Linked, Owned, Watched, Calmed

\* The delay of an event begins with a sweep: for its transactions it is as if
\* it had been calm for any time.
LEMMA CalmGood ==
  ASSUME NEW ev, NEW tx, NEW k, NEW C, NEW e \in DOMAIN ev, NEW x,
         Good(ev, tx, k, C), Timed(x), x.bind = ev[e].bind, x.type = ev[e].type,
         x.out = ev[e].out, x.write = ev[e].write, x.timer = ev[e].timer,
         x.timer = Delay(x.bind), \A n \in Entities(e, tx) : tx[n].age <= Lifetime
  PROVE  Good([ev EXCEPT ![e] = x], tx, k, C)
<1> DEFINE w == [ev EXCEPT ![e] = x]
<1>1. DOMAIN w = DOMAIN ev /\ w[e] = x /\ \A f \in DOMAIN ev : f # e => w[f] = ev[f]
  OBVIOUS
<1> HIDE DEF w
<1>2. Events(w)
  BY <1>1 DEF Good, Events
<1>3. Linked(w, k)
  BY <1>1 DEF Good, Linked, IsLink
<1>4. Owned(w, tx)
  BY <1>1 DEF Good, Owned
<1>5. Watched(w, tx, C)
  <2>1. \A f \in DOMAIN w : w[f].out = ev[f].out /\ w[f].write = ev[f].write
                             /\ w[f].timer = ev[f].timer
    BY <1>1
  <2>2. \A n \in DOMAIN tx : ~tx[n].left => tx[n].event \in DOMAIN w
    BY <1>4 DEF Owned
  <2> QED
    BY <1>1, <2>1, <2>2 DEF Good, Watched
<1>6. Calmed(w, tx)
  <2>1. ASSUME NEW n \in DOMAIN tx, ~tx[n].left, w[tx[n].event].timer # Never
        PROVE  SweptIn(w[tx[n].event], tx[n].age)
    <3>1. CASE tx[n].event # e
      BY <3>1, <2>1, <1>1 DEF Good, Calmed, Owned
    <3>2. CASE tx[n].event = e
      <4>1. x.timer = Sweep
        BY <2>1, <3>2 DEF Good, Owned, Delay, Sip
      <4>2. tx[n].age <= Lifetime
        BY <2>1, <3>2 DEF Entities
      <4>3. tx[n].age <= Lifetime + Sweep - x.timer
        BY <4>1, <4>2, NetAssumption DEF Good, Txns, TxnShape
      <4> QED
        BY <1>1, <3>2, <4>3 DEF SweptIn
    <3> QED
      BY <3>1, <3>2
  <2> QED
    BY <2>1 DEF Calmed
<1> QED
  BY <1>2, <1>3, <1>4, <1>5, <1>6 DEF Good, w

\* The end of net_callback_inout: the socket fails, or it is swept and updated.
LEMMA EndedStep ==
  ASSUME NEW e \in DOMAIN event, Sockets({e}), NEW r \in BOOLEAN, NEW w \in BOOLEAN,
         NEW t \in BOOLEAN, r \/ w \/ t, Ended(e, r, w, t)
  PROVE  Sockets({})' /\ Told
<1>1. Good(event, txn, con, {e}) /\ id \in Nat /\ DOMAIN event \subseteq 1..id
      /\ transport = {con} \ {None}
  BY DEF Sockets
<1>2. CASE Fails(e)
  BY <1>2, RebindStep, CloseStep DEF Fails
<1>3. ASSUME NEW more \in BOOLEAN,
             LET old == {n \in Entities(e, txn) : t /\ txn[n].age > Lifetime}
                 sent == [event EXCEPT ![e].out = @ /\ (w => more)]
                 pinged == IF t /\ e \in transport THEN Queue(e, sent) ELSE sent
                 left == Update(e, Answered(old, pinged, txn), Without(txn, old))
             IN /\ txn' = Without(txn, old)
                /\ event' = IF e \notin DOMAIN left \/ r \/ w THEN left
                            ELSE [left EXCEPT ![e].calm = event[e].calm]
                /\ UNCHANGED <<id, con, transport, failures>>
      PROVE  Sockets({})' /\ Told
  <2> DEFINE old == {n \in Entities(e, txn) : t /\ txn[n].age > Lifetime}
             x == [event[e] EXCEPT !.out = @ /\ (w => more)]
             sent == [event EXCEPT ![e] = x]
             pinged == IF t /\ e \in transport THEN Queue(e, sent) ELSE sent
             over == Answered(old, pinged, txn)
             tx == Without(txn, old)
             left == Update(e, over, tx)
  <2>1. [event EXCEPT ![e].out = @ /\ (w => more)] = sent
    OBVIOUS
  <2>2. /\ txn' = tx
        /\ event' = IF e \notin DOMAIN left \/ r \/ w THEN left
                    ELSE [left EXCEPT ![e].calm = event[e].calm]
        /\ id' = id /\ con' = con /\ transport' = transport
    BY <1>3, <2>1
  <2>3. /\ Good(sent, txn, con, {e}) /\ DOMAIN sent = DOMAIN event
        /\ sent[e].bind = event[e].bind
    <3> DEFINE C == {e}
    <3>1. /\ Timed(event[e]) /\ x.bind = event[e].bind /\ x.type = event[e].type
          /\ x.timer = event[e].timer /\ x.calm = event[e].calm /\ x \in EventShape
      BY <1>1 DEF Good, Events, Timed, EventShape
    <3>2. Timed(x)
      BY <3>1 DEF Timed
    <3>3. sent[e] = x /\ DOMAIN sent = DOMAIN event
      OBVIOUS
    <3> HIDE DEF x, C
    <3>4. C \subseteq C \cup {e} /\ (e \notin C /\ x.out => x.write \/ x.timer # Never)
      BY DEF C
    <3>5. Good(sent, txn, con, C)
      BY <1>1, <3>1, <3>2, <3>4, Retouch DEF C
    <3> QED
      BY <3>1, <3>3, <3>5 DEF C
  <2> HIDE DEF sent
  <2>4. /\ Good(pinged, txn, con, {e}) /\ DOMAIN pinged = DOMAIN event
        /\ pinged[e].bind = event[e].bind
    <3> DEFINE C == {e}
    <3>1. e \in C /\ C \subseteq C /\ e \in DOMAIN sent /\ Good(sent, txn, con, C)
      BY <2>3
    <3> HIDE DEF C
    <3>2. Good(Queue(e, sent), txn, con, C) /\ Keeps(sent, Queue(e, sent))
      BY <3>1, QueueGood
    <3> QED
      BY <2>3, <3>1, <3>2 DEF C, Keeps
  <2> HIDE DEF pinged, old
  <2>5. Good(pinged, tx, con, {e})
    BY <2>4, Leave
  <2>6. /\ Good(over, tx, con, {e}) /\ DOMAIN over = DOMAIN event
        /\ over[e].bind = event[e].bind
        /\ \A n \in old : txn[n].token \in {con} \ {None} => over[con].out
    <3>1. Good(pinged, Without(txn, old), con, {e}) /\ e \in DOMAIN pinged
      BY <2>4, <2>5
    <3>2. /\ Good(over, tx, con, {e}) /\ Keeps(pinged, over)
          /\ \A n \in old : txn[n].token \in {con} \ {None} => over[con].out
      BY <1>1, <3>1, AnsweredGood
    <3> HIDE DEF over, tx
    <3> QED
      BY <2>4, <3>1, <3>2 DEF Keeps
  <2>7. DOMAIN txn \ DOMAIN tx \subseteq old
    BY DEF Without, Restrict
  <2>8. \A n \in Entities(e, tx) : t => tx[n].age <= Lifetime
    <3>1. DOMAIN tx = DOMAIN txn \ old /\ \A n \in DOMAIN tx : tx[n] = txn[n]
      BY DEF Without, Restrict
    <3> HIDE DEF tx
    <3>2. \A n \in DOMAIN tx : tx[n].age \in Nat
      BY <2>6 DEF Good, Txns, TxnShape
    <3>3. ASSUME NEW n \in Entities(e, tx), t PROVE tx[n].age <= Lifetime
      <4>1. n \in Entities(e, txn) /\ n \notin old /\ n \in DOMAIN tx /\ tx[n] = txn[n]
        BY <3>1, <3>3 DEF Entities
      <4> QED
        BY <3>2, <3>3, <4>1, NetAssumption DEF old
    <3> QED
      BY <3>3
  <2> HIDE DEF over, tx
  <2> DEFINE C == {e}
  <2>9. e \in DOMAIN over /\ Good(over, tx, con, C)
    BY <2>6
  <2>10. C \ {e} = {}
    OBVIOUS
  <2> HIDE DEF C
  <2>11. Good(left, tx, con, C \ {e}) /\ Updated(e, con, over, left)
    BY <2>9, UpdateGood
  <2> HIDE DEF left
  <2>12. Good(left, tx, con, {})
    BY <2>11, <2>10
  <2>13. /\ Good(event', tx, con, {}) /\ DOMAIN event' = DOMAIN left
         /\ \A f \in DOMAIN left : event'[f].out = left[f].out
    <3>1. CASE e \notin DOMAIN left \/ r \/ w
      BY <2>2, <2>12, <3>1
    <3>2. CASE ~(e \notin DOMAIN left \/ r \/ w)
      <4> DEFINE y == [left[e] EXCEPT !.calm = event[e].calm]
                 N == {}
      <4>1. event' = [left EXCEPT ![e] = y] /\ e \in DOMAIN left
        BY <2>2, <3>2
      <4>2. Timed(left[e]) /\ event[e].calm \in Nat
        BY <1>1, <2>12, <4>1 DEF Good, Events, Timed, EventShape
      <4>3. /\ y.bind = left[e].bind /\ y.type = left[e].type /\ y.out = left[e].out
            /\ y.write = left[e].write /\ y.timer = left[e].timer /\ y \in EventShape
        BY <4>2 DEF Timed, EventShape
      <4>4. y.timer = Delay(y.bind)
        BY <2>11, <4>1, <4>3 DEF Updated
      <4>5. Timed(y)
        <5>1. y.bind = "dns" => y.calm = 0
          BY <1>1, <2>6, <2>11, <4>1, <4>3 DEF Good, Events, Timed, Updated
        <5> QED
          BY <4>2, <4>3, <4>4, <5>1, DelayIs DEF Timed
      <4>6. \A n \in Entities(e, tx) : tx[n].age <= Lifetime
        BY <2>8, <3>2
      <4>7. Good(left, tx, con, N)
        BY <2>12
      <4> HIDE DEF y, N
      <4>8. Good([left EXCEPT ![e] = y], tx, con, N)
        BY <4>1, <4>3, <4>4, <4>5, <4>6, <4>7, CalmGood
      <4>9. \A f \in DOMAIN left : [left EXCEPT ![e] = y][f].out = left[f].out
        BY <4>3
      <4> QED
        BY <4>1, <4>8, <4>9 DEF N
    <3> QED
      BY <3>1, <3>2
  <2>14. con # None => con \in DOMAIN left
    BY <2>12 DEF Good, Linked
  <2>15. Told
    BY <2>2, <2>6, <2>7, <2>11, <2>13, <2>14 DEF Told, Updated
  <2>16. DOMAIN event' \subseteq 1..id
    BY <1>1, <2>6, <2>11, <2>13 DEF Updated
  <2> QED
    BY <1>1, <2>2, <2>13, <2>15, <2>16 DEF Sockets
<1> QED
  BY <1>2, <1>3 DEF Ended

-----------------------------------------------------------------------------
(* The actions *)

LEMMA AcceptStep ==
  ASSUME NEW e \in DOMAIN event, IInv, Accept(e)
  PROVE  IInv' /\ Told
<1> DEFINE x == Accepted(event[e].bind)
           C == {}
<1>1. Good(event, txn, con, C) /\ id \in Nat /\ DOMAIN event \subseteq 1..id
      /\ transport = {con} \ {None}
  BY Idle DEF Accept, Sockets
<1>2. /\ id' = id + 1 /\ event' = With(event, id', x)
      /\ UNCHANGED <<con, transport, txn, call, phase>> /\ Free
  BY DEF Accept
<1>3. Timed(x) /\ ~IsLink(x) /\ ~x.out
  <2>1. event[e].bind \in Binding
    BY <1>1 DEF Good, Events, Timed, EventShape
  <2>2. Born(x, event[e].bind, "ACCEPT")
    BY <2>1, NewIs, Names DEF Accepted
  <2> QED
    BY <2>2 DEF Born, IsLink
<1> HIDE DEF x
<1>4. id' \in Nat \ {None} /\ id' \notin DOMAIN event /\ id' # con
  BY <1>1, <1>2 DEF None, Good, Linked
<1> DEFINE w == With(event, id', x)
<1>5. DOMAIN w = DOMAIN event \cup {id'}
  BY DEF With
<1> HIDE DEF C
<1>6. Good(w, txn, con, C)
  BY <1>1, <1>3, <1>4, Come
<1> HIDE DEF w
<1>7. DOMAIN event' \subseteq 1..id' /\ event' = w
  BY <1>1, <1>2, <1>5 DEF w
<1>8. Sockets({})'
  BY <1>1, <1>2, <1>4, <1>6, <1>7 DEF Sockets, C
<1> QED
  BY <1>2, <1>8, StaysFree DEF Told, Free

LEMMA ConnectedStep ==
  ASSUME NEW e \in DOMAIN event, IInv, Connected(e)
  PROVE  IInv' /\ Told
<1>1. Good(event, txn, con, {}) /\ id \in Nat /\ DOMAIN event \subseteq 1..id
      /\ transport = {con} \ {None} /\ Sockets({})
  BY Idle DEF Connected, Sockets
<1>2. UNCHANGED <<call, phase>> /\ Free
  BY DEF Connected
<1>3. CASE /\ event' = Update(e, [event EXCEPT ![e].handler = "inout"], txn)
           /\ UNCHANGED <<id, con, transport, txn, failures>>
  <2> DEFINE x == [event[e] EXCEPT !.handler = "inout"]
             ev == [event EXCEPT ![e] = x]
             w == Update(e, ev, txn)
             C == {}
  <2>1. /\ Timed(event[e]) /\ x.bind = event[e].bind /\ x.type = event[e].type
        /\ x.timer = event[e].timer /\ x.calm = event[e].calm /\ x \in EventShape
        /\ x.out = event[e].out /\ x.write = event[e].write
    BY <1>1 DEF Good, Events, Timed, EventShape, Handler
  <2>2. Timed(x)
    BY <2>1 DEF Timed
  <2>3. e \notin C /\ x.out => x.write \/ x.timer # Never
    BY <1>1, <2>1 DEF Good, Watched
  <2>4. event' = w
    BY <1>3
  <2> HIDE DEF x, C
  <2>5. Good(ev, txn, con, C) /\ DOMAIN ev = DOMAIN event
    BY <1>1, <2>1, <2>2, <2>3, Retouch DEF C
  <2> HIDE DEF ev
  <2>6. Good(w, txn, con, C \ {e}) /\ Updated(e, con, ev, w)
    BY <2>5, UpdateGood
  <2> HIDE DEF w
  <2>7. Sockets({})'
    BY <1>1, <1>3, <2>4, <2>5, <2>6 DEF Sockets, C, Updated
  <2> QED
    BY <1>2, <1>3, <2>7, StaysFree DEF Told, Free
<1>4. CASE Close(e)
  <2>1. Sockets({e})
    BY <1>1 DEF Sockets, Good, Watched
  <2> QED
    BY <1>2, <1>4, <2>1, CloseStep, StaysFree DEF Free
<1> QED
  BY <1>3, <1>4 DEF Connected

LEMMA CallbackStep ==
  ASSUME NEW e \in DOMAIN event, NEW n \in 0..MaxRead, NEW w \in BOOLEAN, NEW t \in BOOLEAN,
         IInv, Callback(e, n, w, t)
  PROVE  IInv' /\ Told
<1>1. Sockets({e}) /\ e \in Nat \ {None}
  BY Idle DEF Callback, Sockets, Good, Watched, Events
<1>2. UNCHANGED phase /\ Free
  BY DEF Callback
<1>3. CASE n = 0 /\ Ended(e, FALSE, w, t) /\ UNCHANGED call
  <2>1. w \/ t
    BY <1>3 DEF Callback
  <2> QED
    BY <1>1, <1>2, <1>3, <2>1, EndedStep, StaysFree DEF Free
<1>4. CASE /\ n > 0 /\ call' = [event |-> e, left |-> n, write |-> w, timeout |-> t]
           /\ UNCHANGED <<event, id, con, transport, txn, failures>>
  <2>1. Sockets({e})' /\ Told
    BY <1>1, <1>4, Untouched
  <2>2. call' \in [event : Nat, left : Nat, write : BOOLEAN, timeout : BOOLEAN]
        /\ call'.event = e /\ e \in DOMAIN event' /\ n \in Nat
    BY <1>1, <1>4, NetAssumption
  <2> QED
    BY <1>2, <2>1, <2>2 DEF IInv, Excused, Free
<1> QED
  BY <1>3, <1>4 DEF Callback

LEMMA FinishStep ==
  ASSUME NEW e \in DOMAIN event, IInv, Finish(e)
  PROVE  IInv' /\ Told
<1>1. Sockets({e}) /\ phase = "loop"
  BY Busy DEF Finish
<1>2. call.write \in BOOLEAN /\ call.timeout \in BOOLEAN
  BY DEF IInv
<1>3. Ended(e, TRUE, call.write, call.timeout) /\ call' = NoCall /\ UNCHANGED phase
  BY DEF Finish
<1>4. Sockets({})' /\ Told
  BY <1>1, <1>2, <1>3, EndedStep
<1> QED
  BY <1>1, <1>3, <1>4, StaysFree

\* The type of the callback after a message.
LEMMA CallIs ==
  ASSUME NEW e, IInv, Running(e), Taken \/ Rest
  PROVE  /\ call' \in [event : Nat, left : Nat, write : BOOLEAN, timeout : BOOLEAN]
         /\ call'.event = e
  BY DEF IInv, Running, Taken, Rest

LEMMA SipExecuteStep ==
  ASSUME NEW e \in DOMAIN event, IInv, SipExecute(e)
  PROVE  IInv' /\ Told
<1> DEFINE C == {e}
<1>1. /\ Good(event, txn, con, C) /\ id \in Nat /\ DOMAIN event \subseteq 1..id
      /\ transport = {con} \ {None} /\ phase = "loop"
  BY Busy DEF SipExecute, Running, Sockets
<1>2. UNCHANGED <<id, con, transport, phase>> /\ (Taken \/ Rest) /\ Running(e)
      /\ event[e].bind \in Sip
  BY DEF SipExecute
<1> SUFFICES Good(event', txn', con, C) /\ DOMAIN event' = DOMAIN event /\ Told
  BY <1>1, <1>2, CallIs, StaysBusy DEF Sockets, Running
<1>3. ASSUME NEW n \in Fresh, txn' = With(txn, n, NewTxn(e, None, FALSE)),
             \/ con # None /\ \E ev \in {event, Queue(e, event)} : event' = Send(con, ev, txn')
             \/ event' = Queue(e, event)
      PROVE  Good(event', txn', con, C) /\ DOMAIN event' = DOMAIN event /\ Told
  <2> DEFINE t == With(txn, n, NewTxn(e, None, FALSE))
             D == C \cup {e}
             q == Queue(e, event)
  <2>1. n \notin DOMAIN txn /\ DOMAIN t = DOMAIN txn \cup {n} /\ D = C /\ e \in C
    BY <1>3 DEF Fresh, With
  <2>2. txn' = t /\ Told
    BY <1>3, <2>1 DEF Told
  <2> HIDE DEF C
  <2>3. Good(event, t, con, D)
    BY <1>1, <1>2, <2>1, Join DEF None
  <2> HIDE DEF t, D
  <2>4. Good(event, t, con, C)
    BY <2>1, <2>3
  <2>5. Good(q, t, con, C) /\ DOMAIN q = DOMAIN event
    BY <2>1, <2>4, QueueGood DEF Keeps
  <2>6. ASSUME NEW ev \in {event, q}, con # None, event' = Send(con, ev, t)
        PROVE  Good(event', t, con, C) /\ DOMAIN event' = DOMAIN event
    <3> HIDE DEF q
    <3>1. con \in DOMAIN ev /\ Good(ev, t, con, C) /\ DOMAIN ev = DOMAIN event
      BY <2>4, <2>5, <2>6 DEF Good, Linked
    <3> DEFINE w == Send(con, ev, t)
    <3>2. Good(w, t, con, C \ {con}) /\ DOMAIN w = DOMAIN event
      BY <3>1, SendGood DEF Keeps
    <3> HIDE DEF w
    <3>3. Good(w, t, con, C)
      BY <3>2, Weaken
    <3> QED
      BY <2>6, <3>2, <3>3 DEF w
  <2> QED
    BY <1>3, <2>2, <2>5, <2>6
<1>4. CASE event' = Queue(e, event) /\ UNCHANGED txn
  <2> HIDE DEF C
  <2>1. C \subseteq C /\ e \in C
    BY DEF C
  <2>2. Good(Queue(e, event), txn, con, C) /\ Keeps(event, Queue(e, event))
    BY <1>1, <2>1, QueueGood
  <2> QED
    BY <1>4, <2>2 DEF Keeps, Told
<1>5. CASE \E n \in DOMAIN txn : Destroy({n}, event)
  <2>1. PICK n \in DOMAIN txn : Destroy({n}, event)
    BY <1>5
  <2> DEFINE N == {n}
  <2>2. Destroy(N, event)
    BY <2>1
  <2> HIDE DEF N, C
  <2>3. Good(event, Without(txn, N), con, C)
    BY <1>1, Leave
  <2> QED
    BY <1>1, <1>2, <2>2, <2>3, DestroyTold
<1>6. CASE \E n \in DOMAIN txn : /\ ~txn[n].left /\ event' = Queue(txn[n].event, event)
                                  /\ UNCHANGED txn
  <2>1. PICK n \in DOMAIN txn : ~txn[n].left /\ event' = Queue(txn[n].event, event) /\ UNCHANGED txn
    BY <1>6
  <2> DEFINE f == txn[n].event
  <2>2. f \in DOMAIN event /\ (f \in C \/ event[f].timer # Never)
    BY <1>1, <2>1 DEF Good, Owned, Watched
  <2>3. C \subseteq C /\ event' = Queue(f, event)
    BY <2>1
  <2> HIDE DEF f, C
  <2>4. Good(Queue(f, event), txn, con, C) /\ Keeps(event, Queue(f, event))
    BY <1>1, <2>2, <2>3, QueueGood
  <2> QED
    BY <2>1, <2>3, <2>4 DEF Keeps, Told
<1>7. CASE UNCHANGED event /\ UNCHANGED txn
  BY <1>1, <1>7 DEF Told
<1> QED
  BY <1>3, <1>4, <1>5, <1>6, <1>7 DEF SipExecute

\* The DNS socket takes what there is.
LEMMA DnsExecuteStep ==
  ASSUME NEW e \in DOMAIN event, IInv, DnsExecute(e)
  PROVE  IInv' /\ Told
<1>1. Sockets({e}) /\ phase = "loop" /\ Running(e)
  BY Busy DEF DnsExecute, Running
<1>2. UNCHANGED <<event, id, con, transport, txn, phase>> /\ Rest
  BY DEF DnsExecute
<1>3. Sockets({e})' /\ Told
  BY <1>1, <1>2, Untouched
<1> QED
  BY <1>1, <1>2, <1>3, CallIs, StaysBusy DEF Running

\* A packet is queued or not, and the event updated: it is freed at most.
LEMMA RetoldGood ==
  ASSUME NEW ev, NEW tx, NEW k, NEW C, NEW f \in DOMAIN ev, NEW sent \in BOOLEAN,
         Good(ev, tx, k, C \cup {f}), f # k
  PROVE  LET w == Update(f, IF sent THEN Queue(f, ev) ELSE ev, tx)
         IN /\ Good(w, tx, k, C) /\ DOMAIN w \subseteq DOMAIN ev
            /\ k \in DOMAIN ev => k \in DOMAIN w
<1> DEFINE D == C \cup {f}
           q == IF sent THEN Queue(f, ev) ELSE ev
           w == Update(f, q, tx)
<1>1. f \in D /\ D \ {f} \subseteq C
  OBVIOUS
<1>2. Good(ev, tx, k, D)
  OBVIOUS
<1> HIDE DEF D
<1>3. Good(q, tx, k, D) /\ DOMAIN q = DOMAIN ev
  BY <1>1, <1>2, QueueGood DEF Keeps
<1> HIDE DEF q
<1>4. f \in DOMAIN q
  BY <1>3
<1>5. Good(w, tx, k, D \ {f}) /\ Updated(f, k, q, w)
  BY <1>3, <1>4, UpdateGood
<1> HIDE DEF w
<1>6. Good(w, tx, k, C)
  BY <1>1, <1>5, Weaken
<1>7. DOMAIN w \subseteq DOMAIN ev /\ (k \in DOMAIN ev => k \in DOMAIN w)
  BY <1>3, <1>5 DEF Updated
<1> QED
  BY <1>6, <1>7 DEF w, q

\* sip_relay from the callback of the link, over an event that is there.
LEMMA RelayStep ==
  ASSUME NEW ev, NEW f \in DOMAIN ev, Good(ev, txn, con, {con}), ev[f].bind \in Sip,
         con \in DOMAIN ev, transport = {con} \ {None}, con' = con, Relay(f, ev)
  PROVE  /\ Good(event', txn', con, {con}) /\ DOMAIN event' \subseteq DOMAIN ev
         /\ con \in DOMAIN event' /\ Told
<1> DEFINE C == {con}
<1>1. Good(ev, txn, con, C) /\ f # con /\ IsLink(ev[con]) /\ con \in Nat /\ con # None
  BY DEF Good, Linked, IsLink, Events, Sip
<1> HIDE DEF C
<1>2. ASSUME NEW n \in Fresh, NEW sent \in BOOLEAN,
             txn' = With(txn, n, NewTxn(f, con, ~sent)),
             event' = Update(f, IF sent THEN Queue(f, ev) ELSE ev, txn')
      PROVE  /\ Good(event', txn', con, {con}) /\ DOMAIN event' \subseteq DOMAIN ev
             /\ con \in DOMAIN event' /\ Told
  <2> DEFINE t == With(txn, n, NewTxn(f, con, ~sent))
             w == Update(f, IF sent THEN Queue(f, ev) ELSE ev, t)
  <2>1. n \notin DOMAIN txn /\ DOMAIN t = DOMAIN txn \cup {n}
    BY <1>2 DEF Fresh, With
  <2>2. txn' = t /\ event' = w /\ Told
    BY <1>2, <2>1 DEF Told
  <2>3. Good(ev, t, con, C \cup {f})
    BY <1>1, <2>1, Join
  <2> HIDE DEF t
  <2>4. Good(w, t, con, C) /\ DOMAIN w \subseteq DOMAIN ev /\ con \in DOMAIN w
    BY <1>1, <2>3, RetoldGood
  <2> QED
    BY <2>2, <2>4 DEF C
<1>3. CASE Destroy(Entities(f, txn), Send(con, Without(ev, {f}), txn))
  <2> DEFINE D == Entities(f, txn)
             rest == Without(ev, {f})
             t == Without(txn, D)
             w == Send(con, rest, t)
  <2>1. /\ DOMAIN rest = DOMAIN ev \ {f} /\ con \in DOMAIN rest /\ rest[con] = ev[con]
    BY <1>1 DEF Without, Restrict
  <2>2. Good(rest, t, con, C)
    BY <1>1, DropAll
  <2>3. Send(con, rest, txn) = w
    <3> HIDE DEF t, rest
    <3>1. con \in C /\ C \subseteq C
      BY DEF C
    <3>2. Keeps(rest, Queue(con, rest))
      BY <2>1, <2>2, <3>1, QueueGood
    <3>3. Queue(con, rest)[con].bind = "cmd"
      BY <1>1, <2>1, <3>2 DEF Keeps, IsLink
    <3> QED
      BY <3>3 DEF Send, Update
  <2> HIDE DEF D, t, rest
  <2>4. Good(w, t, con, C \ {con}) /\ DOMAIN w = DOMAIN rest
    BY <2>1, <2>2, SendGood DEF Keeps
  <2>5. Destroy(D, w)
    BY <1>3, <2>3 DEF D, rest
  <2> HIDE DEF w
  <2>6. Good(w, Without(txn, D), con, C)
    BY <2>4, Weaken DEF t
  <2>7. Good(event', txn', con', C) /\ DOMAIN event' = DOMAIN w /\ Told
    BY <2>5, <2>6, DestroyTold
  <2> QED
    BY <2>1, <2>4, <2>7 DEF C
<1> QED
  BY <1>2, <1>3 DEF Relay

\* A reply goes to its server transaction, and a name in it may be looked up.
LEMMA FinalizeStep ==
  ASSUME NEW n \in DOMAIN txn, Good(event, txn, con, {con}), con \in DOMAIN event, Finalize(n)
  PROVE  /\ Good(event', txn', con, {con}) /\ DOMAIN event' \subseteq DOMAIN event
         /\ con \in DOMAIN event' /\ Told
<1>1. PICK over \in BOOLEAN, sent \in BOOLEAN :
        /\ txn' = IF over THEN Without(txn, {n}) ELSE txn
        /\ event' \in Lookup(Update(txn[n].event,
                                    IF sent THEN Queue(txn[n].event, event) ELSE event,
                                    txn'), txn')
  BY DEF Finalize
<1> DEFINE f == txn[n].event
           C == {con}
           t == IF over THEN Without(txn, {n}) ELSE txn
           w == Update(f, IF sent THEN Queue(f, event) ELSE event, t)
<1>2. f \in DOMAIN event /\ f # con
  BY DEF Good, Owned, Linked, IsLink, Sip, Finalize
<1>3. txn' = t /\ event' \in Lookup(w, t)
  BY <1>1
<1>4. Told
  <2>1. DOMAIN txn \ DOMAIN txn' \subseteq {n}
    BY <1>1 DEF Without, Restrict
  <2>2. txn[n].token = None
    BY DEF Finalize
  <2> QED
    BY <2>1, <2>2 DEF Told
<1>5. Good(event, txn, con, C)
  OBVIOUS
<1> HIDE DEF f, C
<1>6. Good(event, t, con, C)
  BY <1>5, Leave
<1> HIDE DEF t
<1>7. Good(event, t, con, C \cup {f})
  BY <1>6, Weaken
<1>8. Good(w, t, con, C) /\ DOMAIN w \subseteq DOMAIN event /\ con \in DOMAIN w
  BY <1>2, <1>7, RetoldGood
<1> HIDE DEF w
<1>9. ASSUME NEW d \in DOMAIN w, event' = Send(d, w, t)
      PROVE  Good(event', t, con, C) /\ DOMAIN event' = DOMAIN w
  <2> DEFINE v == Send(d, w, t)
  <2>1. Good(v, t, con, C \ {d}) /\ DOMAIN v = DOMAIN w
    BY <1>8, SendGood DEF Keeps
  <2> HIDE DEF v
  <2>2. Good(v, t, con, C)
    BY <2>1, Weaken
  <2> QED
    BY <1>9, <2>1, <2>2 DEF v
<1> QED
  BY <1>3, <1>4, <1>8, <1>9 DEF Lookup, C

LEMMA CmdExecuteStep ==
  ASSUME NEW e \in DOMAIN event, IInv, CmdExecute(e)
  PROVE  IInv' /\ Told
<1> DEFINE C == {con}
<1>1. /\ Good(event, txn, con, C) /\ id \in Nat /\ DOMAIN event \subseteq 1..id
      /\ transport = {con} \ {None} /\ phase = "loop" /\ con \in DOMAIN event /\ con # None
  BY Busy DEF CmdExecute, Running, Sockets
<1>2. UNCHANGED <<con, transport, phase>> /\ Taken /\ Running(e) /\ e = con
  BY DEF CmdExecute
<1> SUFFICES /\ Good(event', txn', con, C) /\ id' \in Nat /\ DOMAIN event' \subseteq 1..id'
             /\ con \in DOMAIN event' /\ Told
  BY <1>1, <1>2, CallIs, StaysBusy DEF Sockets, Running
<1>3. ASSUME NEW f \in DOMAIN event, event[f].bind \in Sip, Relay(f, event), UNCHANGED id
      PROVE  /\ Good(event', txn', con, C) /\ id' \in Nat /\ DOMAIN event' \subseteq 1..id'
             /\ con \in DOMAIN event' /\ Told
  <2>1. /\ Good(event', txn', con, {con}) /\ DOMAIN event' \subseteq DOMAIN event
        /\ con \in DOMAIN event' /\ Told
    BY <1>1, <1>2, <1>3, RelayStep
  <2> QED
    BY <1>1, <1>3, <2>1
<1>4. CASE /\ id' = id + 1
           /\ Relay(id', With(event, id', New("tcp", "CONNECT", "connect")))
  <2> DEFINE x == New("tcp", "CONNECT", "connect")
             ev == With(event, id', x)
  <2>1. Timed(x) /\ ~IsLink(x) /\ ~x.out /\ x.bind \in Sip
    <3>1. Born(x, "tcp", "CONNECT")
      BY NewIs, Names
    <3> QED
      BY <3>1 DEF Born, IsLink, Sip
  <2> HIDE DEF x
  <2>2. id' \in Nat \ {None} /\ id' \notin DOMAIN event /\ id' # con
    BY <1>1, <1>4 DEF None
  <2>3. DOMAIN ev = DOMAIN event \cup {id'} /\ ev[id'] = x
    BY DEF With
  <2> HIDE DEF C
  <2>4. Good(ev, txn, con, C)
    BY <1>1, <2>1, <2>2, Come
  <2>5. Relay(id', ev)
    BY <1>4 DEF x
  <2> HIDE DEF ev
  <2>6. /\ Good(event', txn', con, C) /\ DOMAIN event' \subseteq DOMAIN ev
        /\ con \in DOMAIN event' /\ Told
    BY <1>1, <1>2, <2>1, <2>3, <2>4, <2>5, RelayStep DEF C
  <2> QED
    BY <1>1, <1>4, <2>2, <2>3, <2>6
<1>5. CASE event' = Send(con, event, txn) /\ UNCHANGED txn /\ UNCHANGED id
  <2> DEFINE w == Send(con, event, txn)
  <2> HIDE DEF C
  <2>1. Good(w, txn, con, C \ {con}) /\ DOMAIN w = DOMAIN event
    BY <1>1, SendGood DEF Keeps
  <2> HIDE DEF w
  <2>2. Good(w, txn, con, C)
    BY <2>1, Weaken
  <2>3. event' = w
    BY <1>5 DEF w
  <2> QED
    BY <1>1, <1>5, <2>1, <2>2, <2>3 DEF Told
<1>6. CASE (\E n \in DOMAIN txn : Finalize(n)) /\ UNCHANGED id
  <2>1. PICK n \in DOMAIN txn : Finalize(n)
    BY <1>6
  <2>2. /\ Good(event', txn', con, C) /\ DOMAIN event' \subseteq DOMAIN event
        /\ con \in DOMAIN event' /\ Told
    BY <1>1, <2>1, FinalizeStep
  <2> QED
    BY <1>1, <1>6, <2>2
<1>7. CASE UNCHANGED <<event, id>> /\ UNCHANGED txn
  BY <1>1, <1>7 DEF Told
<1> QED
  BY <1>3, <1>4, <1>5, <1>6, <1>7 DEF CmdExecute

LEMMA RedoStep ==
  ASSUME NEW n \in DOMAIN txn, IInv, Redo(n)
  PROVE  IInv' /\ Told
<1> DEFINE C == {}
           e == txn[n].event
<1>1. /\ Good(event, txn, con, C) /\ id \in Nat /\ DOMAIN event \subseteq 1..id
      /\ transport = {con} \ {None} /\ Free
  BY Idle DEF Redo, Sockets
<1>2. UNCHANGED <<id, con, transport, call, phase>>
  BY DEF Redo
<1>3. e \in DOMAIN event /\ e # con
  BY <1>1 DEF Good, Owned, Linked, IsLink, Sip, Redo
<1> SUFFICES Good(event', txn', con, {}) /\ DOMAIN event' \subseteq DOMAIN event /\ Told
  BY <1>1, <1>2, StaysFree DEF Sockets, Free
<1>4. CASE event' = Send(e, event, txn) /\ UNCHANGED txn
  <2> DEFINE w == Send(e, event, txn)
  <2> HIDE DEF e, C
  <2>1. Good(w, txn, con, C \ {e}) /\ DOMAIN w = DOMAIN event
    BY <1>1, <1>3, SendGood DEF Keeps
  <2> HIDE DEF w
  <2>2. event' = w /\ C \ {e} = {}
    BY <1>4 DEF w, C
  <2> QED
    BY <1>4, <2>1, <2>2 DEF Told
<1>5. CASE /\ txn' = Without(txn, {n})
           /\ event' = Update(e, Answered({n}, event, txn), txn')
  <2> DEFINE N == {n}
             t == Without(txn, N)
             over == Answered(N, event, txn)
             w == Update(e, over, t)
  <2>1. txn' = t /\ event' = w
    BY <1>5
  <2>2. DOMAIN txn \ DOMAIN t \subseteq N
    BY DEF Without, Restrict
  <2> HIDE DEF e, C, N
  <2>3. Good(event, t, con, C)
    BY <1>1, Leave
  <2>4. /\ Good(over, t, con, C) /\ DOMAIN over = DOMAIN event
        /\ \A m \in N : txn[m].token \in {con} \ {None} => over[con].out
    BY <1>1, <2>3, AnsweredGood DEF Keeps
  <2> HIDE DEF t, over
  <2>5. e \in DOMAIN over /\ Good(over, t, con, C)
    BY <1>3, <2>4
  <2>6. Good(w, t, con, C \ {e}) /\ Updated(e, con, over, w)
    BY <2>5, UpdateGood
  <2> HIDE DEF w
  <2>7. con # None => con \in DOMAIN w
    BY <2>6 DEF Good, Linked
  <2>8. C \ {e} = {}
    BY DEF C
  <2> QED
    BY <1>2, <2>1, <2>2, <2>4, <2>6, <2>7, <2>8 DEF Told, Updated
<1> QED
  BY <1>4, <1>5 DEF Redo

\* A tick makes a timer shorter and what waits for it at most as much older.
LEMMA TickStep ==
  ASSUME IInv, Tick
  PROVE  IInv' /\ Told
<1>1. /\ Good(event, txn, con, {}) /\ id \in Nat /\ DOMAIN event \subseteq 1..id
      /\ transport = {con} \ {None} /\ Free
  BY Idle DEF Tick, Sockets
<1>2. UNCHANGED <<id, con, transport, call, phase>>
  BY DEF Tick
<1> DEFINE timer(e) == IF event[e].timer = Never THEN Never ELSE event[e].timer - 1
           calm(e) == IF Entities(e, txn) = {} THEN 0
                      ELSE Least(event[e].calm + 1, Sweep + 1)
<1>3. ASSUME NEW e \in DOMAIN event
      PROVE  /\ Timed(event[e]) /\ timer(e) \in Nat \cup {Never} /\ calm(e) \in Nat
             /\ calm(e) <= event[e].calm + 1
             /\ timer(e) = Never <=> event[e].timer = Never
             /\ timer(e) = Never => calm(e) = 0
             /\ timer(e) # Never => timer(e) = event[e].timer - 1
             /\ event[e].bind # "cmd" => timer(e) <= Sweep
             /\ event[e].bind = "dns" => timer(e) = Never
  <2>1. Timed(event[e]) /\ event[e].timer # 0
    BY <1>1 DEF Good, Events, Tick
  <2>2. event[e].timer = Never => Entities(e, txn) = {}
    BY <1>1 DEF Good, Watched, Entities
  <2> QED
    BY <2>1, <2>2, NetAssumption DEF Timed, EventShape, Least, Never
<1>4. /\ DOMAIN event' = DOMAIN event /\ DOMAIN txn' = DOMAIN txn
      /\ \A e \in DOMAIN event : event'[e] = [event[e] EXCEPT !.timer = timer(e), !.calm = calm(e)]
      /\ \A n \in DOMAIN txn : txn'[n] = [txn[n] EXCEPT !.age = Least(@ + 1, Old)]
  BY DEF Tick
<1> HIDE DEF timer, calm
<1>5. ASSUME NEW e \in DOMAIN event
      PROVE  /\ event'[e] \in EventShape /\ event'[e].timer = timer(e) /\ event'[e].calm = calm(e)
             /\ event'[e].bind = event[e].bind /\ event'[e].type = event[e].type
             /\ event'[e].out = event[e].out /\ event'[e].write = event[e].write
  <2> DEFINE x == event[e]
             y == [x EXCEPT !.timer = timer(e), !.calm = calm(e)]
  <2>1. x \in EventShape /\ timer(e) \in Nat \cup {Never} /\ calm(e) \in Nat
    BY <1>3 DEF Timed
  <2>2. event'[e] = y
    BY <1>4
  <2> HIDE DEF x
  <2>3. /\ y \in EventShape /\ y.timer = timer(e) /\ y.calm = calm(e)
        /\ y.bind = x.bind /\ y.type = x.type /\ y.out = x.out /\ y.write = x.write
    BY <2>1 DEF EventShape
  <2> QED
    BY <2>2, <2>3 DEF x
<1>6. ASSUME NEW n \in DOMAIN txn
      PROVE  /\ txn'[n] \in TxnShape
             /\ txn'[n].event = txn[n].event /\ txn'[n].age <= txn[n].age + 1
             /\ txn'[n].left = txn[n].left /\ txn'[n].token = txn[n].token
             /\ txn[n].age \in Nat
  <2>1. txn[n] \in TxnShape
    BY <1>1 DEF Good, Txns
  <2>2. Least(txn[n].age + 1, Old) \in Nat /\ Least(txn[n].age + 1, Old) <= txn[n].age + 1
    BY <2>1, NetAssumption DEF Least, Old, TxnShape
  <2> QED
    BY <1>4, <2>1, <2>2 DEF TxnShape
<1>7. Events(event') /\ Txns(txn')
  <2>1. \A e \in DOMAIN event : Timed(event'[e])
    BY <1>3, <1>5 DEF Timed
  <2>2. Events(event')
    BY <1>1, <1>4, <2>1 DEF Good, Events
  <2>3. Txns(txn')
    BY <1>4, <1>6 DEF Txns
  <2> QED
    BY <2>2, <2>3
<1>8. Linked(event', con) /\ Owned(event', txn')
  <2>1. Linked(event', con)
    BY <1>1, <1>4, <1>5 DEF Good, Linked, IsLink
  <2>2. Owned(event', txn')
    <3>1. Owned(event, txn)
      BY <1>1 DEF Good
    <3>2. \A e \in DOMAIN event : event'[e].bind = event[e].bind
      BY <1>5
    <3>3. \A n \in DOMAIN txn : /\ txn'[n].event = txn[n].event /\ txn'[n].left = txn[n].left
                               /\ txn'[n].token = txn[n].token
      BY <1>6
    <3> QED
      BY <1>4, <3>1, <3>2, <3>3 DEF Owned
  <2> QED
    BY <2>1, <2>2
<1>9. Watched(event', txn', {})
  <2>1. \A e \in DOMAIN event : event[e].timer # Never => event'[e].timer # Never
    BY <1>3, <1>5
  <2> QED
    BY <1>1, <1>4, <1>5, <1>6, <2>1 DEF Good, Watched, Owned
<1>10. Calmed(event', txn')
  <2>1. ASSUME NEW n \in DOMAIN txn', ~txn'[n].left, event'[txn'[n].event].timer # Never
        PROVE  SweptIn(event'[txn'[n].event], txn'[n].age)
    <3> DEFINE e == txn[n].event
    <3>1. n \in DOMAIN txn /\ e \in DOMAIN event /\ txn'[n].event = e /\ ~txn[n].left
      BY <1>1, <1>4, <1>6, <2>1 DEF Good, Owned
    <3>2. timer(e) # Never /\ event[e].timer # Never /\ timer(e) = event[e].timer - 1
      BY <1>3, <1>5, <2>1, <3>1
    <3>3. event[e].calm > Sweep - event[e].timer =>
            txn[n].age <= Lifetime + Sweep - event[e].timer
      BY <1>1, <3>1, <3>2 DEF Good, Calmed, SweptIn
    <3> HIDE DEF e
    <3>4. /\ event'[e].calm \in Nat /\ event'[e].calm <= event[e].calm + 1
          /\ event'[e].timer = event[e].timer - 1
          /\ event[e].calm \in Nat /\ event[e].timer \in Nat
      BY <1>3, <1>5, <3>1, <3>2 DEF Timed, EventShape
    <3>5. txn'[n].age \in Nat /\ txn'[n].age <= txn[n].age + 1 /\ txn[n].age \in Nat
      BY <1>6, <3>1 DEF TxnShape
    <3> QED
      BY <3>1, <3>3, <3>4, <3>5, NetAssumption DEF SweptIn
  <2> QED
    BY <2>1 DEF Calmed
<1>11. Good(event', txn', con, {})
  BY <1>1, <1>7, <1>8, <1>9, <1>10 DEF Good
<1> QED
  BY <1>1, <1>2, <1>4, <1>11, StaysFree DEF Sockets, Told, Free

\* After the signal no timer runs.
LEMMA SignalStep ==
  ASSUME IInv, Signal
  PROVE  IInv' /\ Told
<1>1. /\ Good(event, txn, con, {}) /\ id \in Nat /\ DOMAIN event \subseteq 1..id
      /\ transport = {con} \ {None} /\ Free
  BY Idle DEF Signal, Sockets
<1>2. UNCHANGED <<id, con, transport, txn, call>> /\ phase' = "stop"
  BY DEF Signal
<1>3. /\ DOMAIN event' = DOMAIN event
      /\ \A e \in DOMAIN event : event'[e] = [event[e] EXCEPT !.timer = Never, !.calm = 0]
  BY DEF Signal
<1>4. ASSUME NEW e \in DOMAIN event
      PROVE  /\ Timed(event'[e]) /\ event'[e].timer = Never
             /\ event'[e].bind = event[e].bind /\ event'[e].type = event[e].type
  <2> DEFINE x == event[e]
             y == [x EXCEPT !.timer = Never, !.calm = 0]
  <2>1. x \in EventShape
    BY <1>1 DEF Good, Events, Timed
  <2>2. event'[e] = y
    BY <1>3
  <2> HIDE DEF x
  <2>3. /\ y \in EventShape /\ y.timer = Never /\ y.calm = 0
        /\ y.bind = x.bind /\ y.type = x.type
    BY <2>1 DEF EventShape
  <2> QED
    BY <2>2, <2>3, NetAssumption DEF Timed, Never, x
<1>5. Events(event') /\ Linked(event', con) /\ Owned(event', txn)
  <2>1. Events(event')
    BY <1>1, <1>3, <1>4 DEF Good, Events
  <2>2. Linked(event', con) /\ Owned(event', txn)
    BY <1>1, <1>3, <1>4 DEF Good, Linked, Owned, IsLink
  <2> QED
    BY <2>1, <2>2
<1>6. Watched(event', txn, Nat) /\ Calmed(event', txn)
  BY <1>3, <1>4, <1>5 DEF Watched, Calmed, Owned, Events
<1>7. Good(event', txn, con, Nat)
  BY <1>1, <1>5, <1>6 DEF Good
<1> QED
  BY <1>1, <1>2, <1>3, <1>7 DEF IInv, Sockets, Excused, Told, Free, NoCall

\* net_free takes one event away.
LEMMA EraseStep ==
  ASSUME IInv, Erase
  PROVE  /\ IInv' /\ Told
         /\ id' = id /\ DOMAIN event' = DOMAIN event \ {Max(DOMAIN event)}
<1> DEFINE e == Max(DOMAIN event)
           C == Nat
           rest == Without(event, {e})
<1>1. /\ Good(event, txn, con, C) /\ id \in Nat /\ DOMAIN event \subseteq 1..id
      /\ transport = {con} \ {None} /\ phase = "stop" /\ call = NoCall
  BY DEF Erase, IInv, Sockets, Excused
<1>2. UNCHANGED <<id, call, phase>>
  BY DEF Erase
<1>3. DOMAIN rest = DOMAIN event \ {e}
  BY DEF Without, Restrict
<1> SUFFICES /\ Good(event', txn', con', C) /\ DOMAIN event' = DOMAIN rest
             /\ transport' = {con'} \ {None} /\ Told
  BY <1>1, <1>2, <1>3 DEF IInv, Sockets, Excused, NoCall
<1>4. CASE /\ e = con /\ con' = None /\ transport' = transport \ {e}
           /\ event' = rest /\ UNCHANGED txn
  <2> HIDE DEF e, C
  <2>1. Good(Without(event, {con}), txn, None, C)
    BY <1>1, DropLink
  <2> QED
    BY <1>1, <1>4, <2>1 DEF Told
<1>5. CASE /\ e # con /\ Destroy(Entities(e, txn), rest) /\ UNCHANGED <<con, transport>>
  <2> DEFINE D == Entities(e, txn)
  <2> HIDE DEF e, C
  <2>1. Good(rest, Without(txn, D), con, C)
    BY <1>1, <1>5, DropAll
  <2> HIDE DEF D, rest
  <2>2. Destroy(D, rest) /\ con' = con
    BY <1>5 DEF D
  <2> QED
    BY <1>1, <1>5, <2>1, <2>2, DestroyTold
<1> QED
  BY <1>4, <1>5 DEF Erase

-----------------------------------------------------------------------------
(* The theorems *)

LEMMA NextStep == IInv /\ [Next]_vars => IInv' /\ Told
<1> SUFFICES ASSUME IInv, [Next]_vars PROVE IInv' /\ Told
  OBVIOUS
<1>1. ASSUME NEW e \in DOMAIN event,
             \/ Accept(e) \/ Connected(e)
             \/ \E n \in 0..MaxRead, w, t \in BOOLEAN : Callback(e, n, w, t)
             \/ SipExecute(e) \/ DnsExecute(e) \/ CmdExecute(e) \/ Finish(e)
      PROVE  IInv' /\ Told
  BY <1>1, AcceptStep, ConnectedStep, CallbackStep, SipExecuteStep, DnsExecuteStep,
     CmdExecuteStep, FinishStep
<1>2. CASE \E n \in DOMAIN txn : Redo(n)
  BY <1>2, RedoStep
<1>3. CASE Tick
  BY <1>3, TickStep
<1>4. CASE Signal
  BY <1>4, SignalStep
<1>5. CASE Erase
  BY <1>5, EraseStep
<1>6. CASE Down
  <2>1. UNCHANGED <<event, id, con, transport, txn, call>> /\ phase = "stop" /\ phase' = "down"
    BY <1>6 DEF Down
  <2>2. Sockets(Nat)
    BY <2>1 DEF IInv, Excused
  <2>3. Sockets(Nat)' /\ Told
    BY <2>1, <2>2, Untouched
  <2> QED
    BY <2>1, <2>3 DEF IInv, Excused
<1>7. CASE UNCHANGED vars
  <2>1. Sockets(Excused) /\ UNCHANGED <<event, id, con, transport, txn, call, phase>>
    BY <1>7 DEF vars, IInv
  <2>2. Excused' = Excused
    BY <2>1 DEF Excused
  <2>3. Sockets(Excused)' /\ Told
    BY <2>1, <2>2, Untouched DEF Sockets
  <2> QED
    BY <2>1, <2>3 DEF IInv
<1> QED
  BY <1>1, <1>2, <1>3, <1>4, <1>5, <1>6, <1>7 DEF Next

LEMMA Invariant == Spec => []IInv
<1>1. IInv /\ [Next]_vars => IInv'
  BY NextStep
<1> QED
  BY <1>1, InitIInv, PTL DEF Spec

\* There is one connection to the broker or none, and the callback that runs
\* and each transaction have their event, but for a client transaction whose
\* request could not be sent: nothing else points to what cmd_release,
\* net_event_close and net_event_update freed.
THEOREM LinkAlone == Spec => []OneLink
<1>1. IInv => OneLink
  BY IInvShows
<1> QED
  BY <1>1, Invariant, PTL

\* No transaction outlives its lifetime and a delay on an event that was calm
\* for a delay: the timeout of net_callback_inout sweeps in time.
THEOREM SweptInTime == Spec => []Swept
<1>1. IInv => Swept
  BY IInvShows
<1> QED
  BY <1>1, Invariant, PTL

\* What is queued is written: every path that queues a packet either updates
\* the event or is one whose event has a timer that runs.
THEOREM Written == Spec => []NothingStranded
<1>1. IInv => NothingStranded
  BY IInvShows
<1> QED
  BY <1>1, Invariant, PTL

\* Each request of Route that ends is answered on the link it came over,
\* whichever of sip_execute, sip_redo, the sweep, a close or a failed relay
\* ended it; one that sip_destroy leaves over, never sent, does not end.
THEOREM Answering == Spec => AnswersQueued
<1>1. IInv /\ [Next]_vars =>
        [\A n \in DOMAIN txn \ DOMAIN txn' :
           txn[n].token \in {con'} \ {None} => event'[con'].out]_vars
  BY NextStep DEF Told
<1> QED
  BY <1>1, Invariant, PTL DEF Spec, AnswersQueued

LEMMA EndsStep ==
  ASSUME IInv, [Next]_vars, vars' # vars, phase = "stop"
  PROVE  \/ phase' = "down" /\ event = <<>> /\ \A n \in DOMAIN txn : txn[n].left
         \/ id' = id /\ DOMAIN event' = DOMAIN event \ {Max(DOMAIN event)}
<1>1. ~Free /\ call.event = None
  BY DEF IInv, Free, NoCall
<1>2. Erase \/ Down
  <2>1. Next
    BY DEF Next
  <2>2. ASSUME NEW e PROVE ~Running(e) /\ ~Finish(e)
    BY <1>1 DEF Running, Finish
  <2> QED
    BY <1>1, <2>1, <2>2 DEF Next, Accept, Connected, Callback, SipExecute, DnsExecute,
                            CmdExecute, Redo, Tick, Signal
<1>3. CASE Erase
  BY <1>3, EraseStep
<1>4. CASE Down
  <2>1. event = <<>> /\ phase' = "down"
    BY <1>4 DEF Down
  <2>2. \A x : x \notin DOMAIN event
    BY <2>1
  <2>3. \A n \in DOMAIN txn : txn[n].left
    BY <2>2 DEF IInv, Sockets, Good, Owned
  <2> QED
    BY <2>1, <2>3
<1> QED
  BY <1>2, <1>3, <1>4

\* After a signal each step of net_free takes one event, the newest, and opens
\* none, and when the last is gone so are the transactions, but for those
\* whose requests could not be sent.
THEOREM Ending == Spec => Ends
<1>1. IInv /\ [Next]_vars =>
        [phase = "stop" =>
           \/ phase' = "down" /\ event = <<>> /\ \A n \in DOMAIN txn : txn[n].left
           \/ id' = id /\ DOMAIN event' = DOMAIN event \ {Max(DOMAIN event)}]_vars
  BY EndsStep
<1> QED
  BY <1>1, Invariant, PTL DEF Spec, Ends
=============================================================================
