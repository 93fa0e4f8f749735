------------------------------ MODULE NetEvent ------------------------------
(***************************************************************************)
(* The life of the net events of src/src/net.c: the sockets of the daemon, *)
(* the event loop that calls them back, the sweep of each, the connection  *)
(* to the broker that opens its own successor, and the shutdown.           *)
(*                                                                         *)
(* One callback runs at a time.  What it reads is one message after the    *)
(* other; between two messages other events may change, because a message  *)
(* of one socket is answered over another one.                             *)
(*                                                                         *)
(* Memory is there whenever it is asked for, and time passes only when no  *)
(* timer is due.                                                           *)
(***************************************************************************)
EXTENDS Integers, FiniteSets, FiniteSetsExt, Functions

CONSTANTS Sweep,        \* app_t.delay of SIP, in ticks
          Ping,         \* app_t.delay of CMD
          Lifetime,     \* 64 * T1: what sip_timeout lets a transaction live
          MaxId,        \* bound: events ever created
          MaxTxn,       \* bound: transactions at a time
          MaxRead,      \* bound: messages in one read
          MaxFailures   \* bound: sockets that fail

ASSUME NetAssumption ==
  /\ {Sweep, Ping, Lifetime, MaxTxn, MaxRead} \subseteq Nat \ {0}
  /\ MaxId \in Nat /\ MaxId >= 5 /\ MaxFailures \in Nat

VARIABLES event,        \* __event: the net events by their ids
          id,           \* __id: the last one given
          con,          \* __con: the connection to the broker
          transport,    \* the events whose net->foo is a transport
          txn,          \* the transactions: event, age, the transport its
                        \* token leads to if Route asked for it, and whether
                        \* it is left over, out of the entities of its event
          call,         \* the callback that is running
          phase,        \* where main() is
          failures      \* sockets that failed so far

vars == <<event, id, con, transport, txn, call, phase, failures>>

None == 0               \* no event: ids start at 1

NoCall == [event |-> None, left |-> 0, write |-> FALSE, timeout |-> FALSE]

Binding == {"tcp", "udp", "dns", "cmd"} \* SIP over TCP, over UDP; DNS; CMD
Sip == {"tcp", "udp"}
Type == {"LISTEN", "ACCEPT", "CONNECT"}
Handler == {"accept", "connect", "inout"}

Never == -1             \* event_add(event, NULL)
Delay(b) == IF b = "cmd" THEN Ping ELSE IF b = "dns" THEN Never ELSE Sweep
Old == Lifetime + Sweep + 1

\* net_event_new and what its callers add: nothing to send, not yet awaited.
New(b, type, handler) ==
  [bind |-> b, type |-> type, handler |-> handler, out |-> FALSE,
   write |-> handler = "connect", timer |-> Never, calm |-> 0]

\* A new event that waits for the delay of its application.
Awaited(b, type, handler) ==
  [New(b, type, handler) EXCEPT !.timer = Delay(b)]

\* A socket that only accepts, or one accepted on the CMD port: when its time is
\* over sip_timeout finds no transactions, cmd_timeout no transport, and the
\* timer is left out.  DNS has none.
Listener(b) == New(b, "LISTEN", "accept")
Accepted(b) == IF b = "cmd" THEN New(b, "ACCEPT", "inout")
               ELSE Awaited(b, "ACCEPT", "inout")

\* The connection to the broker, with the CONNECT packet queued by cmd_begin.
Link == [Awaited("cmd", "CONNECT", "connect") EXCEPT !.out = TRUE]

With(f, x, v) == [y \in DOMAIN f \cup {x} |-> IF y = x THEN v ELSE f[y]]
Without(f, S) == Restrict(f, DOMAIN f \ S)

\* main() up to the loop: four sockets bound and the link opened.
Init ==
  /\ event = << Listener("tcp"), Awaited("udp", "LISTEN", "accept"),
                Listener("dns"), Listener("cmd"), Link >>
  /\ id = 5 /\ con = 5 /\ transport = {5} /\ txn = <<>> /\ call = NoCall
  /\ phase = "loop" /\ failures = 0

-----------------------------------------------------------------------------
(* What callbacks do to events *)

\* The entities of an event.
Entities(e, tx) == {n \in DOMAIN tx : tx[n].event = e /\ ~tx[n].left}

\* net_event_find_by_bind
Bound(b) == {e \in DOMAIN event : event[e].bind = b /\ event[e].type = "LISTEN"}

\* net_event_update: waits for the socket to take what is queued; a connection
\* to a contact that has nothing to send and no transaction is freed; whatever
\* timeout is asked for, the delay of the application begins again.
\* Bug: the timeout asked for wins.
UpdateAsked(e, ev, tx) ==
  IF /\ ev[e].type = "CONNECT" /\ ev[e].bind # "cmd"
     /\ ~ev[e].out /\ Entities(e, tx) = {}
  THEN Without(ev, {e})
  ELSE [ev EXCEPT ![e].write = ev[e].out, ![e].timer = Never, ![e].calm = 0]
Update(e, ev, tx) ==
  IF /\ ev[e].type = "CONNECT" /\ ev[e].bind # "cmd"
     /\ ~ev[e].out /\ Entities(e, tx) = {}
  THEN Without(ev, {e})
  ELSE [ev EXCEPT ![e].write = ev[e].out, ![e].timer = Delay(ev[e].bind),
                  ![e].calm = 0]

\* cmd_relay, sip_send: a packet is queued; the event is told if it is updated.
Queue(e, ev) == [ev EXCEPT ![e].out = TRUE]
Send(e, ev, tx) == Update(e, Queue(e, ev), tx)

\* The events after sip_destroy of D: each request of Route among D is answered
\* over the transport its token leads to.
Answered(D, ev, tx) ==
  IF \E n \in D : tx[n].token \in transport
  THEN Send(con, ev, Without(tx, D)) ELSE ev

\* What a token does whose transport is freed is undefined; that nothing
\* happens is one of the outcomes.

\* Bug: only the timer of a transaction answers, not its end.
DestroySilent(D, ev) == txn' = Without(txn, D) /\ event' = ev
\* sip_destroy of D, with the events as they are afterwards.
Destroy(D, ev) ==
  /\ txn' = Without(txn, D)
  /\ event' = Answered(D, ev, txn)

\* The number of a new transaction.
Fresh == {n \in 1..MaxTxn : n \notin DOMAIN txn /\ 1..(n - 1) \subseteq DOMAIN txn}

NewTxn(e, token, left) == [event |-> e, age |-> 0, token |-> token, left |-> left]

-----------------------------------------------------------------------------
(* Sockets that end *)

\* cmd_open from cmd_release: the transport is destroyed and, when connect()
\* does not fail at once, its successor created.
\* Bug: __con stays when there is no successor.
ReopenKeeps(opened) ==
  IF opened /\ Bound("cmd") # {}
  THEN /\ id < MaxId /\ id' = id + 1 /\ con' = id'
       /\ transport' = (transport \ {con}) \cup {id'}
  ELSE transport' = transport \ {con} /\ UNCHANGED <<con, id>>
Reopen(opened) ==
  IF opened /\ Bound("cmd") # {}
  THEN /\ id < MaxId /\ id' = id + 1 /\ con' = id'
       /\ transport' = (transport \ {con}) \cup {id'}
  ELSE /\ con' = None /\ transport' = transport \ {con} /\ UNCHANGED id

\* net_event_close: cmd_release of the link, or the transactions of the event.
Close(e) ==
  IF e = con
  THEN \E opened \in BOOLEAN :
         /\ Reopen(opened) /\ UNCHANGED txn
         /\ event' = IF id' = id THEN Without(event, {e})
                     ELSE With(Without(event, {e}), id', Link)
  ELSE /\ Destroy(Entities(e, txn), Without(event, {e}))
       /\ UNCHANGED <<id, con, transport>>

\* A socket that is bound is opened again at once, if that can be done; nobody
\* arms its timer.
Rebind(e) ==
  /\ UNCHANGED <<con, transport>>
  /\ \/ /\ id < MaxId /\ id' = id + 1
        /\ Destroy(Entities(e, txn),
                   With(Without(event, {e}), id',
                        New(event[e].bind, "LISTEN", "accept")))
     \/ UNCHANGED id /\ Destroy(Entities(e, txn), Without(event, {e}))

Fails(e) == IF event[e].type = "LISTEN" THEN Rebind(e) ELSE Close(e)

-----------------------------------------------------------------------------
(* Callbacks *)

Free == phase = "loop" /\ call = NoCall

\* A TCP socket that is bound accepts, and only that.
Accepts(e) == event[e].type = "LISTEN" /\ event[e].bind \notin {"udp", "dns"}

\* net_callback_accept
Accept(e) ==
  /\ Free /\ e \in DOMAIN event /\ Accepts(e) /\ id < MaxId /\ id' = id + 1
  /\ event' = With(event, id', Accepted(event[e].bind))
  /\ UNCHANGED <<con, transport, txn, call, phase, failures>>

\* net_callback_connect: the connection is there, or it failed or took longer
\* than the delay.
Connected(e) ==
  /\ Free /\ e \in DOMAIN event /\ event[e].handler = "connect"
  /\ \/ /\ event' = Update(e, [event EXCEPT ![e].handler = "inout"], txn)
        /\ UNCHANGED <<id, con, transport, txn, failures>>
     \/ /\ event[e].timer = 0 \/ failures < MaxFailures
        /\ failures' = IF event[e].timer = 0 THEN failures ELSE failures + 1
        /\ Close(e)
  /\ UNCHANGED <<call, phase>>

InOut(e) == e \in DOMAIN event /\ ~Accepts(e) /\ event[e].handler # "connect"

Running(e) == call.event = e /\ e # None /\ call.left > 0

\* execute took a message, or accepted nothing and the rest waits.
Taken == call' = [call EXCEPT !.left = @ - 1]
Rest == call' = [call EXCEPT !.left = 0]

\* sip_execute: a request begins a transaction and is published, an INVITE with
\* responses at once, or is refused, of which only an INVITE leaves a transaction;
\* a response or an ACK ends one, a left-over one too; a retransmission is answered
\* over the event of its transaction, which nobody updates.
SipExecute(e) ==
  /\ Running(e) /\ event[e].bind \in Sip
  /\ \/ /\ Taken
        /\ \E n \in Fresh : txn' = With(txn, n, NewTxn(e, None, FALSE))
        /\ \/ con # None /\ \E ev \in {event, Queue(e, event)} : event' = Send(con, ev, txn')
           \/ event' = Queue(e, event)
     \/ Taken /\ event' = Queue(e, event) /\ UNCHANGED txn
     \/ Taken /\ \E n \in DOMAIN txn : Destroy({n}, event)
     \/ Taken /\ \E n \in DOMAIN txn : /\ ~txn[n].left /\ event' = Queue(txn[n].event, event)
                                      /\ UNCHANGED txn
     \/ Rest /\ UNCHANGED event /\ UNCHANGED txn
  /\ UNCHANGED <<id, con, transport, phase, failures>>

\* dns_execute takes all there is; a name that is resolved changes no event.
DnsExecute(e) ==
  /\ Running(e) /\ event[e].bind = "dns" /\ Rest
  /\ UNCHANGED <<event, id, con, transport, txn, phase, failures>>

\* sip_relay over event f: the request is queued and its transaction has a token.
\* When sip_send fails the transaction is terminated: sip_delete takes it out of
\* the entities, but sip_destroy finds no session yet and leaves it in osip's
\* list, to Route as if it were on its way; the event is updated, a fresh
\* connection so freed.  When osip makes no transaction a connection is freed.
Relay(f, ev) ==
  \/ \E n \in Fresh, sent \in BOOLEAN :
        /\ txn' = With(txn, n, NewTxn(f, con, ~sent))
        /\ event' = Update(f, IF sent THEN Queue(f, ev) ELSE ev, txn')
  \/ ev[f].type = "CONNECT" /\ Destroy(Entities(f, txn), Send(con, Without(ev, {f}), txn))

\* A reply may teach the address of a contact; a name in it is looked up first.
Lookup(ev, tx) ==
  {ev} \cup {Send(d, ev, tx) : d \in {x \in DOMAIN ev : ev[x].bind = "dns"}}

\* sip_finalize: the reply is sent by the server transaction, which a final one
\* ends, but for a failure of an INVITE, and a failed send always.
Finalize(n) ==
  /\ txn[n].token = None
  /\ \E over, sent \in BOOLEAN :
       /\ sent \/ over
       /\ txn' = IF over THEN Without(txn, {n}) ELSE txn
       /\ event' \in Lookup(Update(txn[n].event,
                                   IF sent THEN Queue(txn[n].event, event) ELSE event,
                                   txn'), txn')

\* cmd_execute of the link (one that was accepted has no transport, takes
\* nothing, and is called for ever): a request of Route is relayed over an event that is
\* known by its id, over the UDP socket or over a new connection, or it is
\* refused; a reply goes to a server transaction.
CmdExecute(e) ==
  /\ Running(e) /\ e = con /\ Taken
  /\ \/ /\ \E f \in DOMAIN event : event[f].bind \in Sip /\ ~Accepts(f) /\ Relay(f, event)
        /\ UNCHANGED id
     \/ /\ Bound("tcp") # {} /\ id < MaxId /\ id' = id + 1
        /\ Relay(id', With(event, id', New("tcp", "CONNECT", "connect")))
     \/ event' = Send(con, event, txn) /\ UNCHANGED txn /\ UNCHANGED id
     \/ (\E n \in DOMAIN txn : Finalize(n)) /\ UNCHANGED id
     \/ UNCHANGED <<event, id>> /\ UNCHANGED txn
  /\ UNCHANGED <<con, transport, phase, failures>>

\* net_callback_inout after the messages: the socket failed, or a packet was
\* written and, when the time is over, old transactions are swept or a ping is
\* sent; then the event is updated.
Ended(e, read, write, timeout) ==
  \/ failures < MaxFailures /\ failures' = failures + 1 /\ Fails(e)
  \/ \E more \in BOOLEAN :
       LET old == {n \in Entities(e, txn) : timeout /\ txn[n].age > Lifetime}
           sent == [event EXCEPT ![e].out = @ /\ (write => more)]
           pinged == IF timeout /\ e \in transport THEN Queue(e, sent) ELSE sent
           left == Update(e, Answered(old, pinged, txn), Without(txn, old))
       IN /\ txn' = Without(txn, old)
          /\ event' = IF e \notin DOMAIN left \/ read \/ write THEN left
                      ELSE [left EXCEPT ![e].calm = event[e].calm]
          /\ UNCHANGED <<id, con, transport, failures>>

\* net_callback_inout: the socket can be written or the time is over, or there
\* are n messages to be read first.
Callback(e, n, w, t) ==
  /\ Free /\ InOut(e) /\ (n > 0 \/ w \/ t)
  /\ w => event[e].write
  /\ t => event[e].timer = 0
  /\ \/ n = 0 /\ Ended(e, FALSE, w, t) /\ UNCHANGED call
     \/ /\ n > 0 /\ call' = [event |-> e, left |-> n, write |-> w, timeout |-> t]
        /\ UNCHANGED <<event, id, con, transport, txn, failures>>
  /\ UNCHANGED phase

Finish(e) ==
  /\ call.event = e /\ e # None /\ call.left = 0 /\ call' = NoCall
  /\ Ended(e, TRUE, call.write, call.timeout)
  /\ UNCHANGED phase

\* sip_redo: the request or response is sent again, or the transaction ends.
Redo(n) ==
  /\ Free /\ n \in DOMAIN txn /\ ~txn[n].left
  /\ LET e == txn[n].event
         over == Answered({n}, event, txn)
     IN \/ event' = Send(e, event, txn) /\ UNCHANGED txn
        \/ /\ txn' = Without(txn, {n})
           /\ event' = Update(e, over, txn')
  /\ UNCHANGED <<id, con, transport, call, phase, failures>>

-----------------------------------------------------------------------------
(* Time, and the end *)

Least(m, n) == IF m < n THEN m ELSE n

Tick ==
  /\ Free /\ \A e \in DOMAIN event : event[e].timer # 0
  /\ event' = [e \in DOMAIN event |->
                 [event[e] EXCEPT !.timer = IF @ = Never THEN @ ELSE @ - 1,
                                  !.calm = IF Entities(e, txn) = {} THEN 0
                                           ELSE Least(@ + 1, Sweep + 1)]]
  /\ txn' = [n \in DOMAIN txn |-> [txn[n] EXCEPT !.age = Least(@ + 1, Old)]]
  /\ UNCHANGED <<id, con, transport, call, phase, failures>>

\* net_callback_signal: the loop ends and no timer runs any more.
Signal ==
  /\ Free /\ phase' = "stop"
  /\ event' = [e \in DOMAIN event |-> [event[e] EXCEPT !.timer = Never, !.calm = 0]]
  /\ UNCHANGED <<id, con, transport, txn, call, failures>>

\* net_free: map_free of __event, the newest first, each with id 0.
\* Bug: the event keeps its id while it is deleted.
EraseKeepsId ==
  /\ phase = "stop" /\ event # <<>>
  /\ LET e == Max(DOMAIN event) IN Close(e)
  /\ UNCHANGED <<call, phase, failures>>
Erase ==
  /\ phase = "stop" /\ event # <<>>
  /\ LET e == Max(DOMAIN event)
     IN IF e = con
        THEN /\ con' = None /\ transport' = transport \ {e}
             /\ event' = Without(event, {e}) /\ UNCHANGED txn
        ELSE Destroy(Entities(e, txn), Without(event, {e})) /\ UNCHANGED <<con, transport>>
  /\ UNCHANGED <<id, call, phase, failures>>

Down ==
  /\ phase = "stop" /\ event = <<>> /\ phase' = "down"
  /\ UNCHANGED <<event, id, con, transport, txn, call, failures>>

Next ==
  \/ \E e \in DOMAIN event :
       \/ Accept(e) \/ Connected(e)
       \/ \E n \in 0..MaxRead, w, t \in BOOLEAN : Callback(e, n, w, t)
       \/ SipExecute(e) \/ DnsExecute(e) \/ CmdExecute(e) \/ Finish(e)
  \/ \E n \in DOMAIN txn : Redo(n)
  \/ Tick \/ Signal \/ Erase \/ Down

Spec == Init /\ [][Next]_vars

-----------------------------------------------------------------------------
Event == [bind : Binding, type : Type, handler : Handler, out : BOOLEAN,
          write : BOOLEAN, timer : {Never} \cup 0..Sweep \cup 0..Ping,
          calm : 0..(Sweep + 1)]

TypeOK ==
  /\ id \in 5..MaxId /\ con \in 0..id /\ transport \subseteq 1..id
  /\ DOMAIN event \subseteq 1..id /\ \A e \in DOMAIN event : event[e] \in Event
  /\ DOMAIN txn \subseteq 1..MaxTxn
  /\ \A n \in DOMAIN txn :
       txn[n] \in [event : 1..id, age : 0..Old, token : 0..id, left : BOOLEAN]
  /\ call \in [event : 0..id, left : 0..MaxRead, write : BOOLEAN, timeout : BOOLEAN]
  /\ phase \in {"loop", "stop", "down"}
  /\ failures \in 0..MaxFailures

\* There is one connection to the broker or none, whatever failed while it was
\* opened again, and it has the one transport; a transaction belongs to an
\* event that is there, unless it is the client transaction of a request that
\* could not be sent; and no event is freed while its callback runs.
OneLink ==
  /\ {e \in DOMAIN event : event[e].bind = "cmd" /\ event[e].type = "CONNECT"}
       = {con} \ {None}
  /\ transport = {con} \ {None}
  /\ \A n \in DOMAIN txn :
       txn[n].event \in DOMAIN event \/ (txn[n].left /\ txn[n].token # None)
  /\ call.event \in DOMAIN event \cup {None}

\* A socket that was calm for as long as its delay has been swept since: its
\* transactions are not older than their lifetime and one delay more, although
\* every activity, also a retransmission, begins the delay anew and a socket
\* that was bound again waits without one.
Swept ==
  \A e \in DOMAIN event : event[e].calm > Sweep =>
    \A n \in Entities(e, txn) : txn[n].age <= Lifetime + Sweep

\* A packet that is queued from the callback of another socket is written as
\* soon as its own socket can be, or after the delay at the latest.
NothingStranded ==
  phase = "loop" =>
    \A e \in DOMAIN event \ {call.event} :
      event[e].out => event[e].write \/ event[e].timer # Never

\* A request of Route that ends, by an answer, a timeout, a sweep, a close or
\* because it could not be relayed, has its answer queued on the link it came
\* over, if that is still there.  One that could not be sent does not end: it is
\* left over, and answered only if its branch draws a response after all.
AnswersQueued ==
  [][\A n \in DOMAIN txn \ DOMAIN txn' :
       txn[n].token \in {con'} \ {None} => event'[con'].out]_vars

\* After a signal every event goes, with what was waiting for it: each step
\* leaves fewer, also the one that deletes the link, which opens no other; only
\* what could not be sent is left to osip_release.
Ends ==
  [][phase = "stop" =>
       \/ phase' = "down" /\ event = <<>> /\ \A n \in DOMAIN txn : txn[n].left
       \/ id' = id /\ DOMAIN event' = DOMAIN event \ {Max(DOMAIN event)}]_vars
=============================================================================
