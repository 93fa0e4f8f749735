# A formal model of sipecho

sipecho is a SIP front end in C: one libevent process that takes SIP requests
over UDP and TCP, publishes each to a *Route* service through an MQTT broker,
receives Route's decision back as a remote call, relays the request to the
callee and carries the callee's answer the same way back to the caller. This
directory holds TLA+ modules of that program, TLC instances that check them and
machine-checked proofs about them. File names below are relative to the root of
the repository (`src/sip.c`, `lib/proto/transport.c`, `example/cmd/main.go`).

## The system

### Components, their state and their operations

| component | state | operations | calls |
|---|---|---|---|
| SIP transactions, `src/sip.c` | osip's four lists of transactions (IST, NIST, ICT, NICT); per transaction its net event, retry counter, timer, closure and token | read and execute a message, answer a request, relay one, finalise a reply, retransmit, sweep, destroy | `cmd_initiate_*`, `cmd_finalize`, `cmd_session_*`, `net_event_*`, `aor_*` |
| Sessions and Route client, `src/cmd.c` | the map `__ses` between transaction ids and uuids; the connection `__con` | publish a query, take a request or a reply of Route, connect again, ping | `sip_proxy`, `sip_finalize*`, transport |
| RPC over MQTT, `lib/proto/transport.c` | `port`, `subscribes`, `ready`; a heap-allocated token per incoming request | connect, subscribe, publish (`invoke`), dispatch an incoming packet | `cmd_maintain_*`, `cmd_relay`, `cmd_error` |
| Route, `example/cmd/main.go` | a map from its own uuids to the uuids of queries | return a query as a request, return a reply to the caller's side | the broker |
| Net events, `src/net.c` | the registry of events; per event its socket, entity map, outgoing queue, incoming chunk | accept, connect, read, write, time out, free | `app_t` and `net_t` callbacks |
| Transports and chunks, `src/tcp.c`, `src/udp.c`, `src/mem.c` | a buffer with begin, done and end | read, send, align | sockets |
| Address of record, `src/aor.c` | contacts by name, each with an expiry, a priority, a net event id and a resolved route | find, update, expire, resolve | `dns_lookup` |
| DNS, `src/dns.c` | queries under way, by id | look up, match an answer | net events |
| Multi-index map, `lib/common/map.c` | a chain of nodes, and a red-black tree over it for each key | push, find, remove, iterate, add a key | every table above is one |
| Conversion, `lib/proto/sip/sip.c` | none | osip message to protobuf and back | `cmd.c` |
| MQTT codec, `lib/mqtt/mqtt.c` (vendored) | none | pack and unpack packets | `transport.c` |
| NOTIFY, `src/notify.c` | subscribers with contacts, presences with signatures, pointers both ways | update, delete, change, free | not in `src/CMakeLists.txt` |
| TLS, `src/tls.c`; configuration, logging, text helpers | - | - | TLS is not compiled |

A call runs through them like this:

    caller --INVITE--> IST --query uuid s--> Route --request uuid r--> ICT --INVITE--> callee
    caller <--status-- IST <--reply uuid s-- Route <--reply uuid r---- ICT <--status-- callee

The uuid *s* is the session of the server transaction (`cmd_session_get`), *r*
is made by Route and becomes the session of the client transaction
(`cmd_session_add`). The client transaction also owns the closure and the token
of Route's remote call; `sip_destroy` gives the answer to that closure, once.

### What is hard

The daemon has one thread, so a callback is atomic, but callbacks of different
sockets, timers and the broker come in any order, objects are shared by bare
pointers (a timer and an entity map point at a transaction, a token at a
transport, a contact of a subscriber at a presence and back), and several maps
must agree: osip's lists, the entity map of the net event, the session map,
Route's map and the tokens; inside a map its chain and its trees. `PROJECT.json`
lists the hazards one by one at their lines. They fall into five groups:

* **ownership** - who frees a transaction, a message or a token when sending or
  converting fails half way through (`sip_relay`, `sip_destroy`, `sip_proxy`);
* **stale pointers and ids** - timers, entity maps, tokens, sessions and
  contacts that outlive what they name;
* **ordering** - retransmitted requests, replies after the end of a
  transaction, replies to the old port of the link, two relays of one request;
* **time** - the retry counter that decides between 408 and 502, the sweep
  that ends a ringing call, the sweep that busy sockets postpone;
* **tables and bytes** - an operation on a map that stops half way for a second
  item with a key or for lack of memory, a rotation that loses a node, a length
  that is added up in one place and written in another, a packet that is cut.

### What makes each component correct

* transactions: no freed transaction is reachable from a timer or an entity
  map; each one is found by the sweep; every caller gets a final answer if
  nothing fails; 408 means that the callee was silent, and what a caller is told was
  said by the callee or stands for a failure that did happen;
* sessions: a one-to-one map; a reply reaches the transaction of its request;
* tokens: freed exactly once, by their owner;
* Route: a reply is mapped back to the query that caused it;
* net events: one connection to the broker or none, whatever failed while it
  was opened again; a transaction has its event, unless it was never sent; what is queued is written; a
  request of Route that ends is answered; a shutdown ends;
* chunks: bytes are neither lost nor parsed twice; a message complete in the
  buffer is delivered;
* registry and DNS: a request goes over the socket its contact was registered
  over while that is open, and to the host of the contact afterwards; a query is answered once, to the record that asked;
* map: chain and indexes hold the same items, and the trees stay ordered and
  balanced;
* conversion: what a message says gets to the other end, and the form it has
  there stays, with the losses the module names;
* codec: a packet has the length it announces, a prefix of it is waited for, and
  a call reaches the method it is for;
* NOTIFY: no pointer to what was freed; who is told is who subscribed, both but for
  subscribers that share a contact address.

## Modules

### `Gateway.tla` - the path of a request

One module for `sip.c`, `cmd.c`, `transport.c` and `main.go`, because the
properties that matter relate the state of all four. Correspondence:

| variable | code |
|---|---|
| `tid`, `txn` | osip's transaction ids and lists; a record per `osip_transaction_t` with the application data `sip.c` hangs on it |
| `timer` | transactions with an armed `sip_redo` timer |
| `entities` | `net_event_t.entities`, by net event |
| `ses` | `__ses`, pairs of id and uuid |
| `token` | the tokens `transport_input` hands out: the connection they point at and how often they were used up |
| `requests` | the `requests` map of `main.go`; Route's k-th uuid is `<<"route", k>>` |
| `chan` | messages published and not yet handled by Route; the `copy` field keeps apart the queries of a retransmitted request |
| `port`, `ready` | the connection to the broker and `transport_t.ready` |
| `aged` | transactions up to this id are older than 64*T1 |
| `sends`, `wire`, `said`, `final` | history, read by properties, and (`sends`) the bound on what callers send |

| action | handler |
|---|---|
| `ReceiveRequest` | `sip_execute`, `sip_loop`, `sip_callback_switch`, `sip_callback_*`, `cmd_initiate_*`: a new transaction, or a retransmission that finds one |
| `ReceiveAck` | the ACK of a failure, which confirms and deletes an IST |
| `RouteReturns` | one message through the loop of `main.go` and back into `cmd_execute`: `ReturnReply` is `cmd_finalise_request` and `sip_finalize*`, `ReturnRequest` is `cmd_maintain_request`, `sip_proxy` and `sip_relay` |
| `ReceiveResponse` | `sip_execute` on a response of a callee |
| `sip_redo` | a timer fires: send again or give up |
| `sip_timeout` | the sweep of a net event |
| `HangUp` | the end of `net_callback_inout` after a read or write that failed, over UDP too, or a TCP connection that closed: `net_event_fail` or `net_event_close`, the entities of the event are destroyed; a UDP socket is opened again, by the same name |
| `LinkReady`, `LinkLost` | the last SUBACK; `cmd_release` and `cmd_open` |
| `Age` | the clock |

Every callback that executes a transaction ends in one of two operators: `Keep`
(it stays, `sip_call` returns) or `Delete` (`sip_delete` and `sip_destroy`, with
the reply to Route they cause). `SendStatus` is the execution of an outgoing
status by a server transaction, with all of its three ends.

osip is a library outside the repository: how it creates, finds and orders
transactions is modelled from how `sip.c` uses it and marked external in
`PROJECT.json`. A request is represented by its Via branch; the callee's
contact by a net event chosen freely; a message by uuid, branch, copy and
status. `Adverse` names what an instance lets go wrong: a message that cannot
be sent or converted, a callee that is refused, ageing, closing connections, a
lost link.

A non-INVITE request that is repeated after its transaction ended is relayed again
under the same branch, and so is an INVITE of which a copy is published while it
rings: then several client transactions share a branch, and the first of them in osip's list takes
the responses of all, even if it was left over from a request that could not be
sent. So `TimeoutMeansSilence` speaks of the transaction that is reported, and of
the callee as long as no earlier request of the branch was relayed.
`AnswersAreEarned` asks of each final status that its callee said it or that what it
stands for happened: 408 and 502 to a request of the branch that is over and was not
heard of, 403, 410 and 500 to one that was refused unsent, 500, 501 and 503 in the step
that refuses it.

### `CmdLink.tla` - the connection to the broker

`cmd.c` and `transport.c` from the socket to `transport_t.ready`, on top of the
callbacks of `net.c`. `Gateway` needs only the outcome; this module has the
protocol that leads to it.

| variable | code |
|---|---|
| `port` | `__con`, by the local port `begin` gets and puts into every topic; 0 when there is no connection |
| `open` | the event's callback is `net_callback_inout`, no longer `net_callback_connect` |
| `ready`, `subscribes` | the fields of `transport_t` |
| `err`, `outgoing`, `writing` | `net_event_t.err`, `.outgoing`, and `EV_WRITE` in what the event waits for |
| `stream`, `whole`, `cut` | packets sent by the broker and not executed; how many of them the last read took in whole, and whether it took in a part of the next |
| `subs`, `asked` | the broker's subscriptions for this client, and the queries Route has and did not return |
| `published` | bound on queries |

| action | handler |
|---|---|
| `Connected`, `ConnectFails` | `net_callback_connect` with `EV_WRITE`, or with an error or a timeout |
| `Write` | `net_callback_inout` with `EV_WRITE`; the broker takes the packet |
| `Read`, `Execute` | `net_callback_inout` with `EV_READ`: `tcp_read`, then one turn of the loop that calls `cmd_execute` and `command` |
| `Closed` | `net_callback_inout` when the socket was closed |
| `Initiate` | `cmd_initiate_*` and `invoke` |
| `Ping` | `cmd_timeout` |
| `Return` | Route's answer to a query, routed by topic |

Every end of a connection is `Reopen`: `net_event_close`, `cmd_release`,
`cmd_open`, with a fresh transport whose `begin` has queued CONNECT. No other
callback runs between `Read` and the last `Execute` of that read (`Idle`). What
the answer of a client transaction publishes on its way back to Route is
`Gateway`'s; here it would be one more packet that nobody waits for.

### `Link.tla` - what a connection promises

Two variables, `port` and `ready`, and two steps: a connection becomes ready
once; it ends, and the next has another port and is not ready. This is all that
`cmd_initiate_*`, topics and tokens rely on. Both `CmdLink` and `Gateway`
implement it (`ImplementsLink` in each, proved for both; the refinement mapping is
the identity on the two variables), so what `Gateway` does when its link is lost covers
whatever the connection can do.

### `Framing.tla` - a SIP socket

The chunk a socket of a caller or callee is read into, the messages `sip_read`
cuts out of it and the queue of packets that are written: `mem.c`, `tcp.c`,
`udp.c`, `net_callback_inout`, and of `sip.c` the two functions between them.
`Gateway` begins where this module ends, with a whole message.

The peer is a stream of messages, each with the position where it starts, where
its header ends and where its Content-Length says it ends, and with what
`sip_execute` makes of it: accepted, refused (not valid, or not wanted by any
transaction), or CRLFCRLF, which is answered. The bytes themselves do not
matter: the chunk is the interval of the stream it holds, from `base + begin` to
`base + end`, and searching a header in it asks where the headers of the stream
end.

| variable | code |
|---|---|
| `stream` | what the peer sends |
| `base` | the position in it of `mem_t.buffer[0]` |
| `begin`, `done`, `end` | the fields of `net_event_t.incoming`; `done` runs ahead while a body is awaited |
| `looping` | the `while` loop of `net_callback_inout` is under way |
| `closed` | why `net_event_close` was called, if it was |
| `outgoing`, `writing` | `net_event_t.outgoing`, each packet with the `done` of its chunk, and `EV_WRITE` in what the event waits for |
| `frames`, `wire`, `queued` | history: what was cut out, what was written, how much was queued |

| action | handler |
|---|---|
| `tcp_read`, `tcp_read_full` | `tcp_read` with some of the bytes that wait; with no room left, when `recv` of 0 bytes returns 0 and the caller takes that for a close |
| `ReadDatagram` | `udp_read`: any message, again or never; what the chunk still held is dropped, what does not fit is cut |
| `Execute` | one turn of the loop: `mem_empty`, `sip_execute` with `sip_read`, `mem_align`; at its end `net_event_update` |
| `sip_send` | `sip_send` from the execution of a message or from another event's callback |
| `Write` | `net_callback_inout` with `EV_WRITE`: `tcp_send` of a part, `udp_send` of all, and the pop when 0 bytes were left |
| `HangUp` | the peer closed or the socket failed |

### `NetEvent.tla` - the life of net events

The registry of `net.c` with everything that calls it back: the four sockets `main`
binds (SIP over TCP and UDP, DNS, CMD) and the connection to the broker, accepted and connected sockets, sockets
that fail and are bound again, the sweep of each, and the end. Transactions are
here an event, an age and the transport their token leads to; what they say is
`Gateway`'s, and what a chunk holds is `Framing`'s. What those two leave out is
what this module is about: one callback queues packets for, updates, frees or
opens events other than its own.

| variable | code |
|---|---|
| `event` | `__event`: by id the bind, type and handler of a `net_event_t`, whether its `outgoing` is empty (`out`), what its libevent event waits for (`write`, `timer`); `calm` is history |
| `id`, `con`, `transport` | `__id`, `__con`, the events whose `net->foo` is a transport |
| `txn` | transactions: event, age, token, and whether one is left over (`left`) |
| `call` | the callback that runs: its event, messages left to be executed, and what it was called for |
| `phase` | `main` in its loop, in `net_free`, or past it |

| action | handler |
|---|---|
| `Accept`, `Connected` | `net_callback_accept`, `net_callback_connect` |
| `Callback`, `Finish` | `net_callback_inout` up to its read loop and after it; `Ended` is the part that both share: the failure, the write, `sip_timeout` or `cmd_timeout`, `net_event_update` |
| `SipExecute`, `DnsExecute`, `CmdExecute` | one turn of the loop, by what it does to events: of a socket of SIP, of the resolver, of the link (`Relay` is `sip_relay`; `Finalize` is `sip_finalize`, after a reply that may first look up the name of a contact) |
| `Redo` | `sip_redo` |
| `Tick` | the clock; timers that are due go first |
| `Signal`, `Erase`, `Down` | `net_callback_signal`, `net_free` one event at a time, the end |

`Update`, `Close`, `Rebind`, `Reopen` and `Destroy` are `net_event_update`,
`net_event_close`, the branch of `net_callback_inout` for a bound socket,
`cmd_release` with `cmd_open`, and `sip_destroy`.

A request of Route that cannot be sent leaves its transaction over: `sip_delete`
takes it out of the entities of its event, `sip_destroy` finds no session yet and
returns, and the session is added afterwards. Nothing sweeps it, its event may be freed
(a fresh connection is, by the `net_event_update` that follows), and Route gets no answer
unless a response meets its branch after all. `OneLink`, `AnswersQueued` and `Ends` name it as their
exception. Such a response is put into the entities of an event that may be gone
(`sip_loop`); what that write does is not modelled, the transaction ends. Likewise a token whose
transport was freed is taken to do nothing.

### `Registrar.tla` - contacts, routes and the resolver

`aor.c` and `dns.c`: `Register` and `Learn` are what `sip_finalize_registrate`
and `sip_finalize_invite` do with the contacts of a request (`Update`, from the
last contact to the first, each with its lookup): every contact of a request gets the id of the
socket the request came over, also one that names another host, so each record keeps who
is at the other end of it (`by`). `Answer` is `dns_execute`,
`ResolverFails` the DNS socket opened again, `Connect` and `Closed` the sockets
contacts registered over, `Tick` the expiry. `Eligible` and `Reaches` are the
choice of `sip_proxy` and `sip_relay`. A key of a query borrows the protocol of
the record that asked (`lent`); once the record is gone, whether the key still
finds the one that took its place is left open. `Ids` is the 2^16 of the wire.
A "Contact: *" for a known name with an expiry that is not 0 follows a null URL
(`src/aor.c`, `aor_update`); such a behaviour ends there (`crashed`).

### `Subscriptions.tla` and `Notify.tla`

`Subscriptions` is what `notify.c` promises: a set of subscriptions, and that a
change is told to all of them. `Notify` is the code: subscribers own contacts,
presences own signatures, and each side frees what the other points to
(`notify_delete` in its three forms, `notify_free`). The refinement maps the
signatures to subscriptions. The code keeps one signature per contact address and presence,
so two subscribers may share one: it belongs to the contact of the first, the second gets a pointer to
the presence only, and the end of either leaves the pointer of the other behind. A renewal puts its own
address and call on the signature, but only if nothing was inserted before (an insertion clears the flag
of `map_push_find`). The history variable `met` has the pairs of
address and presence at which that has happened. `NothingDangles` lets a pointer dangle there only, and
lets it be followed only once there is such a pair; the refinement is stated up to the
first. The file is not compiled, and nothing calls it yet.

### `RedBlack.tla`, `OrderedSet.tla`, `MultiMap.tla`, `SeqMap.tla`

`RedBlack` has `tsearch2` (with the splits on its way down), `tfind2`,
`tdelete2` and `twalk2` as operators on trees, with the two mirror images of every
case as one operator of the side. `OrderedSet` puts one tree under any sequence
of searches and deletions: `TreeExact` says that a tree is the ordered set of its
nodes. `MultiMap` takes that for granted, its trees are sets, and has the rest of `map.c`: the
chain of nodes with its two ends, an index per key, and each operation, also when it
finds an item with the same key or has no memory for the node of some tree. `SeqMap`
is what a map promises, a sequence of items no two of which agree in a key;
`MultiMap` implements it.

### `Conversion.tla`

`lib/proto/sip/sip.c`: for every type of header field and body the form of its
two functions (what is copied, what loses or gets quotes, lists, parts), and the
bodies with the kinds that have a protobuf message of their own. An element of a list that
gives nothing (an Allow without a value) ends the list in a body and makes the whole
head be left out, and then the message is not converted. A behaviour takes a message over one hop
after another.

### `Mqtt.tla`

The functions of MQTT-C that `transport.c` calls, byte by byte, with
`transport.c`'s own: how it makes a topic, how it finds the method in one,
and how `command` takes a packet from a buffer. What the daemon packs, and the
memory it gives to it, are the sets `Call`, `Greeting` and `Subscription`; a
string may be any (`Text`), though one of 2^32 bytes, which no configuration has,
would wrap a counter the model does not bound.

### `Path.tla`

The headers `sip.c` edits: Via and Record-Route of a request that is relayed,
Max-Forwards, the Via that is taken off an answer and off a request that could not be
sent, and the answers `sip.c` makes of a request, of what it has relayed or of
what is left when `sip_relay` fails half way (there `sip_loop` may have freed the request
that `sip_proxy` goes on to answer; the model answers as if it had not). `hop` is a chain of gateways
(`Gateway` is one of them), with what each was asked and has sent, whether Route
has its request (`query`), and whether its two transactions live; `answer` and
`reply` are under way to a hop, and back through Route. An action has the name of
its function; `ReceiveResponse` is the client transaction's half of
`sip_callback_switch`. The gateways of the chain share the code, so that what one
leaves in a header meets what the next expects there.

### Instances and proofs

`MCGateway` states the two temporal properties that quantify over the tokens and
transactions an instance can make. `MCFraming` has the streams of an instance:
every sequence of up to `MaxMessages` of five shapes. `MCRegistrar` has the
requests, `MCNotify` the symmetry of the addresses, `MCMap` the keys of the items, `MCConversion` and `MCMqtt` the messages and
packets; `MCData` puts those three and `Path` side by side, since they share nothing.
`GatewayProofs`, `CmdLinkProofs`, `FramingProofs`, `NetEventProofs`, `RegistrarProofs`,
`NotifyProofs`, `MapProofs` and `DataProofs` (of `Path` and `Mqtt`) hold the inductive invariants and the theorems.

## Runs

Runs have the names of their `.cfg` files. All but `CmdLinkCut` disable the
deadlock check: every instance has an end its code has too. The callers have
sent all that `MaxSends` allows and every request is settled; a daemon whose
`connect()` fails at once does nothing any more; a peer has nothing more to say;
`main` has returned; a null pointer was followed; a message has arrived.

| run | instance | shows |
|---|---|---|
| `GatewayFaults` | one INVITE sent twice, UDP, `SIP_RETRY` 2; sending, conversion, lookup and the socket may fail, the broker connection is lost and made again, ageing | no timer outlives its transaction; tokens are owned and freed once; a sent request is never forgotten; 408 means that the request was sent `SIP_RETRY` + 1 times and not heard of; what a caller is told was said by the callee or stands for a failure that happened, also with two client transactions on one branch |
| `GatewayCalls` | an INVITE and another request over UDP and TCP; sending may fail, sockets fail or close, the broker connection is lost and made again, ageing | exact entity maps, one-to-one sessions, no crossed reply; a provisional status is reported to Route only when a sweep or a close cuts a ringing call |
| `GatewaySettles` | an INVITE and a REGISTER over UDP or TCP under fairness, failures, ageing | every sent request is answered to Route and every transaction freed, but those that could not be sent |
| `GatewayAnswers` | INVITE, SUBSCRIBE and another request under fairness, callees that answer, no failure | every caller gets a final answer |
| `CmdLinkSafe` | 3 methods, 2 queries, 3 connections under fairness; connecting, CONNECT, SUBSCRIBE and PUBLISH may fail, the socket may close, a read may cut a packet | a ready connection has every topic subscribed; no query reaches Route over a connection that cannot take it back; `CmdLink` implements `Link`; every query comes back or is lost with its connection; the daemon becomes ready again and again |
| `CmdLinkCut` | 1 method, 1 query, 2 connections; a read may cut a packet | violated, see Findings |
| `FramingTcp` | all streams of up to 3 messages, a buffer of 5 bytes, TCP, under fairness | messages are cut out once and in order; what waits in the chunk, or fills it, does so behind a message that was not accepted (`LeftBehindRefused`); packets are written whole and in order; in the end all is read and written |
| `FramingUdp` | the same streams as datagrams, a buffer of 3 bytes, 3 frames | no frame mixes two datagrams or takes a cut one for whole |
| `NetEvents` | the five sockets of `main` and one more, 1 transaction, a failure | one link or none with one transport; sweeps in time; nothing stranded; every request of Route that ends is answered; the shutdown ends |
| `Registrar` | a name, 2 contacts (one at a named host), requests with one, two, the same twice and `*`; 3 queries with 2 ids, 3 sockets one after another | requests reach who registered the contact, or the contact itself once that socket is gone; queries are answered once, to who asked |
| `Notify` | 2 subscribers, 2 contact addresses, each for either, 2 presences, 2 calls | no dangling pointer but at shared signatures; the refinement of `Subscriptions` until there is one |
| `Data` | a map of 6 items and two keys, a tree of 9 keys; every header field and body over hops; packets at the limits of the link, cut anywhere; a request over two gateways | chain and trees exact, the refinement of `SeqMap`; what a message says is kept and its form settles; packets exact, a call reaches its method; answers go back the way the request came |

Bounds. Each constant of the instances is small for a reason. Two requests are
enough for replies to cross and for entity maps to be shared; two transmissions
of one request are enough for a retransmission to meet its transaction in every
state and for two client transactions with one branch; two net events tell
apart UDP and TCP, which differ in retransmission and closing; `SIP_RETRY` (10
in the code) is 1 or 2, so that the counter is met below, at and above the
limit; `Said` holds a provisional code, a failure and, where acceptance
matters, a success. `MaxSends` and `MaxPort` bound the callers and the
reconnections; the proofs hold for every value of them.

In `CmdLink`, two or three methods stand for the eight of the service: the
count can be short by one, right, or reached by the wrong acknowledgements. Three
connections let a failure meet a connection that replaced another one; a mishap
needs a port left, so that an instance ends in a connection that lasts.

In `Framing`, the buffer of 5 bytes takes two of the short messages and not the
longest one, so that a read ends inside a header, inside a body, on the end of a
message and behind it, and a message that is too long fills the buffer up. Three
messages put one between an accepted and a refused neighbour in every order.
Packets of up to 2 bytes are sent in one part or two, with others queued
behind. 3 bytes for UDP cut the two longer shapes.

In `NetEvent`, six ids are the five sockets of `main` and one more, which is
accepted, connected to a contact, the successor of the link or a socket bound
again, so two of these do not happen in one behaviour; the one transaction is a peer's, or Route's, or
left over, and more of them at a time are the proofs'. A tick is both a delay and the lifetime, so an event is
swept before, at and after the end of a transaction's life. The proofs hold for
any delay, lifetime and number of events. In `Registrar`, two ids meet three queries: one of them
comes back to an id that is taken; three sockets let a connection come after the closed one a
contact was registered over. In `Notify`, two addresses give each
subscriber two contacts or one, which are the other's or not. In `Data`, nine keys take a tree through every
case of insertion and deletion; two items collide in each key of the map, and
the second key orders the items differently; two elements in every list and each
string missing once show a field that is copied from the wrong place. Two
gateways make an answer cross one that did not make it; the Max-Forwards are none,
spent, and enough for one or for both. The proof holds for any number of gateways.

Fairness. In `Gateway`, `Fairness` asks that the loop dispatches what is due (armed timers,
sweeps of events that have something to sweep), that the broker and Route
return what they are given and that transactions grow old. That is what libevent and
the Route loop do; one assumption is stronger than the code: the sweep of a busy
socket is postponed by each message (`src/net.c:249`), so the runs say what
happens once the socket has a quiet moment. `AnsweringSpec` adds callees that
answer; without them, a caller is answered only because its callee times out,
and the sweep removes server and client transactions in no fixed order.
In `CmdLink`, `Fairness` asks that the loop serves a socket that connects, can be
written or has something to read, that a read is executed to its end, and that
broker and Route answer. Nothing is asked of pings, of new requests or of
failures; that failures end is the bound `MaxPort`, and without it there is
nothing to show, because a broker that refuses every time is never ready.
In `Framing`, `Fairness` asks that the loop over a chunk goes on and that
libevent serves a socket that can be read or written; `HangUp` and `sip_send`
are left free. The other modules have no fairness: that a packet is written and a
transaction swept is stated in `NetEvent` as what waits for it (`NothingStranded`,
`Swept`), and whether a name server answers is nobody's promise.

## Findings

`CmdLinkCut`: `command` calls `mqtt_unpack_response`, which returns 0 when the
buffer does not hold the whole packet (`lib/mqtt/mqtt.h:644`), and takes 0 for a
malformed packet (`lib/proto/transport.c:333`). When TCP delivers a part of a packet, the
daemon closes a connection on which nothing was wrong, loses the queries and replies
under way and starts again from CONNECT. The run states that a connection is
given up only for a cause and finds one read that ends inside a packet of the broker: the CONNACK
in a shortest trace, else a later one, such as a SUBACK, after a CONNACK that was read whole.

Seen while modelling, where no document or comment says otherwise, so that no
run states them: two subscribers with one contact address (`Notify`, above);
a request that could not be sent is answered by nobody (`NetEvent`, above), and takes the
responses to the next one of its branch, which is then reported as timed out (`Gateway`, above);
a contact that names another host is called over the socket of whoever registered it
(`Registrar`, above); a lone part of a multipart message loses its type, a body its own header fields and a
message its MIME-Version (`Conversion`, `MeaningKept` names them);
`Contact: *` with a nonzero `Expires` for a known name (`Registrar`, above); a
connection accepted on the CMD port that sends a byte keeps `net_callback_inout`
in its loop for ever, since `cmd_execute` without a transport takes nothing and
does not fail (`NetEvent`, a callback that never finishes); once the ids of
queries have wrapped around 2^16, a late answer may give a record the address of
another host (`ReachesContact` is stated up to there); of a PINGRESP that
announces a length only the header is taken, and its body is read as the next
packet (`Mqtt`); the provisional status a cut call is reported with keeps the Via of
the gateway that reports it, and osip, which sends an answer by its topmost Via, sends
it there (`AnswersRetrace` names the exception).

## Proofs

Eight modules prove what follows for all values of the constants that satisfy
`GatewayAssumption`, `CmdLinkAssumption`, `FramingAssumption`, `NetAssumption`,
`RegistrarAssumption`, `MapAssumption` and `MqttAssumption`, which say little more than what the constants are. `NotifyProofs`
assumes nothing. `DataProofs` assumes `Apart` of `Path`, that `Null` is none of the things it stands for; of `Mqtt`, it takes
from `MqttAssumption` that methods have different names without a slash and that a topic and
a message fit the 128 and 4096 bytes `invoke` writes them to, which nothing checks in the code.

| module | theorem | property |
|---|---|---|
| `GatewayProofs` | `Invariance` | the inductive invariant `IInv` |
| | `TypeCorrect` | `TypeOK` |
| | `TimersSafe` | `NoDanglingTimer` |
| | `EntitiesExact` | `EntityMapExact` |
| | `SessionsSound` | `SessionsOneToOne` |
| | `TokensSound` | `TokensSafe` |
| | `SentRequestsRemembered` | `NoSentRequestForgotten` |
| | `RepliesNotCrossed` | `NoCrossedReply` |
| | `LinkAssumed` | `ImplementsLink` |
| | `Honesty` | the inductive invariant `Honest`, beside `IInv` |
| | `TimeoutsSilent` | `TimeoutMeansSilence` |
| | `AnswersEarned` | `AnswersAreEarned` |
| | `ProvisionalsCut` | `ProvisionalOnlyWhenCut` |
| `CmdLinkProofs` | `LinkInvariance` | the inductive invariant `Inv` |
| | `LinkTypeCorrect` | `TypeOK` |
| | `LinkReady` | `ReadySubscribed` |
| | `LinkQueriesReturn` | `QueriesCanReturn` |
| | `LinkRefinement` | `ImplementsLink` |
| `FramingProofs` | `FramingInvariance` | the inductive invariant |
| | `FramingTypeCorrect` | `TypeOK` |
| | `FramesSound` | `FramesAreMessages` |
| | `FramesOrdered` | `FramesInOrder` |
| | `LeavesExplained` | `LeftBehindRefused` |
| | `BytesExact` | `WireExact` |
| `NetEventProofs` | `LinkAlone` | `OneLink` |
| | `SweptInTime` | `Swept` |
| | `Written` | `NothingStranded` |
| | `Answering` | `AnswersQueued` |
| | `Ending` | `Ends` |
| `NotifyProofs` | `Paired` | the inductive invariant `IInv` |
| | `PointersLive` | `NothingDangles` |
| | `Refines` | `ImplementsSubscriptions` |
| `RegistrarProofs` | `Registry` | the inductive invariant `IInv` |
| | `ReachesItsContact` | `ReachesContact` |
| | `QueriesAreReturned` | `QueriesReturn` |
| `MapProofs` | `MapInvariant` | the inductive invariant `IInv` |
| | `MapIsExact` | `MapExact` |
| | `MapImplements` | `Implements` |
| `DataProofs` | `Invariant` | the inductive invariant `IInv` of `Path` |
| | `Retraced` | `AnswersRetrace` |
| | `PacketsAreExact` | `PacketExact` |
| | `MethodIsKept` | `MethodKept` |

None of these properties is inductive by itself.

**Gateway.** A token is freed once only if the session
a client transaction needs is there when it is destroyed (`TokenOwned`), which
holds only if adding that session cannot fail, which in turn needs that uuids
made by `cmd_session_get` and by Route never meet and that ids in the session
map are never ahead of osip's counter (`SessionUuids`, `CoreTypes`). That a reply
is not crossed needs a trace for every message under way and for every client
transaction back to the query it comes from (`Traces`), since the session of a
server transaction outlives it. That no sent request is forgotten needs that
only transactions that were never sent are left `TERMINATED`, and those are
always client transactions with their timer off (`Terminated`, `Remembered`).
`IInv` is the conjunction of these parts with the types of the link and the
histories (`Rest`).

The argument has three layers. `KeepCore` and `DeleteCore` show once that the two
ends of a callback preserve the invariant whenever the transactions, sessions
and messages handed to them are *legal* successors (no transaction changes its
identity or terminates in place, at most one server transaction is new, at
most its session is new, every new message is traceable, nothing is sent
without its transaction). Each action lemma (`ReceiveNewCore`,
`TakeStatusCore`, `RedoCore`, ...) shows that its successors are legal.
`ReturnedCore` deals with the one step that does not end in `Keep` or `Delete`,
the relay of a new request; `SessionAlwaysFits` shows that its failing branch
after `cmd_session_add` cannot be reached.

That an answer is true needs more than `IInv`, because it is made late: from the
last response and the retransmission counter of a client transaction, or from a
message that was on the broker meanwhile. `Honest` ties both to the wire. Of a
client transaction it says that its last response came, that without one it was not
heard of, and while it lives its callee said nothing at all unless an earlier request of the
branch had been relayed (`Silent`), and that the counter counts what was sent, unless it was
exhausted at once or never started (`HonestClient`); of a reply on the broker that its
token is spent, so that nothing is added to its line of the wire any more, and that the callee said
what it says or its line of the wire bears it out (`HonestReply`). A 501 given to a repeated request needs
that what rings does so because its callee said so (`Rung`).
`KeepHonest` and `DeleteHonest` are the two ends of a callback again. That a
provisional status reaches Route only from a call that was cut is a property of
steps: `DeleteReplies` lists the replies the end of a transaction makes, and for each
action there is one lemma that its replies are final or that it cuts.

**CmdLink.** The invariant follows a connection through two phases. In `Greeting` the
one packet under way is CONNECT or CONNACK and nothing is subscribed. In `Serving`
no topic is in two places: a topic whose SUBSCRIBE is queued is neither subscribed
nor has an acknowledgement under way, and an acknowledgement that grants
belongs to a subscribed topic. `subscribes` is the number of topics whose
acknowledgement the daemon has read (`Acked`, a subset of `subs`); a refused one is
never counted, because `Execute` gives up the connection. When the number reaches
`Methods`, `Acked` and so `subs` is all of `Topic`: that is why counting suffices
for `ReadySubscribed`. `QueriesCanReturn` follows because queries are published, and
so asked, only over a connection that is ready.

**Framing.** The invariant has a half for reading and one for writing, and each
action is shown to keep the half it does not touch (`InSame`, `OutSame`). Reading
over TCP, the chunk begins where the last frame ended and a `done` ahead of
`begin` is the end of the next message (`Tcp`), so that the first header found
in the chunk is that of the next message; over UDP the chunk lies within one
message (`Udp`). A nonzero `begin` is left only by a message that was not
accepted, which is why a full buffer has one to blame. Writing, the packets in
the queue are the last ones queued, all but the first untouched (`Queue`), and
what was written last meets what is to be written next (`Meet`). That the
messages of a stream follow each other is assumed of neighbours only; `Behind`
derives it for every pair of them by induction.

**NetEvent.** One callback opens, closes, updates and queues for events other than
its own, half way through its work on that one. So the invariant speaks of the
values a callback hands from one function to the next: `Good(ev, tx, k, C)`
holds of the events `ev`, the transactions `tx` and the link `k` at every such
point, and `C` names the events whose `net_event_update` is still to come. It
says that the link is the one connected event of its kind (`Linked`), that the event
of a transaction that is not left over exists and is not the link (`Owned`), that what is queued or owns a
transaction waits for something (`Watched`), and how long a transaction can have
been missed by the sweep (`Calmed`: a timer that ran for longer than its event was
calm began with a sweep). Each function of the code has one lemma that it
keeps `Good` and what it does to `C` (`UpdateGood`, `SendGood`, `AnsweredGood`,
`CloseStep`, `RebindStep`, `EndedStep`, `RelayStep`), each action one that combines
them. Between steps `C` is the event of the callback that runs. `Ends` is a
step property; that the last step leaves no transaction needs beside it that `txn`
is a function of its domain and nothing else (`Mapped`).

**Notify.** `contact_free` looks for the signatures of a contact by address, in the
presences its pointers lead to. That this finds all that points back, and nothing
else, needs a pairing: each pointer of a contact has exactly one signature with
its address at the other end, and each signature its pointer (`Signing`,
`Pointing`), but at the pairs of `met`, where two subscribers have shared a signature: there a contact
may have a pointer too many. `NextSteps` is the refinement, step by step, while there is none.

**Path.** That the Vias of neighbours fit together (`Chain`) is not enough: a client
transaction answers with what it has noted, so that must be an answer to what it has
sent (`Begun`). The answer to a cut call names, by its topmost Via, the gateway that
reports it. Should a transaction be waiting there, it would take its own report for
an answer; `Cut` says that none is and `Steady` that none ever will be, since a
gateway relays a request once. A model in which it relays it again would need
another argument.

**Registrar.** A request enters its contacts one after another, each into the map
the ones before have left, so that the invariant speaks of a registration that
is half way through (`SoFar`): the same parts with the records, queries and ids
so far. A record without a route waits for a query (`Awaits`), and the answer finds the record by
name and contact and not by the id it asked; so the query with that id must be
the record's own (`AsksForItself`), no two queries may share an id (`QueriesOk`), and a
name may have one record for a contact (`Distinct`): then the record of before,
whose key lends nothing any more, cannot take the answer away. That a record
leads to its contact needs that an answer under way has the address of the host
its query asked for, which holds until the ids wrap (`AnswersOk`), and that ids
of sockets are not used again (`OverItsOwn`). `ContactedOk` shows that one contact leaves `SoFar`
true, whether it is new, replaced, ended or already there, and `AllEnteredOk`
carries that along the list.

**Map.** What is wrong with a chain may show long after: `IInv` says of each node of
the chain that its two pointers are those of its neighbours (`Chained`), that it comes
once, and that the trees hold the same items, no two equal under their key
(`Indexed`), unless the map leads to freed memory. Each change of pointers has a lemma
about the sequence of nodes: `UnchainEffect` takes one out, wherever it was,
`ChainFrontEffect` puts one in front, `BackOne` behind. `EnterEffect` is the heart of a push:
either every tree took the node, or, wherever a second item with a key or the lack of memory
stopped it, the trees are what they were. Taking it back out relies on what it is
compared with: `Delete` removes what is equal to the node, which is the node alone because the
tree had refused it otherwise. `WalkEffect` shows, by rank, that the walk of a tree
meets every item once, so that `map_map` fills the new map with the items of the old
one. The loops (`map_until`, `map_erase`, `map_map`) are recursive functions of the number of
turns; `LoopRuns` and `LoopKeeps` give their values and what each turn keeps. Every
action lemma ends in what it does to the sequence, so that the refinement of `SeqMap`
follows from the same ones.

**Mqtt.** The invariant (`PacketInv`) only ties what came of a packet to the packet; the
properties are about what the functions compute, for any bytes. Two facts carry them. The
length of a packet is written in one to four digits of seven bits; `DigitsAre` adds
them up again, and `HeaderBack` reads a header as it was packed. `UnpackPrefix` compares two
buffers of which one begins the other: the bytes that end the length are the same
(`HasDigits`), so the header is read alike or waited for, and the fields are read
inside of what it announces (`FieldsSame`). A cut packet and one with another behind it are the two
cases of this. That the lengths of a PUBLISH, which are subtracted unchecked, stay
inside is a matter of numbers: a difference below zero becomes one far above 2^15,
which `command` refuses (`Unsigned32Is`, `PublishInside`). Each packing function
counts its bytes in one place and writes them in another; `CallPacked`,
`GreetingPacked`, `SubscriptionPacked` and `NoBodyPacked` show that the two agree,
whichever strings are missing, as far as the room goes. A call gets
to its method because the first slash ends the name of the recipient, the second
the method's, and the third is there (`MethodBack`).

**Induction.** The induction theorems of the library take the property as an
operator, which the installed provers cannot instantiate. What they can use is
that strict inclusion of finite sets is well founded: among the sets `1..x` whose `x`
lacks a property there is a least one. `SetInduction` (in `FramingProofs`: `CountsUp`)
is induction in this form, over a set of numbers.
`AllEnteredOk` uses it twice: for the recursive function that
enters a list to have a value for every list, and for what each step keeps.

Only model-checked:

* `LinkDroppedForCause`, which does not hold (see Findings);
* liveness under fairness, which the prover cannot reach: `RequestsAnswered`,
  `SentRequestsAnswered`, `TransactionsFreed`, `QueriesSettle`, `LinkHeals`,
  `Delivered`, `Flushed`;
* `TreeExact`, `MeaningKept` and `Settled` of `Data`: `RedBlack` and `Conversion` use
  `RECURSIVE` operators, over trees and over the parts of a message, which keep the SMT
  prover from their modules, and what they compute for every tree or message would need
  induction over data.

## What is not modelled

* In `Gateway`: the text of messages, headers (`Path` has some of them), time in seconds (retransmission is a
  counter, the sweep an order of ages), `sip_release` and the order of shutdown,
  NOTIFY, requests of unknown methods, failure to allocate memory, and in
  `sip_relay` the `net_event_free` of a fresh connection after a failure
  before the transaction exists. A failing `sip_response_new` in `sip_finalize_failure` is left out as
  well. Route is the service in `example/cmd`; a Route that invents
  replies or repeats uuids is outside the model.
* In `CmdLink`: failures to allocate memory, `cmd_end` (it runs at shutdown only),
  packets MQTT defines and this client never causes (PUBACK, UNSUBACK). Each
  connection is taken to get a local port no earlier one had; a port the
  system hands out again would let the returns of a lost connection in.
* In `Framing`: the bytes of a message. Headers end in CRLF CRLF, not in two bare
  LF; every message says its length, and says it right; nothing a message holds
  before its end reads like another end of a header. `mem_align` copies
  overlapping bytes with `memcpy`, which C leaves undefined and which is taken
  for the move it is meant to be. The 16 bits of the fields of a chunk do not
  overflow. The address a chunk carries is left out.
* In `NetEvent`: failing allocations, `net_send`, the handlers of signals that only
  log, and opening and flagging sockets, which either succeeds or is the failure
  of the socket.
* In `Registrar`: the packet a query is (libldns builds and reads it), `aor_push`,
  which nothing calls, and walking the registry to print it. Events that the DNS
  socket shares with others are `NetEvent`'s.
* In `Notify`: failing allocations, and the NOTIFY requests themselves.
* In `Path`: requests that are repeated, the ACK of a success, and the other headers
  `sip.c` edits: Route, Date and the transport of a Contact.
* In `Conversion`: what libosip2 parses and prints, and the text of XML and SDP bodies.
* In `Mqtt`: the client of MQTT-C with its queue of messages, which the daemon does
  not use, and the failure of allocations.
* Messages on the broker may overtake each other in the model; the broker keeps
  the order per topic. The safety results therefore hold for any order.
* Not at all: TLS (not compiled), configuration and logging, printing and cloning
  of protobuf messages, helpers over text. See the components in `PROJECT.json`.

## Plan

Done: the path of a request, its link and its sockets; the life of net events;
registry, resolver, subscriptions; map, conversion and codec; the way back of answers. Left, in this
order, with (p) where proofs are planned:

1. `Exchange` - what Gateway promises Route: each request is open, then settled
   at most once, under the uuid it came with; `Gateway` implements it (p).
2. `Retransmit` - the schedule of `sip_transaction_retransmit_begin` in
   milliseconds against the RFC values its comment cites.
