----------------------------- MODULE Registrar -----------------------------
(***************************************************************************)
(* The addresses of record of src/src/aor.c, the lookups of src/src/dns.c  *)
(* that give their contacts a route, and the choice sip_proxy makes among  *)
(* them.                                                                   *)
(*                                                                         *)
(* A contact stands for everything contact_compare tells apart and its     *)
(* transport, a name for the From of a request without the user "*".  The  *)
(* address a name server gives for a host is the host.  A record, a key    *)
(* and a query have the memory they ask for.                               *)
(***************************************************************************)
EXTENDS Integers, FiniteSets, SequencesExt

CONSTANTS Name,         \* whose address of record it is
          Contact,      \* contacts, each with the
          Host,         \* Host[c] of its URL
          Numeric,      \* hosts that are addresses
          Ids,          \* 2^16: the ids on the wire
          Expires,      \* what a request may say of its expiry, in ticks
          Requests,     \* the lists of contacts a request may have
          MaxQuery,     \* bound: __id
          MaxEvent      \* bound: net events ever created

None == "none"
Everyone == "everyone"
Star == "*"             \* "Contact: *"

Learned == -1           \* the expiry sip_finalize_invite gives

ASSUME RegistrarAssumption ==
  /\ \A c \in Contact : Host[c] # None
  /\ Requests \subseteq
       Seq([contact : Contact \cup {Star}, expires : Nat \cup {Learned}])
  /\ Ids \in Nat \ {0, 1} /\ Expires \subseteq Nat
  /\ MaxQuery \in Nat /\ MaxEvent \in Nat \ {0}

VARIABLES aor,          \* __aor: per name the records, from root to tail
          query,        \* net->entities of the DNS socket
          answer,       \* what the name server may still answer
          id,           \* __id: of the last query
          resolver,     \* __dns has a socket
          called,       \* how often the callback of a query was called, and
          unknown,      \* the queries it was called for without an address
          event,        \* the sockets contacts registered over: the contact
                        \* at the other end, or Everyone for the UDP socket
          last,         \* the last id of a net event
          crashed       \* a null pointer was followed

vars == <<aor, query, answer, id, resolver, called, unknown, event, last, crashed>>

NoEvent == 0
NotAsked == 0           \* what a record asked before it is looked up, and
Unsent == -1            \* when there was no socket

Init ==
  /\ aor = <<>> /\ query = {} /\ answer = {} /\ id = 0 /\ resolver = TRUE
  /\ called = [q \in 1..MaxQuery |-> 0] /\ unknown = {}
  /\ event = <<Everyone>> /\ last = 1 /\ crashed = FALSE

-----------------------------------------------------------------------------
(* Lookups *)

\* aor_record_cmp: where a contact is in a map of records, at most once.
IndexOf(records, c) == {x \in DOMAIN records : records[x].contact = c}

Has(records, c) == IndexOf(records, c) # {}

Drop(records, c) ==
  IF Has(records, c) THEN RemoveAt(records, CHOOSE x \in IndexOf(records, c) : TRUE)
  ELSE records

\* A query takes the next id, and 0 is not one of 16 bits.
NextId(i) == IF (i + 1) % Ids # 0 THEN i + 1 ELSE i + 2

\* What a registration does, so far: the records of a name, the queries and
\* the last id.
Progress(r, q, a, i) == [records |-> r, query |-> q, answer |-> a, id |-> i]

\* dns_lookup for the record of name n that was just put in front: the answer
\* will carry the low bits of the id.  The key borrows the protocol of the
\* record.  Without a socket there is no query.
Ask(s, n) ==
  LET c == s.records[1].contact
      i == NextId(s.id)
  IN IF ~resolver THEN [s EXCEPT !.records[1].asked = Unsent]
     ELSE [s EXCEPT
             !.records[1].asked = i,
             !.query = @ \cup {[id |-> i, name |-> n, contact |-> c, lent |-> TRUE]},
             !.answer = @ \cup {[id |-> i % Ids, host |-> Host[c]]},
             !.id = i]

\* aor_record_lookup of that record: an address is its route; a name is asked
\* for.
Lookup(s, n) ==
  LET host == Host[s.records[1].contact]
  IN IF host \in Numeric THEN [s EXCEPT !.records[1].route = host] ELSE Ask(s, n)

\* The records of n that are gone lend nothing to a key any more.
Gone(q, n, c) ==
  {IF k.name = n /\ k.contact = c THEN [k EXCEPT !.lent = FALSE] ELSE k : k \in q}

\* dns_destroy2 with an address: aor_record_lookup_callback finds the record by
\* its key, if the protocol in the key is still memory it may use; if not, it
\* finds it or not.
\* Bug: the record of the name that is asked first gets the address.
ResolveFirst(records, k, address, finds) ==
  IF address = None \/ k.name \notin DOMAIN records \/ ~(k.lent \/ finds) THEN records
  ELSE [records EXCEPT ![k.name] =
          [x \in DOMAIN @ |-> IF x = 1 THEN [@[x] EXCEPT !.route = address] ELSE @[x]]]
Resolve(records, k, address, finds) ==
  IF address = None \/ k.name \notin DOMAIN records \/ ~(k.lent \/ finds) THEN records
  ELSE [records EXCEPT ![k.name] =
          [x \in DOMAIN @ |-> IF @[x].contact = k.contact
                              THEN [@[x] EXCEPT !.route = address] ELSE @[x]]]

\* dns_execute: the query with the id of the packet is taken out, whatever it
\* asked for, and called back with the first address, if there is one; the
\* answer may come again.
Answer(m, found, finds, again) ==
  /\ answer' = IF again THEN answer ELSE answer \ {m}
  /\ \/ /\ \A k \in query : k.id # m.id
        /\ UNCHANGED <<aor, query, called, unknown>>
     \/ \E k \in query :
          /\ k.id = m.id /\ query' = query \ {k}
          /\ called' = [called EXCEPT ![k.id] = @ + 1]
          /\ unknown' = IF found THEN unknown ELSE unknown \cup {k.id}
          /\ aor' = Resolve(aor, k, IF found THEN m.host ELSE None, finds)
  /\ UNCHANGED <<id, resolver, event, last, crashed>>

\* The DNS socket fails: its queries are called back without an address, and
\* it is opened again or not (net_callback_inout, dns_release, dns_acquire).
ResolverFails(opened) ==
  /\ resolver /\ resolver' = opened /\ query' = {}
  /\ called' = [q \in DOMAIN called |->
                  called[q] + Cardinality({k \in query : k.id = q})]
  /\ unknown' = unknown \cup {k.id : k \in query}
  /\ UNCHANGED <<aor, answer, id, event, last, crashed>>

-----------------------------------------------------------------------------
(* Registrations *)

\* aor_record_new: none for an expiry of 0; the one a contact names wins.
Expiry(expired, param) ==
  IF expired # Learned /\ param # Learned THEN param ELSE expired

\* Who is at the other end of the event is kept beside it, for ReachesContact.
NewRecord(c, expired, over) ==
  [contact |-> c, left |-> expired, over |-> over,
   by |-> IF over \in DOMAIN event THEN event[over] ELSE None,
   route |-> None, asked |-> NotAsked]

\* One contact of a request.  A contact of a known name that is registered
\* again is a new record; one that is learned from an INVITE, or comes twice in
\* the first request of a name, leaves the record that is there.
\* Bug: only a contact that is new is looked up.
ContactedNew(s, n, x, expired, over, known) ==
  LET e == Expiry(expired, x.expires)
      replaced == known /\ expired # Learned
      kept == IF replaced THEN Drop(s.records, x.contact) ELSE s.records
      u == [s EXCEPT !.records = kept,
                     !.query = IF replaced THEN Gone(@, n, x.contact) ELSE @]
      v == [u EXCEPT !.records = <<NewRecord(x.contact, e, over)>> \o @]
  IN IF e = 0 \/ Has(kept, x.contact) THEN u
     ELSE IF Has(s.records, x.contact) THEN v ELSE Lookup(v, n)
Contacted(s, n, x, expired, over, known) ==
  LET e == Expiry(expired, x.expires)
      replaced == known /\ expired # Learned
      kept == IF replaced THEN Drop(s.records, x.contact) ELSE s.records
      u == [s EXCEPT !.records = kept,
                     !.query = IF replaced THEN Gone(@, n, x.contact) ELSE @]
  IN IF e = 0 \/ Has(kept, x.contact) THEN u
     ELSE Lookup([u EXCEPT !.records = <<NewRecord(x.contact, e, over)>> \o @], n)

\* "Contact: *" with "Expires: 0".
Erased(s, n) ==
  [s EXCEPT !.records = <<>>,
            !.query = {IF k.name = n THEN [k EXCEPT !.lent = FALSE] ELSE k : k \in @}]

\* A "*" is no record of a name that is new.
Entered(s, n, x, expired, over, known) ==
  IF x.contact # Star THEN Contacted(s, n, x, expired, over, known)
  ELSE IF known THEN Erased(s, n) ELSE s

\* The contacts of a request, from the last to the first.
AllEntered(n, contacts, expired, over, known) ==
  LET done[i \in 0..Len(contacts)] ==
        IF i = 0 THEN Progress(IF known THEN aor[n] ELSE <<>>, query, answer, id)
        ELSE Entered(done[i - 1], n, contacts[Len(contacts) + 1 - i], expired, over, known)
  IN done[Len(contacts)]

\* aor_update and aor_new.  For a name that is known a "*" has no URL to be
\* looked at unless it takes all records away.
Update(n, contacts, expired, over) ==
  LET known == n \in DOMAIN aor
      s == AllEntered(n, contacts, expired, over, known)
  IN IF known /\ expired # 0 /\ \E x \in DOMAIN contacts : contacts[x].contact = Star
     THEN crashed' = TRUE /\ UNCHANGED <<aor, query, answer, id>>
     ELSE /\ s.id <= MaxQuery
          /\ aor' = [m \in DOMAIN aor \cup {n} |-> IF m = n THEN s.records ELSE aor[m]]
          /\ query' = s.query /\ answer' = s.answer /\ id' = s.id
          /\ UNCHANGED crashed

\* The event a request came over: any, whoever its contacts are, or none when
\* the Via names another transport than that of the event.
Over == {NoEvent} \cup DOMAIN event

\* sip_finalize_registrate: Route accepted a REGISTER.  All contacts of a
\* request get its socket, also those that name another host.
Register(n, contacts, expired, over) ==
  /\ ~crashed /\ over \in Over
  /\ Update(n, contacts, expired, over)
  /\ UNCHANGED <<resolver, called, unknown, event, last>>

\* sip_finalize_invite: Route accepted an INVITE; the contact of the caller is
\* learned, at once expired.
Learn(n, c, over) ==
  /\ ~crashed /\ over \in Over
  /\ Update(n, <<[contact |-> c, expires |-> Learned]>>, Learned, over)
  /\ UNCHANGED <<resolver, called, unknown, event, last>>

-----------------------------------------------------------------------------
(* Sockets and time *)

\* A contact connects; a socket is closed, or the UDP socket opened again: the
\* records keep the id they have.
Connect(c) ==
  /\ ~crashed /\ last < MaxEvent /\ last' = last + 1
  /\ event' = [e \in DOMAIN event \cup {last'} |-> IF e = last' THEN c ELSE event[e]]
  /\ UNCHANGED <<aor, query, answer, id, resolver, called, unknown, crashed>>

Closed(e) ==
  /\ ~crashed
  /\ IF event[e] # Everyone
     THEN event' = [f \in DOMAIN event \ {e} |-> event[f]] /\ UNCHANGED last
     ELSE /\ last < MaxEvent /\ last' = last + 1
          /\ event' = [f \in (DOMAIN event \ {e}) \cup {last'} |->
                         IF f = last' THEN Everyone ELSE event[f]]
  /\ UNCHANGED <<aor, query, answer, id, resolver, called, unknown, crashed>>

Passes(r) == [r EXCEPT !.left = IF @ = Learned THEN @ ELSE @ - 1]

Tick ==
  /\ ~crashed
  /\ aor' = [n \in DOMAIN aor |-> [x \in DOMAIN aor[n] |-> Passes(aor[n][x])]]
  /\ UNCHANGED <<query, answer, id, resolver, called, unknown, event, last, crashed>>

Next ==
  \/ \E n \in Name, contacts \in Requests, expired \in Expires, over \in Over :
       Register(n, contacts, expired, over)
  \/ \E n \in Name, c \in Contact, over \in Over : Learn(n, c, over)
  \/ ~crashed /\ \E m \in answer, found, finds, again \in BOOLEAN :
                   Answer(m, found, finds, again)
  \/ ~crashed /\ \E opened \in BOOLEAN : ResolverFails(opened)
  \/ \E c \in Contact : Connect(c)
  \/ \E e \in DOMAIN event : Closed(e)
  \/ Tick

Spec == Init /\ [][Next]_vars

-----------------------------------------------------------------------------
(* Where a request goes *)

\* sip_proxy: the records of a name a request may be relayed to; it goes to
\* the first of them.
Eligible(n, invite) ==
  {x \in DOMAIN aor[n] : aor[n][x].route # None /\ (invite => aor[n][x].left >= 0)}

\* A connection of the record that is still there.
Connected(r) == r.over \in DOMAIN event /\ event[r.over] # Everyone

\* sip_relay: over that connection, to whoever is at the other end; over UDP and
\* over a new connection to the route.
Reaches(r) == IF Connected(r) THEN Host[event[r.over]] ELSE r.route

TypeOK ==
  /\ DOMAIN aor \subseteq Name
  /\ \A n \in DOMAIN aor : \A x \in DOMAIN aor[n] :
       /\ aor[n][x].contact \in Contact /\ aor[n][x].over \in 0..last
       /\ aor[n][x].by \in Contact \cup {Everyone, None}
       /\ aor[n][x].left \in -1..100
       /\ aor[n][x].route \in {None} \cup {Host[c] : c \in Contact}
  /\ id \in 0..MaxQuery /\ last \in 1..MaxEvent /\ crashed \in BOOLEAN
  /\ resolver \in BOOLEAN /\ called \in [1..MaxQuery -> Nat]
  /\ \A k \in query : k.id \in 1..id

\* A request for a name goes back over the connection its contact was
\* registered over, to the one who registered it, as long as that is open; when
\* it is closed, also if others were opened since or the UDP socket was bound
\* again, it goes to the host of that contact and of no other: when answers of
\* the name server come late, twice, or for a record that was replaced
\* meanwhile, but only as long as the ids of all queries fit into 16 bits.
ReachesContact ==
  \A n \in DOMAIN aor, invite \in BOOLEAN :
    Eligible(n, invite) # {} /\ id < Ids =>
      LET r == aor[n][Min(Eligible(n, invite))]
      IN Reaches(r) = Host[IF Connected(r) THEN r.by ELSE r.contact]

\* The callback of a query is called once, and a query that waits was not
\* called yet: its key is freed by the callback.
CalledOnce == \A q \in DOMAIN called :
  called[q] + Cardinality({k \in query : k.id = q}) <= 1

\* A name has at most one record for a contact, and one without a route, which
\* no request is relayed to, waits for the query it asked itself, unless that
\* was answered without an address or there was no socket to send it: a record
\* that is registered again while the query of the one before waits is not left
\* without a route by the answer to that.
RouteAwaited ==
  \A n \in DOMAIN aor : \A x \in DOMAIN aor[n] :
    LET r == aor[n][x]
    IN /\ IndexOf(aor[n], r.contact) = {x}
       /\ r.route = None => \/ r.asked = Unsent \/ r.asked \in unknown
                            \/ \E k \in query : k.id = r.asked /\ k.lent

\* A query is answered to the one who asked: once, and if it can be.
QueriesReturn == CalledOnce /\ RouteAwaited
=============================================================================
