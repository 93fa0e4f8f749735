------------------------------- MODULE Notify -------------------------------
(***************************************************************************)
(* The presence subscriptions of src/src/notify.c: subscribers own         *)
(* contacts, presences own signatures, and each side holds pointers into   *)
(* the other: a contact to the presences it watches, a signature to its    *)
(* contact.  A pointer outlives what it points to when nobody takes it     *)
(* back: the variables keep such pointers, and whether one was followed.   *)
(*                                                                         *)
(* A signature is found by its address alone: where two subscribers watch  *)
(* one presence from one address they share it, and the code goes astray   *)
(* (met).                                                                  *)
(*                                                                         *)
(* Addresses are what url_compare tells apart; the request that is built   *)
(* for a notification is its subscription; there is memory for everything. *)
(***************************************************************************)
CONSTANTS From, Contact, To, CallId     \* as in Subscriptions

VARIABLES subscriber,   \* notify->subscribe: their addresses
          contact,      \* their contacts: <<subscriber, address>>
          presence,     \* notify->presence: the addresses that are watched
          link,         \* contact->presence: [from, contact, to]
          signature,    \* presence->signature: of a presence one per contact
                        \* address, [to, contact, from, id, of]
          dead,         \* links to a presence that was freed
          followed,     \* a pointer to freed memory may have been followed
          sent,         \* what the last call submitted
          open,         \* until notify_free
          met           \* history: <<contact, to>> where two subscribers had
                        \* subscriptions at one time

vars == <<subscriber, contact, presence, link, signature, dead, followed, sent, open, met>>

Init ==
  /\ subscriber = {} /\ contact = {} /\ presence = {} /\ link = {} /\ signature = {}
  /\ dead = {} /\ followed = FALSE /\ sent = {} /\ open = TRUE
  /\ met = {}

-----------------------------------------------------------------------------
(* What is freed together *)

OfContact(links, k) == {l \in links : <<l.from, l.contact>> = k}

\* contact_free takes back the signatures of a contact with its own pointers to
\* the presences: in each of these the one with its address.
Signed(links, signatures) ==
  {s \in signatures : \E l \in links : l.to = s.to /\ l.contact = s.contact}

\* The contacts ks are freed.
\* Bug: their signatures stay.
FreeContactsOnly(ks, links, signatures) ==
  /\ contact' = contact \ ks
  /\ link' = {l \in links : <<l.from, l.contact>> \notin ks}
  /\ signature' = signatures
FreeContacts(ks, links, signatures) ==
  LET lost == {l \in links : <<l.from, l.contact>> \in ks}
  IN /\ contact' = contact \ ks
     /\ link' = links \ lost
     /\ signature' = signatures \ Signed(lost, signatures)

\* A subscriber goes with the last contact that notify_delete asked for.
SubscribersLeft(f) == IF \E c \in contact' : c[1] = f THEN subscriber ELSE subscriber \ {f}

-----------------------------------------------------------------------------
(* The calls *)

Note(s) == [from |-> s.from, contact |-> s.of[2], to |-> s.to, id |-> s.id]

\* notify_update: what is missing is added.  A signature there keeps its contact;
\* it has the address of the subscriber and the id of the call from now on,
\* unless something was added before it, which clears the flag of map_push_find.
Update(f, c, t, i) ==
  LET k == <<f, c>>
      old == {s \in signature : s.to = t /\ s.contact = c}
      known == f \in subscriber /\ k \in contact /\ t \in presence
      new == IF old = {} THEN {[to |-> t, contact |-> c, from |-> f, id |-> i, of |-> k]}
             ELSE IF known THEN {[s EXCEPT !.from = f, !.id = i] : s \in old}
             ELSE old
      others == {l \in link : l.contact = c /\ l.to = t /\ l.from # f}
  IN /\ open /\ ~followed
     /\ subscriber' = subscriber \cup {f} /\ contact' = contact \cup {k}
     /\ presence' = presence \cup {t}
     /\ signature' = (signature \ old) \cup new
     /\ link' = link \cup {[from |-> f, contact |-> c, to |-> t]}
     /\ followed' = (OfContact(dead, k) # {})
     /\ sent' = {Note(s) : s \in new}
     /\ met' = met \cup {<<l.contact, l.to>> : l \in others}
     /\ UNCHANGED <<dead, open>>

\* notify_delete of one subscription.  The presence goes with its last
\* signature, the contact with its last presence, the subscriber with its last
\* contact.  A presence that is freed takes back the pointers of the contacts
\* its signatures name, and it has none.
\* Bug: the presence goes with the first signature.
DeleteEarly(f, c, t) ==
  LET k == <<f, c>>
      l == [from |-> f, contact |-> c, to |-> t]
      s == Signed({l}, signature)
      r == IF s = {} THEN {} ELSE {q \in signature : q.to = t} \ s
      left == link \ ({l} \cup {m \in link : \E q \in r : q.of = <<m.from, m.contact>> /\ m.to = t})
  IN /\ open /\ ~followed /\ l \in link
     /\ presence' = IF s # {} THEN presence \ {t} ELSE presence
     /\ IF OfContact(left, k) = {}
        THEN FreeContacts({k}, left, signature \ (s \cup r)) /\ subscriber' = SubscribersLeft(f)
        ELSE /\ link' = left /\ signature' = signature \ (s \cup r)
             /\ UNCHANGED <<subscriber, contact>>
     /\ sent' = {} /\ UNCHANGED <<dead, followed, open, met>>
Delete(f, c, t) ==
  LET k == <<f, c>>
      l == [from |-> f, contact |-> c, to |-> t]
      s == Signed({l}, signature)
      gone == s # {} /\ \A r \in signature \ s : r.to # t
  IN /\ open /\ ~followed /\ l \in link
     /\ presence' = IF gone THEN presence \ {t} ELSE presence
     /\ IF OfContact(link \ {l}, k) = {}
        THEN FreeContacts({k}, link \ {l}, signature \ s) /\ subscriber' = SubscribersLeft(f)
        ELSE /\ link' = link \ {l} /\ signature' = signature \ s
             /\ UNCHANGED <<subscriber, contact>>
     /\ dead' = (dead \ {l}) \cup {m \in link' : gone /\ m.to = t}
     /\ followed' = (OfContact(dead, k) # {})
     /\ sent' = {} /\ UNCHANGED <<open, met>>

\* notify_delete of a contact.
DeleteContact(f, c) ==
  LET k == <<f, c>>
  IN /\ open /\ ~followed /\ k \in contact
     /\ FreeContacts({k}, link, signature) /\ subscriber' = SubscribersLeft(f)
     /\ dead' = dead \ OfContact(dead, k)
     /\ followed' = (OfContact(dead, k) # {})
     /\ sent' = {} /\ UNCHANGED <<presence, open, met>>

\* notify_delete of a subscriber.
DeleteSubscriber(f) ==
  LET lost == {l \in dead : l.from = f}
  IN /\ open /\ ~followed /\ f \in subscriber /\ subscriber' = subscriber \ {f}
     /\ FreeContacts({k \in contact : k[1] = f}, link, signature)
     /\ dead' = dead \ lost /\ followed' = (lost # {})
     /\ sent' = {} /\ UNCHANGED <<presence, open, met>>

\* notify_change: every signature of the presence is told.
Change(t) ==
  /\ open /\ ~followed
  /\ sent' = {Note(s) : s \in {r \in signature : r.to = t}}
  /\ followed' = (\E s \in signature : s.to = t /\ s.of \notin contact)
  /\ UNCHANGED <<subscriber, contact, presence, link, signature, dead, open, met>>

\* notify_free: the subscribers with what they own, then the presences.
Free ==
  /\ open /\ ~followed /\ open' = FALSE
  /\ subscriber' = {} /\ presence' = {} /\ dead' = {} /\ sent' = {}
  /\ followed' = (dead # {} \/ Signed(link, signature) # signature)
  /\ contact' = {} /\ link' = {} /\ signature' = {} /\ UNCHANGED met

Next ==
  \/ \E f \in From, c \in Contact, t \in To, i \in CallId : Update(f, c, t, i)
  \/ \E f \in From, c \in Contact, t \in To : Delete(f, c, t)
  \/ \E f \in From, c \in Contact : DeleteContact(f, c)
  \/ \E f \in From : DeleteSubscriber(f)
  \/ \E t \in To : Change(t)
  \/ Free

Spec == Init /\ [][Next]_vars

-----------------------------------------------------------------------------
TypeOK ==
  /\ subscriber \subseteq From /\ contact \subseteq From \X Contact /\ presence \subseteq To
  /\ link \subseteq [from : From, contact : Contact, to : To] /\ dead \subseteq link
  /\ signature \subseteq [to : To, contact : Contact, from : From, id : CallId,
                          of : From \X Contact]
  /\ sent \subseteq [from : From, contact : Contact, to : To, id : CallId]
  /\ followed \in BOOLEAN /\ open \in BOOLEAN
  /\ met \subseteq Contact \X To

\* Each side's pointers into the other lead to what is still there: a contact
\* watches presences in the map, a signature belongs to a contact that is in the
\* map of a subscriber who is; nothing that was freed is ever followed.  Only
\* where two subscribers have watched a presence from one address, and share its
\* signature, may a contact keep its pointer to the presence after that is freed
\* with the signature.
NothingDangles ==
  /\ \A l \in dead : <<l.contact, l.to>> \in met
  /\ followed => met # {}
  /\ \A l \in link : /\ <<l.from, l.contact>> \in contact
                     /\ l.to \in presence \/ <<l.contact, l.to>> \in met
  /\ \A s \in signature : s.of \in contact /\ s.to \in presence
  /\ \A k \in contact : k[1] \in subscriber

\* Who is told is who subscribed, with the id of the last subscription: the
\* signatures are the subscriptions, whatever is freed in which order, until two
\* subscribers watch one presence from one address.
Watching == INSTANCE Subscriptions WITH subs <- {Note(s) : s \in signature}
ImplementsSubscriptions ==
  Watching!Init /\ [][Watching!Next \/ met' # {}]_(Watching!vars)
=============================================================================
