---------------------------- MODULE NotifyProofs ----------------------------
(***************************************************************************)
(* What is proved of Notify, for any subscribers, contacts and presences:  *)
(* the pointers of either side lead to what is there, but for those of     *)
(* contacts that share a signature with another subscriber's, and until    *)
(* two do the signatures are the subscriptions.                            *)
(*                                                                         *)
(* The invariant behind both pairs each pointer of a contact with one      *)
(* signature: that contact_free finds by address what is its own, and only *)
(* that, hangs on there being one.                                         *)
(***************************************************************************)
EXTENDS Notify, TLAPS

LinkOf(s) == [from |-> s.of[1], contact |-> s.contact, to |-> s.to]

Shared(l) == <<l.contact, l.to>> \in met

\* Elsewhere the address is that of one pointer to the presence.
Apart ==
  \A l, m \in link : l.contact = m.contact /\ l.to = m.to => l = m \/ Shared(l)

\* A signature belongs to a contact of its address, which points back at the
\* presence; no other signature of the presence has the address.  Unless it is
\* shared it has the address of the contact's subscriber.
Signing ==
  /\ \A s \in signature :
       /\ s.of[2] = s.contact /\ LinkOf(s) \in link
       /\ s.from = s.of[1] \/ Shared(LinkOf(s))
  /\ \A s, r \in signature : s.to = r.to /\ s.contact = r.contact => s = r

\* A pointer to a presence has its signature there.
Pointing == \A l \in link : Shared(l) \/ \E s \in signature : LinkOf(s) = l

IInv == TypeOK /\ NothingDangles /\ Apart /\ Signing /\ Pointing

-----------------------------------------------------------------------------
\* At first there is nothing.
LEMMA InitIInv == Init => IInv
  BY DEF Init, IInv, TypeOK, NothingDangles, Apart, Signing, Pointing

\* Pointers that go with their contacts take the signatures along that they
\* lead to, and no others, unless they are shared.
LEMMA Pairs ==
  ASSUME IInv, NEW L, L \subseteq link
  PROVE  /\ \A s \in signature : LinkOf(s) \in L => s \in Signed(L, signature)
         /\ \A s \in Signed(L, signature) :
              s \in signature /\ (LinkOf(s) \in L \/ Shared(LinkOf(s)))
<1>1. \A s : LinkOf(s).to = s.to /\ LinkOf(s).contact = s.contact
  BY DEF LinkOf
<1>2. ASSUME NEW s \in signature, NEW l \in L, l.to = s.to, l.contact = s.contact
      PROVE  LinkOf(s) \in L \/ Shared(LinkOf(s))
  <2>1. l \in link /\ LinkOf(s) \in link
    BY DEF IInv, Signing
  <2>2. LinkOf(s) = l \/ Shared(LinkOf(s))
    BY <1>1, <1>2, <2>1 DEF IInv, Apart
  <2> QED
    BY <2>2
<1> QED
  BY <1>1, <1>2 DEF Signed

\* The pointers L end with their signatures, and contacts K that have none left:
\* the rest is paired as before.
LEMMA Ends ==
  ASSUME IInv, NEW L, L \subseteq link, NEW K,
         \A l \in link : <<l.from, l.contact>> \in K => l \in L,
         link' = link \ L, contact' = contact \ K,
         signature' = signature \ Signed(L, signature),
         presence' \subseteq presence, \A l \in link' : l.to \in presence' \/ Shared(l),
         \A s \in signature' : s.to \in presence',
         subscriber' \subseteq subscriber, \A k \in contact' : k[1] \in subscriber',
         dead' \subseteq link', \A l \in dead' : Shared(l),
         followed' \in BOOLEAN, followed' => met # {},
         sent' = {}, open' \in BOOLEAN, met' = met
  PROVE  IInv'
<1>1. TypeOK'
  BY DEF IInv, TypeOK
<1>2. \A s \in signature' : s \in signature /\ LinkOf(s) \in link'
  BY Pairs DEF IInv, Signing
<1>3. \A l \in link' : <<l.from, l.contact>> \in contact'
  BY DEF IInv, NothingDangles
<1>4. ASSUME NEW s \in signature'
      PROVE  s.of \in contact' /\ s.to \in presence'
  <2>1. s.of[2] = s.contact /\ s.of \in From \X Contact
    BY <1>2 DEF IInv, Signing, TypeOK
  <2>2. s.of = <<s.of[1], s.contact>>
    BY <2>1
  <2>3. LinkOf(s).from = s.of[1] /\ LinkOf(s).contact = s.contact
    BY DEF LinkOf
  <2> QED
    BY <1>2, <1>3, <2>2, <2>3
<1>5. NothingDangles'
  BY <1>3, <1>4 DEF NothingDangles, Shared
<1>6. Apart'
  BY DEF IInv, Apart, Shared
<1>7. Signing'
  <2>1. \A s \in signature' :
          /\ s.of[2] = s.contact /\ LinkOf(s) \in link'
          /\ s.from = s.of[1] \/ Shared(LinkOf(s))
    BY <1>2 DEF IInv, Signing
  <2>2. \A s, r \in signature' : s.to = r.to /\ s.contact = r.contact => s = r
    BY <1>2 DEF IInv, Signing
  <2> QED
    BY <2>1, <2>2 DEF Signing, LinkOf, Shared
<1>8. ASSUME NEW l \in link'
      PROVE  Shared(l) \/ \E s \in signature' : LinkOf(s) = l
  <2>1. CASE Shared(l)
    BY <2>1
  <2>2. CASE ~Shared(l)
    <3>1. PICK s \in signature : LinkOf(s) = l
      BY <2>2 DEF IInv, Pointing
    <3>2. s \notin Signed(L, signature)
      BY <2>2, <3>1, Pairs
    <3> QED
      BY <3>1, <3>2
  <2> QED
    BY <2>1, <2>2
<1>9. Pointing'
  BY <1>8 DEF Pointing, LinkOf, Shared
<1> QED
  BY <1>1, <1>5, <1>6, <1>7, <1>9 DEF IInv

-----------------------------------------------------------------------------
(* The calls *)

\* Where nobody shared a signature it is its subscriber's, and its note says so.
LEMMA Owned ==
  ASSUME IInv, NEW s \in signature, <<s.contact, s.to>> \notin met
  PROVE  s.of = <<s.from, s.contact>>
<1>1. ~Shared(LinkOf(s))
  BY DEF Shared, LinkOf
<1>2. s.of[2] = s.contact /\ s.from = s.of[1] /\ s.of \in From \X Contact
  BY <1>1 DEF IInv, Signing, TypeOK
<1> QED
  BY <1>2

\* A signature with the address that nobody else has a pointer for is the
\* caller's, and everything on the way to it was there.
LEMMA Known ==
  ASSUME IInv, NEW f, NEW c, NEW t, NEW s \in signature, s.to = t, s.contact = c,
         <<c, t>> \notin met,
         \A m \in link : m.contact = c /\ m.to = t => m.from = f
  PROVE  s.of = <<f, c>> /\ f \in subscriber /\ <<f, c>> \in contact /\ t \in presence
<1>1. s.of = <<s.from, c>> /\ LinkOf(s) \in link
  BY Owned DEF IInv, Signing
<1>2. LinkOf(s).from = s.of[1] /\ LinkOf(s).contact = c /\ LinkOf(s).to = t
  BY DEF LinkOf
<1>3. s.of = <<f, c>>
  BY <1>1, <1>2
<1>4. s.of \in contact /\ s.to \in presence /\ s.of[1] \in subscriber
  BY DEF IInv, NothingDangles
<1> QED
  BY <1>3, <1>4

\* A subscription is new or is renewed where it was.
LEMMA UpdateIInv ==
  ASSUME IInv, NEW f \in From, NEW c \in Contact, NEW t \in To, NEW i \in CallId,
         Update(f, c, t, i)
  PROVE  /\ IInv'
         /\ <<c, t>> \notin met' =>
              /\ \A m \in link : m.contact = c /\ m.to = t => m.from = f
              /\ signature' = {s \in signature : ~(s.to = t /\ s.contact = c)} \cup
                   {[to |-> t, contact |-> c, from |-> f, id |-> i, of |-> <<f, c>>]}
              /\ sent' = {[from |-> f, contact |-> c, to |-> t, id |-> i]}
<1> DEFINE k == <<f, c>>
           l == [from |-> f, contact |-> c, to |-> t]
           old == {s \in signature : s.to = t /\ s.contact = c}
           known == f \in subscriber /\ k \in contact /\ t \in presence
           fresh == [to |-> t, contact |-> c, from |-> f, id |-> i, of |-> k]
           renew(s) == [s EXCEPT !.from = f, !.id = i]
           new == IF old = {} THEN {fresh}
                  ELSE IF known THEN {renew(s) : s \in old}
                  ELSE old
           others == {m \in link : m.contact = c /\ m.to = t /\ m.from # f}
           Signatures == [to : To, contact : Contact, from : From, id : CallId,
                          of : From \X Contact]
<1>0. /\ subscriber' = subscriber \cup {f} /\ contact' = contact \cup {k}
      /\ presence' = presence \cup {t}
      /\ signature' = (signature \ old) \cup new
      /\ link' = link \cup {l}
      /\ followed' = (OfContact(dead, k) # {})
      /\ sent' = {Note(s) : s \in new} /\ dead' = dead /\ open' = open
      /\ met' = met \cup {<<m.contact, m.to>> : m \in others}
  BY DEF Update
<1>1. met \subseteq met' /\ met' \subseteq met \cup {<<c, t>>}
  BY <1>0
<1>2. \A m \in link : m.contact = c /\ m.to = t => m.from = f \/ <<c, t>> \in met'
  BY <1>0
<1>3. <<c, t>> \notin met' => new = {fresh}
  <2>1. ASSUME <<c, t>> \notin met', NEW s \in old
        PROVE  known /\ renew(s) = fresh
    <3>1. s \in signature /\ s.to = t /\ s.contact = c /\ s \in Signatures
      BY DEF IInv, TypeOK
    <3>2. <<c, t>> \notin met /\ \A m \in link : m.contact = c /\ m.to = t => m.from = f
      BY <1>1, <1>2, <2>1
    <3>3. known /\ s.of = k
      <4> HIDE DEF old, renew, fresh
      <4> QED
        BY <3>1, <3>2, Known
    <3>4. renew(s) \in Signatures
      BY <3>1
    <3>5. /\ renew(s).to = t /\ renew(s).contact = c /\ renew(s).from = f /\ renew(s).id = i
          /\ renew(s).of = k
      BY <3>1, <3>3
    <3> HIDE DEF renew
    <3>6. renew(s) = fresh
      BY <3>4, <3>5
    <3> QED
      BY <3>3, <3>6
  <2>2. CASE old = {}
    BY <2>2
  <2>3. CASE <<c, t>> \notin met' /\ old # {}
    <3>1. known
      BY <2>1, <2>3
    <3>2. new = {renew(s) : s \in old}
      BY <2>3, <3>1
    <3>3. \A s \in old : renew(s) = fresh
      BY <2>1, <2>3
    <3> HIDE DEF new, fresh, old, renew
    <3> QED
      BY <2>3, <3>2, <3>3
  <2> QED
    BY <2>2, <2>3
\* Whatever the new signature is, it has the address and is a contact's.
<1>4. /\ \E s \in new : TRUE
      /\ \A s \in new : /\ s \in Signatures /\ s.to = t /\ s.contact = c /\ s.of[2] = c
                        /\ LinkOf(s) \in link' /\ s.of \in contact'
                        /\ s.from = s.of[1] \/ <<c, t>> \in met'
      /\ \A s, r \in new : s = r
  <2>1. CASE old = {}
    <3>1. new = {fresh}
      BY <2>1
    <3>2. LinkOf(fresh) = l
      BY DEF LinkOf
    <3>3. /\ fresh \in Signatures /\ fresh.to = t /\ fresh.contact = c /\ fresh.of[2] = c
          /\ fresh.of = k /\ fresh.from = fresh.of[1]
      OBVIOUS
    <3> HIDE DEF fresh, new, l, k
    <3> QED
      BY <1>0, <3>1, <3>2, <3>3
  <2>2. CASE old # {} /\ known
    <3>1. ASSUME NEW s \in old
          PROVE  /\ renew(s) \in Signatures /\ renew(s).to = t /\ renew(s).contact = c
                 /\ renew(s).of[2] = c /\ LinkOf(renew(s)) \in link' /\ renew(s).of \in contact'
                 /\ renew(s).from = renew(s).of[1] \/ <<c, t>> \in met'
      <4>1. s \in Signatures /\ s.to = t /\ s.contact = c /\ s.of[2] = c /\ s.of \in contact
        BY DEF IInv, TypeOK, NothingDangles, Signing
      <4>2. /\ renew(s) \in Signatures /\ renew(s).to = t /\ renew(s).contact = c
            /\ renew(s).of = s.of /\ renew(s).from = f
        BY <4>1
      <4>3. LinkOf(renew(s)) = LinkOf(s) /\ LinkOf(s) \in link
        BY <4>1, <4>2 DEF LinkOf, IInv, Signing
      <4>4. LinkOf(s).from = s.of[1] /\ LinkOf(s).contact = c /\ LinkOf(s).to = t
        BY <4>1 DEF LinkOf
      <4>5. s.of[1] = f \/ <<c, t>> \in met'
        BY <1>2, <4>3, <4>4
      <4>6. LinkOf(s) \in link' /\ s.of \in contact'
        BY <1>0, <4>1, <4>3
      <4> HIDE DEF renew, old
      <4> QED
        BY <4>1, <4>2, <4>3, <4>5, <4>6
    <3>2. \A s, r \in old : s = r
      BY DEF IInv, Signing
    <3>3. new = {renew(s) : s \in old}
      BY <2>2
    <3> HIDE DEF new, old, renew, known
    <3>4. \A s, r \in new : s = r
      BY <3>2, <3>3
    <3> QED
      BY <2>2, <3>1, <3>3, <3>4
  <2>3. CASE old # {} /\ ~known
    <3>1. new = old
      BY <2>3
    <3>2. ASSUME NEW s \in old
          PROVE  /\ s \in Signatures /\ s.to = t /\ s.contact = c /\ s.of[2] = c
                 /\ LinkOf(s) \in link' /\ s.of \in contact'
                 /\ s.from = s.of[1] \/ <<c, t>> \in met'
      <4>1. Shared(LinkOf(s)) => <<c, t>> \in met'
        BY <1>1 DEF Shared, LinkOf
      <4> QED
        BY <1>0, <4>1 DEF IInv, TypeOK, NothingDangles, Signing
    <3>3. \A s, r \in old : s = r
      BY DEF IInv, Signing
    <3> HIDE DEF new, old
    <3> QED
      BY <2>3, <3>1, <3>2, <3>3
  <2> QED
    BY <2>1, <2>2, <2>3
<1> HIDE DEF new
<1>5. l.from = f /\ l.contact = c /\ l.to = t /\ <<l.from, l.contact>> = k
  OBVIOUS
<1>6. TypeOK'
  <2>1. \A s \in new : Note(s) \in [from : From, contact : Contact, to : To, id : CallId]
    BY <1>4 DEF Note
  <2>2. sent' \subseteq [from : From, contact : Contact, to : To, id : CallId]
    BY <1>0, <2>1
  <2>3. signature' \subseteq Signatures
    BY <1>0, <1>4 DEF IInv, TypeOK
  <2>4. /\ subscriber' \subseteq From /\ contact' \subseteq From \X Contact
        /\ presence' \subseteq To /\ open' \in BOOLEAN /\ followed' \in BOOLEAN
    <3>1. k \in From \X Contact
      OBVIOUS
    <3> QED
      BY <1>0, <3>1 DEF IInv, TypeOK
  <2>5. link' \subseteq [from : From, contact : Contact, to : To] /\ dead' \subseteq link'
    BY <1>0 DEF IInv, TypeOK
  <2>6. met' \subseteq Contact \X To
    BY <1>1 DEF IInv, TypeOK
  <2> QED
    BY <2>2, <2>3, <2>4, <2>5, <2>6 DEF TypeOK
<1>7. NothingDangles'
  <2>1. \A m \in link' : /\ <<m.from, m.contact>> \in contact'
                         /\ m.to \in presence' \/ <<m.contact, m.to>> \in met'
    <3> HIDE DEF l, k
    <3> QED
      BY <1>0, <1>1, <1>5 DEF IInv, NothingDangles
  <2>2. \A s \in signature' : s.of \in contact' /\ s.to \in presence'
    BY <1>0, <1>4 DEF IInv, NothingDangles
  <2>3. \A o \in contact' : o[1] \in subscriber'
    BY <1>0 DEF IInv, NothingDangles
  <2>4. (\A m \in dead' : <<m.contact, m.to>> \in met') /\ (followed' => met' # {})
    BY <1>0, <1>1 DEF IInv, NothingDangles, OfContact
  <2> QED
    BY <2>1, <2>2, <2>3, <2>4 DEF NothingDangles
<1>8. Apart'
  <2>1. \A m \in link : m.contact = c /\ m.to = t => m = l \/ <<c, t>> \in met'
    <3>1. \A m \in link : m \in [from : From, contact : Contact, to : To]
      BY DEF IInv, TypeOK
    <3> QED
      BY <1>2, <3>1
  <2>2. \A m, o \in link : m.contact = o.contact /\ m.to = o.to =>
                             m = o \/ <<m.contact, m.to>> \in met'
    BY <1>1 DEF IInv, Apart, Shared
  <2> HIDE DEF l
  <2> QED
    BY <1>0, <1>5, <2>1, <2>2 DEF Apart, Shared
<1>9. Signing'
  <2>1. \A s \in signature' :
          /\ s.of[2] = s.contact /\ LinkOf(s) \in link'
          /\ s.from = s.of[1] \/ <<s.contact, s.to>> \in met'
    <3>1. \A s \in signature :
            /\ s.of[2] = s.contact /\ LinkOf(s) \in link'
            /\ s.from = s.of[1] \/ <<s.contact, s.to>> \in met'
      BY <1>0, <1>1 DEF IInv, Signing, Shared, LinkOf
    <3> QED
      BY <1>0, <1>4, <3>1
  <2>2. \A s, r \in signature' : s.to = r.to /\ s.contact = r.contact => s = r
    BY <1>0, <1>4 DEF IInv, Signing
  <2> QED
    BY <2>1, <2>2 DEF Signing, LinkOf, Shared
<1>10. ASSUME NEW m \in link'
       PROVE  <<m.contact, m.to>> \in met' \/ \E s \in signature' : LinkOf(s) = m
  <2>1. CASE m = l /\ <<c, t>> \notin met'
    <3>1. new = {fresh} /\ LinkOf(fresh) = l
      BY <1>3, <2>1 DEF LinkOf, new
    <3> QED
      BY <1>0, <2>1, <3>1
  <2>2. CASE m # l /\ <<m.contact, m.to>> \notin met'
    <3>1. m \in link /\ ~Shared(m) /\ m \in [from : From, contact : Contact, to : To]
      BY <1>0, <1>1, <2>2 DEF Shared, IInv, TypeOK
    <3>2. PICK s \in signature : LinkOf(s) = m
      BY <3>1 DEF IInv, Pointing
    <3>3. ~(m.contact = c /\ m.to = t)
      BY <1>2, <2>2, <3>1
    <3>4. s \notin old
      BY <3>2, <3>3 DEF LinkOf
    <3> QED
      BY <1>0, <3>2, <3>4
  <2> HIDE DEF l
  <2> QED
    BY <1>5, <2>1, <2>2
<1>11. Pointing'
  BY <1>10 DEF Pointing, LinkOf, Shared
<1>12. ASSUME <<c, t>> \notin met'
       PROVE  /\ signature' = {s \in signature : ~(s.to = t /\ s.contact = c)} \cup {fresh}
              /\ sent' = {[from |-> f, contact |-> c, to |-> t, id |-> i]}
  <2>1. signature' = (signature \ old) \cup {fresh} /\ sent' = {Note(fresh)}
    BY <1>0, <1>3, <1>12
  <2>2. Note(fresh) = [from |-> f, contact |-> c, to |-> t, id |-> i]
    BY DEF Note
  <2> QED
    BY <2>1, <2>2
<1> QED
  BY <1>2, <1>6, <1>7, <1>8, <1>9, <1>11, <1>12 DEF IInv

\* Contacts are freed with the subscribers that have none left.
LEMMA LeftOwned ==
  ASSUME NEW f, subscriber' = SubscribersLeft(f), contact' \subseteq contact,
         \A k \in contact : k[1] \in subscriber
  PROVE  subscriber' \subseteq subscriber /\ \A k \in contact' : k[1] \in subscriber'
  BY DEF SubscribersLeft

\* One subscription ends.
LEMMA DeleteIInv ==
  ASSUME IInv, NEW f \in From, NEW c \in Contact, NEW t \in To, Delete(f, c, t)
  PROVE  /\ IInv'
         /\ signature' = signature \ Signed({[from |-> f, contact |-> c, to |-> t]}, signature)
<1> DEFINE k == <<f, c>>
           l == [from |-> f, contact |-> c, to |-> t]
           own == Signed({l}, signature)
           gone == own # {} /\ \A r \in signature \ own : r.to # t
<1>1. /\ l \in link /\ sent' = {} /\ open' = open /\ met' = met
      /\ followed' = (OfContact(dead, k) # {})
      /\ dead' = (dead \ {l}) \cup {m \in link' : gone /\ m.to = t}
      /\ presence' = IF gone THEN presence \ {t} ELSE presence
  BY DEF Delete
<1>2. l.contact = c /\ l.to = t
  OBVIOUS
<1>3. ASSUME NEW m \in link, m # l, gone, m.to = t
      PROVE  Shared(m)
  <2>1. CASE ~Shared(m)
    <3>1. PICK r \in signature : LinkOf(r) = m
      BY <2>1 DEF IInv, Pointing
    <3>2. r.to = m.to /\ r.contact = m.contact
      BY <3>1 DEF LinkOf
    <3>3. r \in own
      BY <1>3, <3>1, <3>2
    <3>4. r.contact = c
      BY <1>2, <3>3 DEF Signed
    <3> QED
      BY <1>1, <1>2, <1>3, <3>2, <3>4 DEF IInv, Apart
  <2> QED
    BY <2>1
<1> HIDE DEF own, l
<1>4. \E K \in SUBSET {k} :
        /\ contact' = contact \ K /\ link' = link \ {l} /\ signature' = signature \ own
        /\ \A m \in link : <<m.from, m.contact>> \in K => m \in {l}
        /\ subscriber' \subseteq subscriber /\ \A o \in contact' : o[1] \in subscriber'
  <2>1. \A o \in contact : o[1] \in subscriber
    BY DEF IInv, NothingDangles
  <2>2. CASE OfContact(link \ {l}, k) = {}
    <3>1. FreeContacts({k}, link \ {l}, signature \ own) /\ subscriber' = SubscribersLeft(f)
      BY <2>2 DEF Delete, own, l
    <3>2. {m \in link \ {l} : <<m.from, m.contact>> \in {k}} = {}
      BY <2>2 DEF OfContact
    <3>3. Signed({}, signature \ own) = {}
      BY DEF Signed
    <3>4. contact' = contact \ {k} /\ link' = link \ {l} /\ signature' = signature \ own
      BY <3>1, <3>2, <3>3 DEF FreeContacts
    <3>5. subscriber' \subseteq subscriber /\ \A o \in contact' : o[1] \in subscriber'
      <4>1. subscriber' = SubscribersLeft(f) /\ contact' \subseteq contact
        BY <3>1, <3>4
      <4> QED
        BY <4>1, <2>1, LeftOwned
    <3> QED
      BY <3>2, <3>4, <3>5
  <2>3. CASE OfContact(link \ {l}, k) # {}
    <3>1. /\ link' = link \ {l} /\ signature' = signature \ own
          /\ subscriber' = subscriber /\ contact' = contact
      BY <2>3 DEF Delete, own, l
    <3>2. contact' = contact \ {} /\ {} \in SUBSET {k}
      BY <3>1
    <3>3. \A o \in contact' : o[1] \in subscriber'
      BY <3>1, <2>1
    <3> WITNESS {} \in SUBSET {k}
    <3> QED
      BY <3>1, <3>2, <3>3
  <2> QED
    BY <2>2, <2>3
<1>5. PICK K \in SUBSET {k} :
        /\ contact' = contact \ K /\ link' = link \ {l} /\ signature' = signature \ own
        /\ \A m \in link : <<m.from, m.contact>> \in K => m \in {l}
        /\ subscriber' \subseteq subscriber /\ \A o \in contact' : o[1] \in subscriber'
  BY <1>4
<1>6. dead' \subseteq link' /\ \A m \in dead' : Shared(m)
  BY <1>1, <1>3, <1>5 DEF IInv, NothingDangles, TypeOK, Shared
<1>7. followed' \in BOOLEAN /\ (followed' => met # {})
  BY <1>1 DEF IInv, NothingDangles, OfContact
<1>8. presence' \subseteq presence /\ \A m \in link' : m.to \in presence' \/ Shared(m)
  BY <1>1, <1>3, <1>5 DEF IInv, NothingDangles, Shared
<1>9. \A s \in signature' : s.to \in presence'
  BY <1>1, <1>5 DEF IInv, NothingDangles
<1>10. open' \in BOOLEAN /\ {l} \subseteq link
  BY <1>1 DEF IInv, TypeOK
<1>11. IInv'
  BY <1>1, <1>5, <1>6, <1>7, <1>8, <1>9, <1>10, Ends DEF own
<1> QED
  BY <1>5, <1>11 DEF own, l

\* The subscriptions of the contacts K end.
LEMMA FreeIInv ==
  ASSUME IInv, NEW K, K \subseteq contact, FreeContacts(K, link, signature),
         subscriber' \subseteq subscriber, \A k \in contact' : k[1] \in subscriber',
         presence' = presence, dead' = {l \in dead : <<l.from, l.contact>> \notin K},
         followed' \in BOOLEAN, followed' => dead # {},
         sent' = {}, open' = open, met' = met
  PROVE  /\ IInv'
         /\ signature' = signature \
              Signed({l \in link : <<l.from, l.contact>> \in K}, signature)
<1> DEFINE L == {l \in link : <<l.from, l.contact>> \in K}
<1>1. /\ contact' = contact \ K /\ link' = link \ L
      /\ signature' = signature \ Signed(L, signature)
  BY DEF FreeContacts
<1>2. L \subseteq link /\ \A l \in link : <<l.from, l.contact>> \in K => l \in L
  OBVIOUS
<1>3. dead' \subseteq link' /\ \A l \in dead' : Shared(l)
  BY <1>1 DEF IInv, NothingDangles, TypeOK, Shared
<1>4. followed' => met # {}
  BY DEF IInv, NothingDangles
<1>5. /\ presence' \subseteq presence /\ \A l \in link' : l.to \in presence' \/ Shared(l)
      /\ \A s \in signature' : s.to \in presence'
  BY <1>1 DEF IInv, NothingDangles, Shared
<1>6. open' \in BOOLEAN
  BY DEF IInv, TypeOK
<1>7. IInv'
  <2> HIDE DEF L
  <2> QED
    BY <1>1, <1>2, <1>3, <1>4, <1>5, <1>6, Ends
<1> QED
  BY <1>1, <1>7

\* All subscriptions of a contact end.
LEMMA DeleteContactIInv ==
  ASSUME IInv, NEW f \in From, NEW c \in Contact, DeleteContact(f, c)
  PROVE  /\ IInv'
         /\ signature' = signature \
              Signed({l \in link : <<l.from, l.contact>> \in {<<f, c>>}}, signature)
<1>1. /\ <<f, c>> \in contact /\ FreeContacts({<<f, c>>}, link, signature)
      /\ subscriber' = SubscribersLeft(f) /\ presence' = presence /\ sent' = {}
      /\ open' = open /\ met' = met
  BY DEF DeleteContact
<1>2. /\ dead' = {l \in dead : <<l.from, l.contact>> \notin {<<f, c>>}}
      /\ followed' \in BOOLEAN /\ (followed' => dead # {})
  BY DEF DeleteContact, OfContact
<1>3. contact' \subseteq contact /\ \A k \in contact : k[1] \in subscriber
  BY <1>1 DEF FreeContacts, IInv, NothingDangles
<1>4. subscriber' \subseteq subscriber /\ \A k \in contact' : k[1] \in subscriber'
  BY <1>1, <1>3, LeftOwned
<1>5. {<<f, c>>} \subseteq contact
  BY <1>1
<1> QED
  BY <1>1, <1>2, <1>4, <1>5, FreeIInv

\* All subscriptions of a subscriber end.
LEMMA DeleteSubscriberIInv ==
  ASSUME IInv, NEW f \in From, DeleteSubscriber(f)
  PROVE  /\ IInv'
         /\ signature' = signature \
              Signed({l \in link : <<l.from, l.contact>> \in {k \in contact : k[1] = f}},
                     signature)
<1> DEFINE K == {k \in contact : k[1] = f}
<1>1. /\ subscriber' = subscriber \ {f} /\ FreeContacts(K, link, signature)
      /\ presence' = presence /\ sent' = {} /\ open' = open /\ met' = met
  BY DEF DeleteSubscriber
<1>2. /\ dead' = {l \in dead : <<l.from, l.contact>> \notin K}
      /\ followed' \in BOOLEAN /\ (followed' => dead # {})
  <2>1. \A l \in dead : <<l.from, l.contact>> \in K <=> l.from = f
    BY DEF IInv, NothingDangles, TypeOK
  <2> HIDE DEF K
  <2> QED
    BY <2>1 DEF DeleteSubscriber
<1>3. subscriber' \subseteq subscriber /\ \A k \in contact' : k[1] \in subscriber'
  BY <1>1 DEF FreeContacts, IInv, NothingDangles
<1>4. K \subseteq contact
  OBVIOUS
<1>5. IInv' /\ signature' = signature \
                 Signed({l \in link : <<l.from, l.contact>> \in K}, signature)
  <2> HIDE DEF K
  <2> QED
    BY <1>1, <1>2, <1>3, <1>4, FreeIInv
<1> QED
  BY <1>5

\* Telling changes nothing, and follows pointers to contacts there are.
LEMMA ChangeIInv ==
  ASSUME IInv, NEW t \in To, Change(t)
  PROVE  IInv' /\ signature' = signature
<1>1. /\ subscriber' = subscriber /\ contact' = contact /\ presence' = presence
      /\ link' = link /\ signature' = signature /\ dead' = dead /\ open' = open /\ met' = met
      /\ sent' = {Note(s) : s \in {r \in signature : r.to = t}}
  BY DEF Change
<1>2. followed' = FALSE
  BY DEF Change, IInv, NothingDangles
<1>3. sent' \subseteq [from : From, contact : Contact, to : To, id : CallId]
  <2>1. ASSUME NEW s \in signature
        PROVE  Note(s) \in [from : From, contact : Contact, to : To, id : CallId]
    BY DEF Note, IInv, TypeOK
  <2> QED
    BY <1>1, <2>1
<1>4. TypeOK'
  BY <1>1, <1>2, <1>3 DEF IInv, TypeOK
<1> QED
  BY <1>1, <1>2, <1>4
  DEF IInv, NothingDangles, Apart, Signing, Pointing, LinkOf, Shared

\* After notify_free there is nothing, and no signature outlived its contact.
LEMMA CloseIInv ==
  ASSUME IInv, Free
  PROVE  IInv' /\ signature' = {}
<1>1. /\ subscriber' = {} /\ contact' = {} /\ presence' = {} /\ link' = {}
      /\ signature' = {} /\ dead' = {} /\ sent' = {} /\ open' = FALSE /\ met' = met
  BY DEF Free
<1>2. Signed(link, signature) = signature
  <2>1. link \subseteq link
    OBVIOUS
  <2>2. \A s \in signature : s \in Signed(link, signature)
    BY <2>1, Pairs DEF IInv, Signing
  <2> QED
    BY <2>2 DEF Signed
<1>3. followed' \in BOOLEAN /\ (followed' => met' # {})
  BY <1>1, <1>2 DEF Free, IInv, NothingDangles
<1> QED
  BY <1>1, <1>3 DEF IInv, TypeOK, NothingDangles, Apart, Signing, Pointing

\* No call breaks the invariant.
LEMMA NextIInv == IInv /\ [Next]_vars => IInv'
<1> SUFFICES ASSUME IInv, [Next]_vars PROVE IInv'
  OBVIOUS
<1>1. CASE \E f \in From, c \in Contact, t \in To, i \in CallId : Update(f, c, t, i)
  BY <1>1, UpdateIInv
<1>2. CASE \E f \in From, c \in Contact, t \in To : Delete(f, c, t)
  BY <1>2, DeleteIInv
<1>3. CASE \E f \in From, c \in Contact : DeleteContact(f, c)
  BY <1>3, DeleteContactIInv
<1>4. CASE \E f \in From : DeleteSubscriber(f)
  BY <1>4, DeleteSubscriberIInv
<1>5. CASE \E t \in To : Change(t)
  BY <1>5, ChangeIInv
<1>6. CASE Free
  BY <1>6, CloseIInv
<1>7. CASE UNCHANGED vars
  BY <1>7 DEF vars, IInv, TypeOK, NothingDangles, Apart, Signing, Pointing, LinkOf, Shared
<1> QED
  BY <1>1, <1>2, <1>3, <1>4, <1>5, <1>6, <1>7 DEF Next

\* The maps of notify.c and the pointers between them stay paired, except where
\* two subscribers share a signature.
THEOREM Paired == Spec => []IInv
<1>1. IInv /\ [Next]_vars => IInv'
  BY NextIInv
<1> QED
  BY InitIInv, <1>1, PTL DEF Spec

\* Neither side of src/src/notify.c keeps a pointer to what the other freed, but
\* for the contacts of subscribers who share a signature.
THEOREM PointersLive == Spec => []NothingDangles
<1>1. IInv => NothingDangles
  BY DEF IInv
<1> QED
  BY Paired, <1>1, PTL

-----------------------------------------------------------------------------
(* The signatures are the subscriptions *)

Subs == {Note(s) : s \in signature}

\* The subscription of a signature is that of its contact's subscriber.
LEMMA Noted ==
  ASSUME IInv
  PROVE  \A s \in signature :
           Note(s) = [from |-> s.from, contact |-> s.contact, to |-> s.to, id |-> s.id]
<1>1. ASSUME NEW s \in signature
      PROVE  s.of[2] = s.contact
  BY DEF IInv, Signing
<1> QED
  BY <1>1 DEF Note

\* As long as nobody shares a signature, those that go with pointers are those
\* of their subscribers.
LEMMA OwnGone ==
  ASSUME IInv, met = {}, NEW L, L \subseteq link
  PROVE  Signed(L, signature) =
           {s \in signature : [from |-> s.from, contact |-> s.contact, to |-> s.to] \in L}
<1>1. \A s \in signature : LinkOf(s) = [from |-> s.from, contact |-> s.contact, to |-> s.to]
  BY Owned DEF LinkOf
<1>2. \A s \in signature : s \in Signed(L, signature) <=> LinkOf(s) \in L
  BY Pairs DEF Shared
<1>3. Signed(L, signature) \subseteq signature
  BY DEF Signed
<1> QED
  BY <1>1, <1>2, <1>3

\* The signatures that go with the contacts K.
GoneWith(K) == Signed({l \in link : <<l.from, l.contact>> \in K}, signature)

\* They are those of the contacts' subscribers.
LEMMA GoneOwned ==
  ASSUME IInv, met = {}, NEW K
  PROVE  GoneWith(K) = {s \in signature : <<s.from, s.contact>> \in K}
<1> DEFINE L == {l \in link : <<l.from, l.contact>> \in K}
           M(s) == [from |-> s.from, contact |-> s.contact, to |-> s.to]
<1>1. GoneWith(K) = {s \in signature : M(s) \in L}
  <2>1. L \subseteq link
    OBVIOUS
  <2> HIDE DEF L
  <2> QED
    BY <2>1, OwnGone DEF GoneWith, L
<1>2. \A s \in signature : M(s) \in link
  BY Owned DEF LinkOf, IInv, Signing
<1>3. \A s \in signature : M(s) \in L <=> <<s.from, s.contact>> \in K
  BY <1>2
<1> HIDE DEF L, M
<1> QED
  BY <1>1, <1>3

\* Each call is the one of Subscriptions it is named for.
LEMMA UpdateSubscribes ==
  ASSUME IInv, NEW f \in From, NEW c \in Contact, NEW t \in To, NEW i \in CallId,
         Update(f, c, t, i), met' = {}
  PROVE  Watching!Subscribe(f, c, t, i)
<1> DEFINE fresh == [to |-> t, contact |-> c, from |-> f, id |-> i, of |-> <<f, c>>]
           note == [from |-> f, contact |-> c, to |-> t, id |-> i]
           kept == {s \in signature : ~(s.to = t /\ s.contact = c)}
<1>1. /\ signature' = kept \cup {fresh} /\ sent' = {note} /\ open' = open /\ met = {}
      /\ \A m \in link : m.contact = c /\ m.to = t => m.from = f
  <2>1. met = {} /\ open' = open
    BY DEF Update
  <2> QED
    BY <2>1, UpdateIInv
<1>2. Note(fresh) = note
  BY DEF Note
<1>3. \A s \in signature : s.contact = c /\ s.to = t => s.from = f
  <2>1. \A s \in signature : s.of = <<s.from, s.contact>> /\ LinkOf(s) \in link
    BY <1>1, Owned DEF IInv, Signing
  <2>2. \A s : LinkOf(s).from = s.of[1] /\ LinkOf(s).contact = s.contact /\ LinkOf(s).to = s.to
    BY DEF LinkOf
  <2>3. \A s \in signature : s.of[1] = s.from
    BY <2>1
  <2> QED
    BY <1>1, <2>1, <2>2, <2>3
<1>4. \A s \in signature : s \in kept <=>
        ~(Note(s).from = f /\ Note(s).contact = c /\ Note(s).to = t)
  BY <1>3, Noted
<1>5. {Note(s) : s \in kept} =
        {n \in {Note(s) : s \in signature} : ~(n.from = f /\ n.contact = c /\ n.to = t)}
  <2> HIDE DEF kept
  <2>1. kept \subseteq signature
    BY DEF kept
  <2> QED
    BY <1>4, <2>1
<1>6. {Note(s) : s \in signature'} = {Note(s) : s \in kept} \cup {note}
  <2> HIDE DEF kept, fresh, note
  <2> QED
    BY <1>1, <1>2
<1> QED
  BY <1>1, <1>5, <1>6 DEF Watching!Subscribe, Note

\* Signatures that go are subscriptions that end, and no others.
LEMMA GoneEnd ==
  ASSUME IInv, NEW E, E \subseteq signature, signature' = signature \ E,
         sent' = {}, open' = open
  PROVE  Watching!Unsubscribe({Note(s) : s \in E})
<1>1. \A s, r \in signature : Note(s) = Note(r) => s = r
  <2>1. ASSUME NEW s \in signature, NEW r \in signature, Note(s) = Note(r)
        PROVE  s.to = r.to /\ s.contact = r.contact
    <3>1. /\ Note(s).to = s.to /\ Note(s).contact = s.contact
          /\ Note(r).to = r.to /\ Note(r).contact = r.contact
      BY Noted
    <3> QED
      BY <2>1, <3>1
  <2> QED
    BY <2>1 DEF IInv, Signing
<1>2. {Note(s) : s \in signature'} = {Note(s) : s \in signature} \ {Note(s) : s \in E}
  BY <1>1
<1>3. {Note(s) : s \in E} \subseteq {Note(s) : s \in signature}
  OBVIOUS
<1> QED
  BY <1>2, <1>3 DEF Watching!Unsubscribe, Note

\* What ends is what was asked for.
LEMMA DeleteUnsubscribes ==
  ASSUME IInv, met = {}, NEW f \in From, NEW c \in Contact, NEW t \in To, Delete(f, c, t)
  PROVE  Watching!Unsubscribe({n \in Watching!OfContact(f, c) : n.to = t})
<1> DEFINE E == {s \in signature : s.from = f /\ s.contact = c /\ s.to = t}
<1>1. {n \in Watching!OfContact(f, c) : n.to = t}
        = {n \in Subs : n.from = f /\ n.contact = c /\ n.to = t}
  BY DEF Watching!OfContact, Subs, Note
<1>2. {n \in Subs : n.from = f /\ n.contact = c /\ n.to = t} = {Note(s) : s \in E}
  <2>1. \A s \in signature :
          s \in E <=> Note(s).from = f /\ Note(s).contact = c /\ Note(s).to = t
    BY Noted
  <2>2. E \subseteq signature
    OBVIOUS
  <2> HIDE DEF E
  <2> QED
    BY <2>1, <2>2 DEF Subs
<1>3. signature' = signature \ E /\ E \subseteq signature /\ sent' = {} /\ open' = open
  <2> DEFINE l == [from |-> f, contact |-> c, to |-> t]
  <2>1. signature' = signature \ Signed({l}, signature)
    BY DeleteIInv
  <2>2. sent' = {} /\ open' = open /\ {l} \subseteq link
    BY DEF Delete
  <2>3. Signed({l}, signature) =
          {s \in signature : [from |-> s.from, contact |-> s.contact, to |-> s.to] \in {l}}
    <3> HIDE DEF l
    <3> QED
      BY <2>2, OwnGone
  <2>4. Signed({l}, signature) = E
    BY <2>3
  <2> HIDE DEF l, E
  <2> QED
    BY <2>1, <2>2, <2>4 DEF Signed
<1>4. Watching!Unsubscribe({Note(s) : s \in E})
  <2> HIDE DEF E
  <2> QED
    BY <1>3, GoneEnd
<1> QED
  BY <1>1, <1>2, <1>4

LEMMA DeleteContactUnsubscribes ==
  ASSUME IInv, met = {}, NEW f \in From, NEW c \in Contact, DeleteContact(f, c)
  PROVE  Watching!Unsubscribe(Watching!OfContact(f, c))
<1> DEFINE E == {s \in signature : s.from = f /\ s.contact = c}
<1>1. Watching!OfContact(f, c) = {n \in Subs : n.from = f /\ n.contact = c}
  BY DEF Watching!OfContact, Subs, Note
<1>2. {n \in Subs : n.from = f /\ n.contact = c} = {Note(s) : s \in E}
  <2>1. \A s \in signature : s \in E <=> Note(s).from = f /\ Note(s).contact = c
    BY Noted
  <2>2. E \subseteq signature
    OBVIOUS
  <2> HIDE DEF E
  <2> QED
    BY <2>1, <2>2 DEF Subs
<1>3. signature' = signature \ E /\ E \subseteq signature /\ sent' = {} /\ open' = open
  <2>1. sent' = {} /\ open' = open
    BY DEF DeleteContact
  <2>2. signature' = signature \ GoneWith({<<f, c>>})
    BY DeleteContactIInv DEF GoneWith
  <2>3. GoneWith({<<f, c>>}) = {s \in signature : <<s.from, s.contact>> \in {<<f, c>>}}
    BY GoneOwned
  <2>4. {s \in signature : <<s.from, s.contact>> \in {<<f, c>>}} = E
    OBVIOUS
  <2> QED
    BY <2>1, <2>2, <2>3, <2>4
<1>4. Watching!Unsubscribe({Note(s) : s \in E})
  <2> HIDE DEF E
  <2> QED
    BY <1>3, GoneEnd
<1> QED
  BY <1>1, <1>2, <1>4

LEMMA DeleteSubscriberUnsubscribes ==
  ASSUME IInv, met = {}, NEW f \in From, DeleteSubscriber(f)
  PROVE  Watching!Unsubscribe({n \in Subs : n.from = f})
<1> DEFINE E == {s \in signature : s.from = f}
<1>1. {n \in Subs : n.from = f} = {Note(s) : s \in E}
  <2>1. \A s \in signature : s \in E <=> Note(s).from = f
    BY Noted
  <2>2. E \subseteq signature
    OBVIOUS
  <2> HIDE DEF E
  <2> QED
    BY <2>1, <2>2 DEF Subs
<1>2. signature' = signature \ E /\ E \subseteq signature /\ sent' = {} /\ open' = open
  <2> DEFINE K == {k \in contact : k[1] = f}
  <2>1. sent' = {} /\ open' = open
    BY DEF DeleteSubscriber
  <2>2. signature' = signature \ GoneWith(K)
    BY DeleteSubscriberIInv DEF GoneWith
  <2>3. GoneWith(K) = {s \in signature : <<s.from, s.contact>> \in K}
    BY GoneOwned
  <2>4. \A s \in signature : <<s.from, s.contact>> \in contact
    BY Owned DEF IInv, NothingDangles
  <2>5. {s \in signature : <<s.from, s.contact>> \in K} = E
    BY <2>4
  <2> QED
    BY <2>1, <2>2, <2>3, <2>5
<1>3. Watching!Unsubscribe({Note(s) : s \in E})
  <2> HIDE DEF E
  <2> QED
    BY <1>2, GoneEnd
<1> QED
  BY <1>1, <1>3

\* Everyone who subscribed to the presence is told, and nobody else.
LEMMA ChangeTells ==
  ASSUME IInv, NEW t \in To, Change(t)
  PROVE  Watching!Change(t)
<1>1. \A s \in signature : Note(s).to = s.to
  BY DEF Note
<1>2. {Note(s) : s \in {r \in signature : r.to = t}} = {n \in Subs : n.to = t}
  BY <1>1 DEF Subs
<1> QED
  BY <1>2 DEF Change, Watching!Change, Subs, Note

\* What two subscribers have shared is remembered.
LEMMA MetKept == [Next]_vars => met \subseteq met'
<1> SUFFICES ASSUME [Next]_vars PROVE met \subseteq met'
  OBVIOUS
<1>1. CASE \E f \in From, c \in Contact, t \in To, i \in CallId : Update(f, c, t, i)
  <2>1. PICK f \in From, c \in Contact, t \in To, i \in CallId : Update(f, c, t, i)
    BY <1>1
  <2>2. \E more : met' = met \cup more
    BY <2>1 DEF Update
  <2> QED
    BY <2>2
<1>2. CASE \E f \in From, c \in Contact, t \in To : Delete(f, c, t)
  BY <1>2 DEF Delete
<1>3. CASE \E f \in From, c \in Contact : DeleteContact(f, c)
  BY <1>3 DEF DeleteContact
<1>4. CASE \E f \in From : DeleteSubscriber(f)
  BY <1>4 DEF DeleteSubscriber
<1>5. CASE \E t \in To : Change(t)
  BY <1>5 DEF Change
<1>6. CASE Free
  BY <1>6 DEF Free
<1>7. CASE UNCHANGED vars
  BY <1>7 DEF vars
<1> QED
  BY <1>1, <1>2, <1>3, <1>4, <1>5, <1>6, <1>7 DEF Next

\* Every call is a step of Subscriptions, which a closed notify takes no more.
LEMMA NextSteps == IInv /\ [Next]_vars => [Watching!Next \/ met' # {}]_(Watching!vars)
<1> SUFFICES ASSUME IInv, [Next]_vars, met' = {}
             PROVE  [Watching!Next]_(Watching!vars)
  OBVIOUS
<1>0. met = {}
  BY MetKept
<1>1. CASE \E f \in From, c \in Contact, t \in To, i \in CallId : Update(f, c, t, i)
  <2>1. PICK f \in From, c \in Contact, t \in To, i \in CallId : Update(f, c, t, i)
    BY <1>1
  <2>2. open /\ Watching!Subscribe(f, c, t, i)
    BY <2>1, UpdateSubscribes DEF Update
  <2> QED
    BY <2>2 DEF Watching!Next
<1>2. CASE \E f \in From, c \in Contact, t \in To : Delete(f, c, t)
  <2>1. PICK f \in From, c \in Contact, t \in To : Delete(f, c, t)
    BY <1>2
  <2>2. open
    BY <2>1 DEF Delete
  <2>3. Watching!Unsubscribe({n \in Watching!OfContact(f, c) : n.to = t})
    BY <1>0, <2>1, DeleteUnsubscribes
  <2> QED
    BY <2>2, <2>3 DEF Watching!Next
<1>3. CASE \E f \in From, c \in Contact : DeleteContact(f, c)
  <2>1. PICK f \in From, c \in Contact : DeleteContact(f, c)
    BY <1>3
  <2>2. open /\ Watching!Unsubscribe(Watching!OfContact(f, c))
    BY <1>0, <2>1, DeleteContactUnsubscribes DEF DeleteContact
  <2> QED
    BY <2>2 DEF Watching!Next
<1>4. CASE \E f \in From : DeleteSubscriber(f)
  <2>1. PICK f \in From : DeleteSubscriber(f)
    BY <1>4
  <2>2. open /\ Watching!Unsubscribe({n \in Subs : n.from = f})
    BY <1>0, <2>1, DeleteSubscriberUnsubscribes DEF DeleteSubscriber
  <2>3. Watching!Unsubscribe({n \in {Note(s) : s \in signature} : n.from = f})
    BY <2>2 DEF Subs
  <2> QED
    BY <2>2, <2>3 DEF Watching!Next
<1>5. CASE \E t \in To : Change(t)
  <2>1. PICK t \in To : Change(t)
    BY <1>5
  <2>2. open /\ Watching!Change(t)
    BY <2>1, ChangeTells DEF Change
  <2> QED
    BY <2>2 DEF Watching!Next
<1>6. CASE Free
  <2>1. open /\ Watching!Close
    BY <1>6, CloseIInv DEF Free, Watching!Close, Note
  <2> QED
    BY <2>1 DEF Watching!Next
<1>7. CASE UNCHANGED vars
  BY <1>7 DEF vars, Watching!vars, Note
<1> QED
  BY <1>1, <1>2, <1>3, <1>4, <1>5, <1>6, <1>7 DEF Next

\* Who is told is who subscribed: src/src/notify.c implements Subscriptions,
\* whatever it frees in which order, until two subscribers watch one presence
\* from one address.
THEOREM Refines == Spec => ImplementsSubscriptions
<1>1. Init => Watching!Init
  BY DEF Init, Watching!Init, Note
<1>2. IInv /\ [Next]_vars => [Watching!Next \/ met' # {}]_(Watching!vars)
  BY NextSteps
<1> QED
  BY Paired, <1>1, <1>2, PTL DEF Spec, ImplementsSubscriptions
=============================================================================
