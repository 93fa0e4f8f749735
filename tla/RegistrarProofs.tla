-------------------------- MODULE RegistrarProofs --------------------------
(***************************************************************************)
(* Proofs about the registry: who a request for a name is relayed to, and  *)
(* that every contact without a route waits for a query that is answered   *)
(* at most once.  A request enters its contacts one after another          *)
(* (aor_update), so what one contact leaves true is carried along the      *)
(* whole list by induction on how many were entered.                       *)
(***************************************************************************)
EXTENDS Registrar, WellFoundedInduction, FiniteSetTheorems, SequenceTheorems, TLAPS

Hosts == {Host[c] : c \in Contact}

Peer == Contact \cup {Everyone, None}

Record == [contact : Contact, left : Int, over : Nat, by : Peer,
           route : {None} \cup Hosts, asked : Int]

Key == [id : Nat, name : Name, contact : Contact, lent : BOOLEAN]

Reply == [id : Nat, host : Hosts]

(* What holds of a record r of name n when the queries q wait and i was the
   last id. *)

\* It has no route to anybody else.
Routed(r, i) == r.route # None /\ i < Ids => r.route = Host[r.contact]

\* The query with the id it asked is its own.
AsksForItself(n, r, q, i) ==
  /\ r.asked <= i
  /\ \A k \in q : k.id = r.asked => k.name = n /\ k.contact = r.contact

\* It has a route, or waits for one, or gets none.
Awaits(r, q) ==
  r.route = None => \/ r.asked = Unsent \/ r.asked \in unknown
                    \/ \E k \in q : k.id = r.asked /\ k.lent

\* The socket it registered over, if that is still there, leads to the same.
OverItsOwn(r) ==
  /\ r.over <= last
  /\ r.over \in DOMAIN event => event[r.over] = r.by

RecordOk(n, r, q, i) ==
  /\ r \in Record
  /\ Routed(r, i) /\ AsksForItself(n, r, q, i) /\ Awaits(r, q) /\ OverItsOwn(r)

\* The records of a name are those of different contacts.
Distinct(R) == \A x, y \in DOMAIN R : R[x].contact = R[y].contact => x = y

RecordsOk(n, R, q, i) ==
  /\ R \in Seq(Record) /\ Distinct(R)
  /\ \A x \in DOMAIN R : RecordOk(n, R[x], q, i)

\* No two queries have the same id, and none was called back yet.
QueriesOk(q, i) ==
  /\ q \subseteq Key /\ i \in Nat
  /\ \A k \in q : k.id >= 1 /\ k.id <= i
  /\ \A k, j \in q : k.id = j.id => k = j
  /\ \A c \in 1..MaxQuery : called[c] # 0 => c <= i /\ \A k \in q : k.id # c

\* As long as the ids fit, an answer to a query is the address it asked for.
AnswersOk(q, w, i) ==
  /\ w \subseteq Reply
  /\ i < Ids => \A m \in w : m.id <= i /\ \A k \in q : k.id = m.id => m.host = Host[k.contact]

Sockets ==
  /\ last \in Nat /\ DOMAIN event \subseteq 1..last
  /\ \A e \in DOMAIN event : event[e] \in Peer

(* The invariant *)
IInv ==
  /\ DOMAIN aor \subseteq Name /\ id <= MaxQuery
  /\ \A n \in DOMAIN aor : RecordsOk(n, aor[n], query, id)
  /\ QueriesOk(query, id) /\ AnswersOk(query, answer, id)
  /\ called \in [1..MaxQuery -> {0, 1}] /\ Sockets

-----------------------------------------------------------------------------
(* Induction, and the operators on records *)

\* What holds of 0 and is passed on from i to i + 1 holds of every i.
LEMMA SetInduction ==
    ASSUME NEW S, 0 \in S, \A i \in Nat : i \in S => i + 1 \in S
    PROVE  Nat \subseteq S
<1> SUFFICES ASSUME ~(Nat \subseteq S) PROVE FALSE
  OBVIOUS
<1> DEFINE T == {1..x : x \in Nat \ S}
<1>1. T \subseteq FiniteSubsetsOf(Nat) /\ T # {}
  <2>1. \A x \in Nat \ S : IsFiniteSet(1..x) /\ 1..x \subseteq Nat
    BY FS_Interval
  <2> QED BY <2>1 DEF FiniteSubsetsOf
<1>2. PICK m \in T : \A t \in T : <<t, m>> \notin StrictSubsetOrdering(Nat)
  <2> HIDE DEF T
  <2> QED BY <1>1, WFMin, FS_StrictSubsetOrderingWellFounded
<1>3. PICK x \in Nat \ S : m = 1..x
  OBVIOUS
<1>4. x - 1 \in Nat \ S
  OBVIOUS
<1>5. /\ 1..(x - 1) \in SUBSET Nat /\ m \in SUBSET Nat
      /\ 1..(x - 1) \subseteq m /\ 1..(x - 1) # m
  BY <1>3, <1>4
<1>6. <<1..(x - 1), m>> \in StrictSubsetOrdering(Nat)
  BY <1>5 DEF StrictSubsetOrdering
<1> QED BY <1>2, <1>4, <1>6

\* Every set of numbers has a least one.
LEMMA LeastIsThere ==
    ASSUME NEW E, E \subseteq Nat, E # {}
    PROVE  Min(E) \in E
<1> SUFFICES ASSUME \A y \in E : ~\A z \in E : y <= z PROVE FALSE
  BY DEF Min
<1> DEFINE S == {i \in Nat : \A z \in E : z > i}
<1>1. 0 \in S
  OBVIOUS
<1>2. ASSUME NEW i \in Nat, i \in S PROVE i + 1 \in S
  <2>1. \A z \in E : i + 1 <= z
    BY <1>2
  <2>2. i + 1 \notin E
    BY <2>1
  <2> QED BY <1>2, <2>1, <2>2
<1>3. Nat \subseteq S
  <2> HIDE DEF S
  <2> QED BY <1>1, <1>2, SetInduction
<1>4. PICK y \in E : y \in Nat
  OBVIOUS
<1>5. y > y
  BY <1>3, <1>4
<1> QED BY <1>4, <1>5

\* One record less leaves the others, in their order.
LEMMA RemoveOne ==
    ASSUME NEW R \in Seq(Record), NEW x \in DOMAIN R
    PROVE  /\ RemoveAt(R, x) \in Seq(Record)
           /\ DOMAIN RemoveAt(R, x) = 1..(Len(R) - 1)
           /\ \A y \in 1..(Len(R) - 1) :
                RemoveAt(R, x)[y] = R[IF y < x THEN y ELSE y + 1]
<1> DEFINE u == SubSeq(R, 1, x - 1)
           v == SubSeq(R, x + 1, Len(R))
<1>1. x \in 1..Len(R) /\ Len(R) \in Nat
  OBVIOUS
<1>2. /\ u \in Seq(Record) /\ Len(u) = x - 1
      /\ \A y \in 1..(x - 1) : u[y] = R[y]
  BY <1>1
<1>3. /\ v \in Seq(Record) /\ Len(v) = Len(R) - x
      /\ \A y \in 1..(Len(R) - x) : v[y] = R[x + y]
  BY <1>1
<1>4. RemoveAt(R, x) = u \o v
  BY DEF RemoveAt
<1> HIDE DEF u, v
<1>5. /\ u \o v \in Seq(Record) /\ Len(u \o v) = Len(R) - 1
      /\ \A y \in 1..(Len(R) - 1) :
           (u \o v)[y] = IF y < x THEN u[y] ELSE v[y - (x - 1)]
  <2>1. /\ u \o v \in Seq(Record) /\ Len(u \o v) = Len(u) + Len(v)
        /\ \A y \in 1..(Len(u) + Len(v)) :
             (u \o v)[y] = IF y <= Len(u) THEN u[y] ELSE v[y - Len(u)]
    BY <1>2, <1>3, ConcatProperties
  <2>2. Len(u) + Len(v) = Len(R) - 1 /\ \A y \in Nat : y <= Len(u) <=> y < x
    BY <1>1, <1>2, <1>3
  <2> QED BY <2>1, <2>2, <1>2
<1>6. ASSUME NEW y \in 1..(Len(R) - 1), ~(y < x)
      PROVE  v[y - (x - 1)] = R[y + 1]
  <2>1. y - (x - 1) \in 1..(Len(R) - x) /\ x + (y - (x - 1)) = y + 1
    BY <1>1, <1>6
  <2> QED BY <2>1, <1>3
<1> QED BY <1>1, <1>2, <1>4, <1>5, <1>6

\* map_pure: the records of the others are left, and none of the contact.
LEMMA DropEffect ==
    ASSUME NEW R \in Seq(Record), Distinct(R), NEW c
    PROVE  /\ Drop(R, c) \in Seq(Record) /\ Distinct(Drop(R, c))
           /\ \A x \in DOMAIN Drop(R, c) :
                \E y \in DOMAIN R : Drop(R, c)[x] = R[y] /\ R[y].contact # c
<1>1. CASE ~Has(R, c)
  <2>1. \A y \in DOMAIN R : R[y].contact # c
    BY <1>1 DEF Has, IndexOf
  <2> QED BY <1>1, <2>1 DEF Drop
<1>2. CASE Has(R, c)
  <2>1. PICK x \in IndexOf(R, c) : Drop(R, c) = RemoveAt(R, x)
    BY <1>2 DEF Drop, Has
  <2>2. x \in DOMAIN R /\ R[x].contact = c /\ x \in 1..Len(R)
    BY <2>1 DEF IndexOf
  <2> DEFINE D == RemoveAt(R, x)
             at(y) == IF y < x THEN y ELSE y + 1
  <2>3. /\ D \in Seq(Record) /\ DOMAIN D = 1..(Len(R) - 1)
        /\ \A y \in 1..(Len(R) - 1) : D[y] = R[at(y)]
    BY <2>2, RemoveOne
  <2> HIDE DEF D
  <2>4. \A y \in 1..(Len(R) - 1) : at(y) \in DOMAIN R /\ at(y) # x
    BY <2>2
  <2>5. \A y, z \in 1..(Len(R) - 1) : at(y) = at(z) => y = z
    BY <2>2
  <2> HIDE DEF at
  <2>6. Distinct(D)
    BY <2>3, <2>4, <2>5 DEF Distinct
  <2>7. \A y \in DOMAIN D : \E z \in DOMAIN R : D[y] = R[z] /\ R[z].contact # c
    BY <2>2, <2>3, <2>4 DEF Distinct
  <2> QED BY <2>1, <2>3, <2>6, <2>7 DEF D
<1> QED BY <1>1, <1>2

\* map_push puts a record in front of the others.
LEMMA InFront ==
    ASSUME NEW R \in Seq(Record), NEW r \in Record
    PROVE  /\ <<r>> \o R \in Seq(Record) /\ DOMAIN (<<r>> \o R) = 1..(Len(R) + 1)
           /\ (<<r>> \o R)[1] = r
           /\ \A x \in 2..(Len(R) + 1) : x - 1 \in DOMAIN R /\ (<<r>> \o R)[x] = R[x - 1]
           /\ \A e \in Record : [<<r>> \o R EXCEPT ![1] = e] = <<e>> \o R
<1>1. <<r>> \in Seq(Record) /\ Len(<<r>>) = 1
  OBVIOUS
<1>2. /\ <<r>> \o R \in Seq(Record) /\ Len(<<r>> \o R) = Len(R) + 1
      /\ \A x \in 1..(Len(R) + 1) : (<<r>> \o R)[x] = IF x = 1 THEN r ELSE R[x - 1]
  BY <1>1
<1>3. ASSUME NEW e \in Record
      PROVE  [<<r>> \o R EXCEPT ![1] = e] = <<e>> \o R
  <2>1. /\ <<e>> \o R \in Seq(Record) /\ Len(<<e>> \o R) = Len(R) + 1
        /\ \A x \in 1..(Len(R) + 1) : (<<e>> \o R)[x] = IF x = 1 THEN e ELSE R[x - 1]
    OBVIOUS
  <2> DEFINE s == <<r>> \o R
             t == <<e>> \o R
  <2>2. /\ s \in Seq(Record) /\ t \in Seq(Record) /\ Len(s) = Len(t)
        /\ \A x \in 1..Len(s) : x # 1 => s[x] = t[x]
        /\ t[1] = e
    BY <1>2, <2>1
  <2> HIDE DEF s, t
  <2>3. [s EXCEPT ![1] = e] = t
    <3>1. [s EXCEPT ![1] = e] \in Seq(Record) /\ Len([s EXCEPT ![1] = e]) = Len(s)
      BY <2>2, <1>2, ExceptSeq DEF s
    <3>2. \A x \in 1..Len(s) : [s EXCEPT ![1] = e][x] = t[x]
      BY <2>2
    <3> QED BY <3>1, <3>2, <2>2, SeqEqual
  <2> QED BY <2>3 DEF s, t
<1> DEFINE s == <<r>> \o R
<1>4. /\ s \in Seq(Record) /\ Len(s) = Len(R) + 1
      /\ \A x \in 1..(Len(R) + 1) : s[x] = IF x = 1 THEN r ELSE R[x - 1]
  BY <1>2
<1> HIDE DEF s
<1>5. DOMAIN s = 1..(Len(R) + 1) /\ DOMAIN R = 1..Len(R) /\ Len(R) \in Nat
  BY <1>4
<1>6. /\ s \in Seq(Record) /\ DOMAIN s = 1..(Len(R) + 1) /\ s[1] = r
      /\ \A x \in 2..(Len(R) + 1) : x - 1 \in DOMAIN R /\ s[x] = R[x - 1]
  BY <1>4, <1>5
<1> QED BY <1>3, <1>6 DEF s

-----------------------------------------------------------------------------
(* What the other records and queries keep *)

\* Keys of a record that is gone lend nothing any more: another record, whose
\* own query is not among them, still waits for it.
LEMMA FewerLent ==
    ASSUME NEW m, NEW r, NEW q, NEW p, NEW i, RecordOk(m, r, q, i),
           \A k \in p : \E j \in q : k.id = j.id /\ k.name = j.name /\ k.contact = j.contact,
           \A k \in q : k.name = m /\ k.contact = r.contact => k \in p
    PROVE  RecordOk(m, r, p, i)
<1>1. AsksForItself(m, r, p, i)
  BY DEF RecordOk, AsksForItself
<1>2. Awaits(r, p)
  BY DEF RecordOk, AsksForItself, Awaits
<1> QED BY <1>1, <1>2 DEF RecordOk

\* The queries that are left are as good as all were.
LEMMA FewerLentQueries ==
    ASSUME NEW q, NEW p, NEW w, NEW i, QueriesOk(q, i), AnswersOk(q, w, i), p \subseteq Key,
           \A k \in p : \E j \in q : k.id = j.id /\ k.name = j.name /\ k.contact = j.contact,
           \A k, j \in p : k.id = j.id => k = j
    PROVE  QueriesOk(p, i) /\ AnswersOk(p, w, i)
<1>1. QueriesOk(p, i)
  BY DEF QueriesOk
<1>2. AnswersOk(p, w, i)
  BY DEF AnswersOk
<1> QED BY <1>1, <1>2

\* A key that lends nothing any more is the key it was otherwise.
Ends(k) == [k EXCEPT !.lent = FALSE]

LEMMA EndsEffect ==
    ASSUME NEW k \in Key
    PROVE  /\ Ends(k) \in Key /\ Ends(k).id = k.id
           /\ Ends(k).name = k.name /\ Ends(k).contact = k.contact
  BY DEF Key, Ends

\* Some keys of a set end.
EndSome(q, T) == {IF k \in T THEN Ends(k) ELSE k : k \in q}

LEMMA EndSomeEffect ==
    ASSUME NEW q, NEW w, NEW i, QueriesOk(q, i), AnswersOk(q, w, i), NEW T
    PROVE  /\ QueriesOk(EndSome(q, T), i) /\ AnswersOk(EndSome(q, T), w, i)
           /\ EndSome(q, T) \subseteq Key
           /\ \A m, r :
                RecordOk(m, r, q, i) /\ (\A k \in q \cap T : k.name = m => k.contact # r.contact)
                  => RecordOk(m, r, EndSome(q, T), i)
<1> DEFINE e(k) == IF k \in T THEN Ends(k) ELSE k
           p == EndSome(q, T)
<1>1. q \subseteq Key /\ \A k, j \in q : k.id = j.id => k = j
  BY DEF QueriesOk
<1>2. \A k \in q : e(k) \in Key /\ e(k).id = k.id /\ e(k).name = k.name /\ e(k).contact = k.contact
  BY <1>1, EndsEffect
<1>3. \A k \in q : k \notin T => e(k) = k
  OBVIOUS
<1>7. p = {e(k) : k \in q}
  BY DEF EndSome
<1> HIDE DEF e, p
<1>4. /\ p \subseteq Key
      /\ \A k \in p : \E j \in q : k.id = j.id /\ k.name = j.name /\ k.contact = j.contact
      /\ \A k, j \in p : k.id = j.id => k = j
  BY <1>1, <1>2, <1>7
<1>5. ASSUME NEW m, NEW r, RecordOk(m, r, q, i),
             \A k \in q \cap T : k.name = m => k.contact # r.contact
      PROVE  RecordOk(m, r, p, i)
  <2>1. \A k \in q : k.name = m /\ k.contact = r.contact => k \in p
    BY <1>3, <1>5, <1>7
  <2> QED BY <2>1, <1>4, <1>5, FewerLent
<1>6. QueriesOk(p, i) /\ AnswersOk(p, w, i)
  BY <1>4, FewerLentQueries
<1> QED BY <1>4, <1>5, <1>6 DEF p

\* A new query has an id of its own: no record asked it before, and no answer
\* that is on its way has its id as long as the ids fit.
LEMMA OneMoreQuery ==
    ASSUME NEW q, NEW w, NEW i, NEW j \in Nat, j > i, QueriesOk(q, i), AnswersOk(q, w, i),
           NEW k \in Key, k.id = j, NEW a \in Reply,
           j < Ids => a.id = j /\ a.host = Host[k.contact]
    PROVE  /\ QueriesOk(q \cup {k}, j) /\ AnswersOk(q \cup {k}, w \cup {a}, j)
           /\ \A m, r : RecordOk(m, r, q, i) => RecordOk(m, r, q \cup {k}, j)
<1>1. i \in Nat /\ i < j /\ q \subseteq Key /\ w \subseteq Reply /\ Ids \in Nat
      /\ \A c \in q : c.id \in Nat
  BY RegistrarAssumption DEF QueriesOk, AnswersOk, Key
<1>0. \A c \in q : c.id >= 1 /\ c.id <= i
  BY DEF QueriesOk
<1>2. QueriesOk(q \cup {k}, j)
  <2>1. \A c \in q \cup {k} : c.id >= 1 /\ c.id <= j
    BY <1>1, <1>0
  <2>2. \A c, d \in q \cup {k} : c.id = d.id => c = d
    BY <1>1 DEF QueriesOk
  <2>3. \A c \in 1..MaxQuery : called[c] # 0 => c <= j /\ \A d \in q \cup {k} : d.id # c
    BY <1>1 DEF QueriesOk
  <2> QED BY <2>1, <2>2, <2>3, <1>1 DEF QueriesOk
<1>3. AnswersOk(q \cup {k}, w \cup {a}, j)
  <2>1. ASSUME j < Ids, NEW m \in w \cup {a}
        PROVE  m.id <= j /\ \A c \in q \cup {k} : c.id = m.id => m.host = Host[c.contact]
    <3>1. CASE m = a
      BY <2>1, <3>1, <1>1 DEF QueriesOk
    <3>2. CASE m \in w
      <4>1. m.id \in Nat /\ m.id <= i
        BY <2>1, <3>2, <1>1 DEF AnswersOk, Reply
      <4>2. \A c \in q : c.id = m.id => m.host = Host[c.contact]
        BY <2>1, <3>2, <1>1 DEF AnswersOk
      <4> QED BY <4>1, <4>2, <1>1
    <3> QED BY <3>1, <3>2
  <2> QED BY <2>1, <1>1 DEF AnswersOk
<1>4. ASSUME NEW m, NEW r, RecordOk(m, r, q, i)
      PROVE  RecordOk(m, r, q \cup {k}, j)
  <2>1. r.asked \in Int /\ r.asked <= i
    BY <1>4 DEF RecordOk, AsksForItself, Record
  <2>2. AsksForItself(m, r, q \cup {k}, j)
    BY <1>4, <2>1, <1>1 DEF RecordOk, AsksForItself
  <2>3. Awaits(r, q \cup {k}) /\ Routed(r, j)
    BY <1>4, <1>1 DEF RecordOk, Awaits, Routed
  <2> QED BY <1>4, <2>2, <2>3 DEF RecordOk
<1> QED BY <1>2, <1>3, <1>4

-----------------------------------------------------------------------------
(* One contact of a request *)

\* What is true of a registration of name n so far: the invariant, with its
\* records, queries and ids in the place of those of the state.
SoFar(n, s) ==
  /\ s \in [records : Seq(Record), query : SUBSET Key, answer : SUBSET Reply, id : Nat]
  /\ \A m \in DOMAIN aor \ {n} : RecordsOk(m, aor[m], s.query, s.id)
  /\ RecordsOk(n, s.records, s.query, s.id)
  /\ QueriesOk(s.query, s.id) /\ AnswersOk(s.query, s.answer, s.id)

\* The socket of the request is there, or it is none.
Fits(over) ==
  /\ over \in Nat /\ over <= last
  /\ over \in DOMAIN event => event[over] \in Peer

\* Records that are gone, with what they lent.
LEMMA FewerRecords ==
    ASSUME NEW n, NEW s, SoFar(n, s), NEW R \in Seq(Record), Distinct(R), NEW T,
           \A x \in DOMAIN R : \E y \in DOMAIN s.records : R[x] = s.records[y],
           \A k \in s.query \cap T : k.name = n,
           \A k \in s.query \cap T, x \in DOMAIN R : k.contact # R[x].contact
    PROVE  SoFar(n, [s EXCEPT !.records = R, !.query = EndSome(s.query, T)])
<1> DEFINE p == EndSome(s.query, T)
           u == [s EXCEPT !.records = R, !.query = p]
<1>1. /\ QueriesOk(p, s.id) /\ AnswersOk(p, s.answer, s.id) /\ p \subseteq Key
      /\ \A m, r :
           RecordOk(m, r, s.query, s.id) /\ (\A k \in s.query \cap T : k.name = m => k.contact # r.contact)
             => RecordOk(m, r, p, s.id)
  BY EndSomeEffect DEF SoFar
<1>2. /\ s \in [records : Seq(Record), query : SUBSET Key, answer : SUBSET Reply, id : Nat]
      /\ RecordsOk(n, s.records, s.query, s.id)
  BY DEF SoFar
<1> HIDE DEF p
<1>3. /\ u \in [records : Seq(Record), query : SUBSET Key, answer : SUBSET Reply, id : Nat]
      /\ u.records = R /\ u.query = p /\ u.answer = s.answer /\ u.id = s.id
  BY <1>1, <1>2
<1>4. RecordsOk(n, R, p, s.id)
  <2>1. ASSUME NEW x \in DOMAIN R
        PROVE  RecordOk(n, R[x], p, s.id)
    BY <1>1, <1>2 DEF RecordsOk
  <2> QED BY <2>1 DEF RecordsOk
<1>5. ASSUME NEW m \in DOMAIN aor \ {n}
      PROVE  RecordsOk(m, aor[m], p, s.id)
  <2>1. RecordsOk(m, aor[m], s.query, s.id)
    BY DEF SoFar
  <2>2. ASSUME NEW x \in DOMAIN aor[m]
        PROVE  RecordOk(m, aor[m][x], p, s.id)
    <3>1. RecordOk(m, aor[m][x], s.query, s.id)
      BY <2>1 DEF RecordsOk
    <3> QED BY <1>1, <3>1
  <2> QED BY <2>1, <2>2 DEF RecordsOk
<1> HIDE DEF u
<1>6. SoFar(n, u)
  BY <1>1, <1>3, <1>4, <1>5 DEF SoFar
<1> QED BY <1>6 DEF u, p

\* A contact that is registered again leaves no record behind, and its key
\* lends nothing.
LEMMA ReplacedOk ==
    ASSUME NEW n, NEW s, SoFar(n, s), NEW c
    PROVE  LET R == Drop(s.records, c)
           IN /\ SoFar(n, [s EXCEPT !.records = R, !.query = Gone(s.query, n, c)])
              /\ ~Has(R, c)
<1> DEFINE R == Drop(s.records, c)
           T == {k \in s.query : k.name = n /\ k.contact = c}
<1>1. s.records \in Seq(Record) /\ Distinct(s.records)
  BY DEF SoFar, RecordsOk
<1>2. /\ R \in Seq(Record) /\ Distinct(R)
      /\ \A x \in DOMAIN R : \E y \in DOMAIN s.records :
           R[x] = s.records[y] /\ s.records[y].contact # c
  BY <1>1, DropEffect
<1>3. Gone(s.query, n, c) = EndSome(s.query, T)
  BY DEF Gone, EndSome, Ends
<1> HIDE DEF R
<1>4. SoFar(n, [s EXCEPT !.records = R, !.query = EndSome(s.query, T)])
  <2>1. \A k \in s.query \cap T : k.name = n
    OBVIOUS
  <2>2. \A k \in s.query \cap T, x \in DOMAIN R : k.contact # R[x].contact
    BY <1>2
  <2> HIDE DEF T
  <2> QED BY <1>2, <2>1, <2>2, FewerRecords
<1>5. ~Has(R, c)
  BY <1>2 DEF Has, IndexOf
<1> QED BY <1>3, <1>4, <1>5 DEF R

\* "*" takes all records of the name away.
LEMMA ErasedOk ==
    ASSUME NEW n, NEW s, SoFar(n, s)
    PROVE  SoFar(n, Erased(s, n))
<1> DEFINE T == {k \in s.query : k.name = n}
<1>1. Erased(s, n) = [s EXCEPT !.records = <<>>, !.query = EndSome(s.query, T)]
  BY DEF Erased, EndSome, Ends
<1>2. <<>> \in Seq(Record) /\ Distinct(<<>>) /\ DOMAIN <<>> = {}
  BY DEF Distinct
<1>3. \A k \in s.query \cap T : k.name = n
  OBVIOUS
<1> HIDE DEF T
<1>4. SoFar(n, [s EXCEPT !.records = <<>>, !.query = EndSome(s.query, T)])
  BY <1>2, <1>3, FewerRecords
<1> QED BY <1>1, <1>4

\* A record of its own may be put in front.
LEMMA FrontOk ==
    ASSUME NEW n, NEW s, SoFar(n, s), NEW r, RecordOk(n, r, s.query, s.id),
           ~Has(s.records, r.contact)
    PROVE  SoFar(n, [s EXCEPT !.records = <<r>> \o s.records])
<1> DEFINE R == s.records
           F == <<r>> \o R
           u == [s EXCEPT !.records = F]
<1>1. /\ s \in [records : Seq(Record), query : SUBSET Key, answer : SUBSET Reply, id : Nat]
      /\ R \in Seq(Record) /\ Distinct(R) /\ r \in Record
      /\ \A x \in DOMAIN R : RecordOk(n, R[x], s.query, s.id)
  BY DEF SoFar, RecordsOk, RecordOk
<1>2. \A x \in DOMAIN R : R[x].contact # r.contact
  BY DEF Has, IndexOf
<1> HIDE DEF R
<1>3. /\ F \in Seq(Record) /\ DOMAIN F = 1..(Len(R) + 1) /\ F[1] = r /\ Len(R) \in Nat
      /\ \A x \in 2..(Len(R) + 1) : x - 1 \in DOMAIN R /\ F[x] = R[x - 1]
  BY <1>1, InFront
<1> HIDE DEF F
<1>4. \A x \in DOMAIN F : x = 1 \/ x \in 2..(Len(R) + 1)
  BY <1>3
<1>5. Distinct(F)
  <2>1. ASSUME NEW x \in DOMAIN F, NEW y \in DOMAIN F, F[x].contact = F[y].contact, x # 1, y # 1
        PROVE  x = y
    <3>1. x - 1 = y - 1
      BY <2>1, <1>1, <1>3, <1>4 DEF Distinct
    <3> QED BY <3>1, <2>1, <1>3
  <2> QED BY <2>1, <1>2, <1>3, <1>4 DEF Distinct
<1>6. RecordsOk(n, F, s.query, s.id)
  BY <1>1, <1>3, <1>4, <1>5 DEF RecordsOk
<1>7. /\ u \in [records : Seq(Record), query : SUBSET Key, answer : SUBSET Reply, id : Nat]
      /\ u.records = F /\ u.query = s.query /\ u.answer = s.answer /\ u.id = s.id
  BY <1>1, <1>3
<1> HIDE DEF u
<1>8. SoFar(n, u)
  BY <1>6, <1>7 DEF SoFar
<1> QED BY <1>8 DEF u, F, R

\* The next id is none of the 16 bits' 0, and as long as the ids fit it is its
\* own low bits.
LEMMA NextIdEffect ==
    ASSUME NEW i \in Nat
    PROVE  /\ NextId(i) \in Nat /\ NextId(i) > i /\ NextId(i) % Ids \in Nat
           /\ NextId(i) < Ids => NextId(i) % Ids = NextId(i)
  BY RegistrarAssumption DEF NextId

\* A contact that is new has a route, or asks for it.
LEMMA LookedUpOk ==
    ASSUME NEW n \in Name, NEW s, SoFar(n, s), NEW c \in Contact, ~Has(s.records, c),
           NEW e \in Int, NEW over, Fits(over)
    PROVE  SoFar(n, Lookup([s EXCEPT !.records = <<NewRecord(c, e, over)>> \o s.records], n))
<1> DEFINE r == NewRecord(c, e, over)
           R == s.records
           v == [s EXCEPT !.records = <<r>> \o R]
           i == NextId(s.id)
<1>1. /\ s \in [records : Seq(Record), query : SUBSET Key, answer : SUBSET Reply, id : Nat]
      /\ R \in Seq(Record) /\ s.id \in Nat
      /\ QueriesOk(s.query, s.id) /\ AnswersOk(s.query, s.answer, s.id)
  BY DEF SoFar
<1>2. /\ r \in Record /\ r.contact = c /\ r.route = None /\ r.asked = 0 /\ r.over = over
      /\ OverItsOwn(r)
  BY DEF NewRecord, Record, Fits, OverItsOwn, NotAsked, Peer
<1>3. Host[c] \in Hosts /\ Host[c] # None
  BY RegistrarAssumption DEF Hosts
<1>4. /\ \A f \in Record : [<<r>> \o R EXCEPT ![1] = f] = <<f>> \o R
      /\ (<<r>> \o R)[1] = r
  BY <1>1, <1>2, InFront
<1>5. v.records = <<r>> \o R /\ v.query = s.query /\ v.answer = s.answer /\ v.id = s.id
      /\ v.records[1].contact = c
  BY <1>1, <1>2, <1>4
<1> HIDE DEF r, R
<1>6. CASE Host[c] \in Numeric
  <2> DEFINE f == [r EXCEPT !.route = Host[c]]
  <2>1. /\ f \in Record /\ f.contact = c /\ f.route = Host[c] /\ f.asked = 0 /\ f.over = over
        /\ f.by = r.by
    BY <1>2, <1>3 DEF Record
  <2>2. Lookup(v, n) = [s EXCEPT !.records = <<f>> \o R]
    <3>1. Lookup(v, n) = [v EXCEPT !.records[1].route = Host[c]]
      BY <1>5, <1>6 DEF Lookup
    <3>2. [v EXCEPT !.records[1].route = Host[c]] = [v EXCEPT !.records = [<<r>> \o R EXCEPT ![1] = f]]
      BY <1>1, <1>4, <1>5
    <3>3. [v EXCEPT !.records = <<f>> \o R] = [s EXCEPT !.records = <<f>> \o R]
      BY <1>1
    <3> HIDE DEF f, v
    <3> QED BY <3>1, <3>2, <3>3, <2>1, <1>4
  <2>3. RecordOk(n, f, s.query, s.id)
    <3>1. OverItsOwn(f) /\ Routed(f, s.id) /\ Awaits(f, s.query)
      BY <1>2, <1>3, <2>1 DEF OverItsOwn, Routed, Awaits
    <3>2. AsksForItself(n, f, s.query, s.id)
      BY <1>1, <2>1 DEF AsksForItself, QueriesOk
    <3> QED BY <2>1, <3>1, <3>2 DEF RecordOk
  <2>4. SoFar(n, [s EXCEPT !.records = <<f>> \o R])
    <3> HIDE DEF f
    <3> QED BY <2>1, <2>3, FrontOk DEF R
  <2> QED BY <2>2, <2>4 DEF r, R
<1>7. CASE Host[c] \notin Numeric /\ ~resolver
  <2> DEFINE f == [r EXCEPT !.asked = Unsent]
  <2>1. /\ f \in Record /\ f.contact = c /\ f.route = None /\ f.asked = -1 /\ f.over = over
        /\ f.by = r.by
    BY <1>2 DEF Record, Unsent
  <2>2. Lookup(v, n) = [s EXCEPT !.records = <<f>> \o R]
    <3>1. Lookup(v, n) = [v EXCEPT !.records[1].asked = Unsent]
      BY <1>5, <1>7 DEF Lookup, Ask
    <3>2. [v EXCEPT !.records[1].asked = Unsent] = [v EXCEPT !.records = [<<r>> \o R EXCEPT ![1] = f]]
      BY <1>1, <1>4, <1>5
    <3>3. [v EXCEPT !.records = <<f>> \o R] = [s EXCEPT !.records = <<f>> \o R]
      BY <1>1
    <3> HIDE DEF f, v
    <3> QED BY <3>1, <3>2, <3>3, <2>1, <1>4
  <2>3. RecordOk(n, f, s.query, s.id)
    <3>1. OverItsOwn(f) /\ Routed(f, s.id) /\ Awaits(f, s.query)
      BY <1>2, <2>1 DEF OverItsOwn, Routed, Awaits, Unsent
    <3>2. AsksForItself(n, f, s.query, s.id)
      BY <1>1, <2>1 DEF AsksForItself, QueriesOk
    <3> QED BY <2>1, <3>1, <3>2 DEF RecordOk
  <2>4. SoFar(n, [s EXCEPT !.records = <<f>> \o R])
    <3> HIDE DEF f
    <3> QED BY <2>1, <2>3, FrontOk DEF R
  <2> QED BY <2>2, <2>4 DEF r, R
<1>8. CASE Host[c] \notin Numeric /\ resolver
  <2> DEFINE f == [r EXCEPT !.asked = i]
             k == [id |-> i, name |-> n, contact |-> c, lent |-> TRUE]
             m == [id |-> i % Ids, host |-> Host[c]]
             q == s.query \cup {k}
             w == s.answer \cup {m}
             u == [s EXCEPT !.query = q, !.answer = w, !.id = i]
  <2>1. /\ i \in Nat /\ i > s.id /\ i % Ids \in Nat
        /\ i < Ids => i % Ids = i
    BY <1>1, NextIdEffect
  <2> HIDE DEF i
  <2>2. /\ f \in Record /\ f.contact = c /\ f.route = None /\ f.asked = i /\ f.over = over
        /\ f.by = r.by
    BY <1>2, <2>1 DEF Record
  <2>3. k \in Key /\ m \in Reply
    BY <1>3, <2>1 DEF Key, Reply
  <2>4. /\ QueriesOk(q, i) /\ AnswersOk(q, w, i)
        /\ \A o, g : RecordOk(o, g, s.query, s.id) => RecordOk(o, g, q, i)
    <3>1. k.id = i /\ (i < Ids => m.id = i /\ m.host = Host[k.contact])
      BY <2>1
    <3> HIDE DEF k, m
    <3> QED BY <1>1, <2>1, <2>3, <3>1, OneMoreQuery
  <2>5. /\ u \in [records : Seq(Record), query : SUBSET Key, answer : SUBSET Reply, id : Nat]
        /\ u.records = R /\ u.query = q /\ u.answer = w /\ u.id = i
    <3> HIDE DEF k, m
    <3> QED BY <1>1, <2>1, <2>3 DEF R
  <2>6. Lookup(v, n) = [u EXCEPT !.records = <<f>> \o R]
    <3>1. Lookup(v, n) = [v EXCEPT !.records[1].asked = i, !.query = q, !.answer = w, !.id = i]
      BY <1>5, <1>8 DEF Lookup, Ask, i
    <3> HIDE DEF q, w
    <3>2. [v EXCEPT !.records[1].asked = i, !.query = q, !.answer = w, !.id = i]
            = [v EXCEPT !.records = [<<r>> \o R EXCEPT ![1] = f], !.query = q, !.answer = w, !.id = i]
      BY <1>1, <1>4, <1>5
    <3>3. [v EXCEPT !.records = <<f>> \o R, !.query = q, !.answer = w, !.id = i]
            = [u EXCEPT !.records = <<f>> \o R]
      BY <1>1
    <3> HIDE DEF f, v, u
    <3> QED BY <3>1, <3>2, <3>3, <2>2, <1>4
  <2>7. SoFar(n, u)
    <3>1. /\ \A o \in DOMAIN aor \ {n} : RecordsOk(o, aor[o], s.query, s.id)
          /\ RecordsOk(n, R, s.query, s.id)
      BY DEF SoFar, R
    <3> HIDE DEF q, w, u
    <3>2. RecordsOk(n, R, q, i)
      BY <3>1, <2>4 DEF RecordsOk
    <3>3. \A o \in DOMAIN aor \ {n} : RecordsOk(o, aor[o], q, i)
      BY <3>1, <2>4 DEF RecordsOk
    <3> QED BY <2>4, <2>5, <3>2, <3>3 DEF SoFar
  <2>8. RecordOk(n, f, q, i)
    <3>1. k \in q /\ k.id = i /\ k.lent /\ k.name = n /\ k.contact = c
      OBVIOUS
    <3> HIDE DEF k, q, f
    <3>2. OverItsOwn(f) /\ Routed(f, i) /\ Awaits(f, q)
      BY <1>2, <2>2, <3>1 DEF OverItsOwn, Routed, Awaits
    <3>3. AsksForItself(n, f, q, i)
      BY <2>1, <2>2, <2>4, <3>1 DEF AsksForItself, QueriesOk
    <3> QED BY <2>2, <3>2, <3>3 DEF RecordOk
  <2>9. SoFar(n, [u EXCEPT !.records = <<f>> \o R])
    <3>1. ~Has(u.records, f.contact) /\ u.records = R /\ u.query = q /\ u.id = i
      BY <2>2, <2>5 DEF R
    <3> HIDE DEF f, u, q
    <3> QED BY <2>7, <2>8, <3>1, FrontOk
  <2> QED BY <2>6, <2>9 DEF r, R
<1> QED BY <1>6, <1>7, <1>8

\* What a contact may be in a request.
Listed == [contact : Contact \cup {Star}, expires : Nat \cup {Learned}]

\* aor_update with one contact: whether it is new, replaced, ended or left.
LEMMA ContactedOk ==
    ASSUME NEW n \in Name, NEW s, SoFar(n, s), NEW x \in Listed, x.contact # Star,
           NEW expired \in Int, NEW over, Fits(over), NEW known \in BOOLEAN
    PROVE  SoFar(n, Contacted(s, n, x, expired, over, known))
<1> DEFINE c == x.contact
           e == Expiry(expired, x.expires)
           replaced == known /\ expired # Learned
           kept == IF replaced THEN Drop(s.records, c) ELSE s.records
           u == [s EXCEPT !.records = kept,
                          !.query = IF replaced THEN Gone(s.query, n, c) ELSE s.query]
           v == [u EXCEPT !.records = <<NewRecord(c, e, over)>> \o kept]
<1>1. c \in Contact /\ e \in Int
  BY DEF Listed, Expiry, Learned
<1>2. s \in [records : Seq(Record), query : SUBSET Key, answer : SUBSET Reply, id : Nat]
  BY DEF SoFar
<1>3. Contacted(s, n, x, expired, over, known)
        = IF e = 0 \/ Has(kept, c) THEN u ELSE Lookup(v, n)
  BY <1>2 DEF Contacted
<1> HIDE DEF e, c
<1>4. SoFar(n, u) /\ u.records = kept
  <2>1. CASE replaced
    BY <2>1, <1>2, ReplacedOk
  <2>2. CASE ~replaced
    <3>1. u = s
      BY <2>2, <1>2
    <3> QED BY <3>1, <2>2
  <2> QED BY <2>1, <2>2
<1> HIDE DEF u, kept
<1>5. CASE ~(e = 0 \/ Has(kept, c))
  BY <1>1, <1>3, <1>4, <1>5, LookedUpOk DEF c
<1> QED BY <1>3, <1>4, <1>5

\* The same with "*".
LEMMA EnteredOk ==
    ASSUME NEW n \in Name, NEW s, SoFar(n, s), NEW x \in Listed,
           NEW expired \in Int, NEW over, Fits(over),
           NEW known \in BOOLEAN
    PROVE  SoFar(n, Entered(s, n, x, expired, over, known))
  BY ContactedOk, ErasedOk DEF Entered

-----------------------------------------------------------------------------
(* All contacts of a request *)

\* The list can be entered one contact after another, to its end, and what one
\* contact leaves true is true after all of them.
LEMMA AllEnteredOk ==
    ASSUME NEW n \in Name, NEW contacts \in Seq(Listed), NEW expired \in Int,
           NEW over, Fits(over), NEW known \in BOOLEAN,
           SoFar(n, Progress(IF known THEN aor[n] ELSE <<>>, query, answer, id))
    PROVE  SoFar(n, AllEntered(n, contacts, expired, over, known))
<1> DEFINE base == Progress(IF known THEN aor[n] ELSE <<>>, query, answer, id)
           N == Len(contacts)
           step(s, i) == Entered(s, n, contacts[N + 1 - i], expired, over, known)
           done[i \in 0..Len(contacts)] ==
             IF i = 0 THEN Progress(IF known THEN aor[n] ELSE <<>>, query, answer, id)
             ELSE Entered(done[i - 1], n, contacts[Len(contacts) + 1 - i], expired, over, known)
<1>1. AllEntered(n, contacts, expired, over, known) = done[N]
  BY DEF AllEntered
<1>2. N \in Nat
  OBVIOUS
<1>3. \E g : g = [i \in 0..N |-> IF i = 0 THEN base ELSE step(g[i - 1], i)]
  <2> DEFINE Entering(g, j) == \A i \in 0..j : g[i] = IF i = 0 THEN base ELSE step(g[i - 1], i)
             S == {j \in Nat : \E g : Entering(g, j)}
  <2> HIDE DEF base, step
  <2>1. 0 \in S
    <3>1. Entering([i \in 0..0 |-> base], 0)
      OBVIOUS
    <3> HIDE DEF Entering
    <3> QED BY <3>1
  <2>2. ASSUME NEW j \in Nat, j \in S
        PROVE  j + 1 \in S
    <3>1. PICK g : Entering(g, j)
      BY <2>2
    <3> DEFINE h == [i \in 0..(j + 1) |-> IF i = j + 1 THEN step(g[j], i) ELSE g[i]]
    <3>2. Entering(h, j + 1)
      BY <3>1
    <3>3. j + 1 \in Nat
      OBVIOUS
    <3> HIDE DEF Entering, h
    <3> QED BY <3>2, <3>3
  <2>3. N \in S
    <3> HIDE DEF S
    <3> QED BY <1>2, <2>1, <2>2, SetInduction
  <2>4. PICK g : Entering(g, N)
    BY <2>3
  <2> DEFINE f == [i \in 0..N |-> g[i]]
  <2>5. \A i \in 0..N : f[i] = IF i = 0 THEN base ELSE step(f[i - 1], i)
    BY <1>2, <2>4
  <2>6. f = [i \in 0..N |-> IF i = 0 THEN base ELSE step(f[i - 1], i)]
    BY <2>5
  <2> HIDE DEF f
  <2> QED BY <2>6
<1>4. done = [i \in 0..N |-> IF i = 0 THEN base ELSE step(done[i - 1], i)]
  BY <1>3
<1> HIDE DEF done, step
<1>5. /\ N \in Nat /\ done[0] = base
      /\ \A i \in 0..N : i # 0 => done[i] = step(done[i - 1], i)
  BY <1>2, <1>4
<1>6. \A s : \A i \in 1..N : SoFar(n, s) => SoFar(n, step(s, i))
  <2>1. \A i \in 1..N : N + 1 - i \in DOMAIN contacts /\ contacts[N + 1 - i] \in Listed
    OBVIOUS
  <2> HIDE DEF N
  <2> QED BY <2>1, EnteredOk DEF step
<1> HIDE DEF base, N
<1>7. N \in {j \in Nat : j <= N => SoFar(n, done[j])}
  <2> DEFINE S == {j \in Nat : j <= N => SoFar(n, done[j])}
  <2>1. 0 \in S
    BY <1>5 DEF base
  <2>2. ASSUME NEW j \in Nat, j \in S
        PROVE  j + 1 \in S
    BY <2>2, <1>5, <1>6
  <2> HIDE DEF S
  <2>3. N \in S
    BY <1>5, <2>1, <2>2, SetInduction
  <2> QED BY <2>3 DEF S
<1> QED BY <1>1, <1>5, <1>7

-----------------------------------------------------------------------------
(* The steps *)

\* At first there is neither a name nor a query.
LEMMA InitIInv == Init => IInv
<1> SUFFICES ASSUME Init PROVE IInv
  OBVIOUS
<1>1. DOMAIN aor = {} /\ event = <<Everyone>> /\ DOMAIN event = 1..1 /\ last = 1
  BY DEF Init
<1>2. id = 0 /\ 0 <= MaxQuery /\ called = [q \in 1..MaxQuery |-> 0]
  BY RegistrarAssumption DEF Init
<1>3. QueriesOk(query, id) /\ AnswersOk(query, answer, id)
  BY <1>2 DEF Init, QueriesOk, AnswersOk
<1> QED BY <1>1, <1>2, <1>3 DEF IInv, Sockets, Peer

\* What was true of a registration so far is the invariant after it.
LEMMA Carried ==
    ASSUME UNCHANGED <<called, unknown, event, last>>, Sockets,
           called \in [1..MaxQuery -> {0, 1}],
           DOMAIN aor' \subseteq Name, id' <= MaxQuery,
           \A n \in DOMAIN aor' : RecordsOk(n, aor'[n], query', id'),
           QueriesOk(query', id'), AnswersOk(query', answer', id')
    PROVE  IInv'
<1>1. \A n \in DOMAIN aor' : RecordsOk(n, aor[n], query, id)'
  BY DEF RecordsOk, RecordOk, Routed, AsksForItself, Awaits, OverItsOwn, Distinct
<1>2. QueriesOk(query, id)' /\ AnswersOk(query, answer, id)'
  BY DEF QueriesOk, AnswersOk
<1> QED BY <1>1, <1>2 DEF IInv, Sockets

\* aor_update, for a name that is known or not.
LEMMA UpdateIInv ==
    ASSUME IInv, NEW n \in Name, NEW contacts \in Seq(Listed), NEW expired \in Int, NEW over,
           over \in Over,
           Update(n, contacts, expired, over), UNCHANGED <<called, unknown, event, last>>
    PROVE  IInv'
<1> DEFINE known == n \in DOMAIN aor
           s == AllEntered(n, contacts, expired, over, known)
           R == IF known THEN aor[n] ELSE <<>>
           base == Progress(R, query, answer, id)
<1>1. /\ Sockets /\ called \in [1..MaxQuery -> {0, 1}]
      /\ DOMAIN aor \subseteq Name /\ id <= MaxQuery
      /\ \A m \in DOMAIN aor : RecordsOk(m, aor[m], query, id)
      /\ QueriesOk(query, id) /\ AnswersOk(query, answer, id)
  BY DEF IInv
<1>2. CASE UNCHANGED <<aor, query, answer, id>>
  BY <1>1, <1>2, Carried
<1>3. CASE /\ s.id <= MaxQuery
           /\ aor' = [m \in DOMAIN aor \cup {n} |-> IF m = n THEN s.records ELSE aor[m]]
           /\ query' = s.query /\ answer' = s.answer /\ id' = s.id
  <2>1. Fits(over)
    BY <1>1 DEF Sockets, Over, NoEvent, Fits
  <2>2. SoFar(n, base)
    <3>1. RecordsOk(n, R, query, id)
      <4>1. <<>> \in Seq(Record) /\ DOMAIN <<>> = {}
        OBVIOUS
      <4> QED BY <1>1, <4>1 DEF RecordsOk, Distinct
    <3>2. /\ base \in [records : Seq(Record), query : SUBSET Key, answer : SUBSET Reply, id : Nat]
          /\ base.records = R /\ base.query = query /\ base.answer = answer /\ base.id = id
      BY <1>1, <3>1 DEF Progress, QueriesOk, AnswersOk, RecordsOk
    <3> HIDE DEF base, R
    <3> QED BY <1>1, <3>1, <3>2 DEF SoFar
  <2>3. SoFar(n, s)
    <3>1. known \in BOOLEAN
      OBVIOUS
    <3> HIDE DEF known
    <3> QED BY <2>1, <2>2, <3>1, AllEnteredOk
  <2> HIDE DEF s
  <2>4. \A m \in DOMAIN aor' : RecordsOk(m, aor'[m], query', id')
    BY <1>3, <2>3 DEF SoFar
  <2>5. DOMAIN aor' \subseteq Name /\ id' <= MaxQuery
    BY <1>1, <1>3
  <2>6. QueriesOk(query', id') /\ AnswersOk(query', answer', id')
    BY <1>3, <2>3 DEF SoFar
  <2> QED BY <1>1, <2>4, <2>5, <2>6, Carried
<1> QED BY <1>2, <1>3 DEF Update

LEMMA RegisterIInv ==
    ASSUME IInv, NEW n \in Name, NEW contacts \in Requests, NEW expired \in Expires,
           NEW over, Register(n, contacts, expired, over)
    PROVE  IInv'
<1>1. contacts \in Seq(Listed)
  <2>1. Requests \subseteq Seq(Listed)
    BY RegistrarAssumption, Zenon DEF Listed
  <2> QED BY <2>1
<1>2. expired \in Int
  BY RegistrarAssumption
<1> QED BY <1>1, <1>2, UpdateIInv DEF Register

LEMMA LearnIInv ==
    ASSUME IInv, NEW n \in Name, NEW c \in Contact, NEW over, Learn(n, c, over)
    PROVE  IInv'
<1> DEFINE x == [contact |-> c, expires |-> Learned]
<1>1. x \in Listed /\ Learned \in Int /\ x.contact = c
  BY DEF Listed, Learned
<1>2. /\ over \in Over /\ UNCHANGED <<called, unknown, event, last>>
      /\ Update(n, <<x>>, Learned, over)
  BY DEF Learn
<1> HIDE DEF x
<1>3. <<x>> \in Seq(Listed) /\ DOMAIN <<x>> = {1} /\ <<x>>[1] = x
  BY <1>1
<1> QED BY <1>1, <1>2, <1>3, UpdateIInv

\* aor_record_lookup_callback gives records a route, and nothing else.
LEMMA ResolveEffect ==
    ASSUME NEW A, NEW k, NEW address, NEW finds,
           \A n \in DOMAIN A : A[n] \in Seq(Record),
           address # None => address \in Hosts
    PROVE  LET B == Resolve(A, k, address, finds)
               hit == address # None /\ k.name \in DOMAIN A /\ (k.lent \/ finds)
           IN /\ DOMAIN B = DOMAIN A
              /\ \A n \in DOMAIN A : B[n] \in Seq(Record) /\ DOMAIN B[n] = DOMAIN A[n]
              /\ \A n \in DOMAIN A : \A x \in DOMAIN A[n] :
                   B[n][x] = IF hit /\ n = k.name /\ A[n][x].contact = k.contact
                             THEN [A[n][x] EXCEPT !.route = address] ELSE A[n][x]
<1> DEFINE B == Resolve(A, k, address, finds)
           hit == address # None /\ k.name \in DOMAIN A /\ (k.lent \/ finds)
           F == [x \in DOMAIN A[k.name] |-> IF A[k.name][x].contact = k.contact
                                             THEN [A[k.name][x] EXCEPT !.route = address]
                                             ELSE A[k.name][x]]
<1>1. CASE ~hit
  BY <1>1 DEF Resolve
<1>2. CASE hit
  <2>1. B = [A EXCEPT ![k.name] = F]
    BY <1>2 DEF Resolve
  <2>2. A[k.name] \in Seq(Record) /\ DOMAIN A[k.name] = 1..Len(A[k.name])
        /\ \A x \in DOMAIN A[k.name] : A[k.name][x] \in Record
    BY <1>2
  <2>3. \A r \in Record : [r EXCEPT !.route = address] \in Record
    BY <1>2 DEF Record
  <2>4. F \in Seq(Record) /\ DOMAIN F = DOMAIN A[k.name]
    <3>1. F \in [1..Len(A[k.name]) -> Record]
      BY <2>2, <2>3
    <3>2. Len(A[k.name]) \in Nat
      BY <2>2
    <3> HIDE DEF F
    <3> QED BY <3>1, <3>2, <2>2, SeqDef
  <2>5. \A x \in DOMAIN A[k.name] :
          F[x] = IF A[k.name][x].contact = k.contact
                 THEN [A[k.name][x] EXCEPT !.route = address] ELSE A[k.name][x]
    OBVIOUS
  <2> HIDE DEF F, B
  <2>6. DOMAIN B = DOMAIN A /\ B[k.name] = F /\ \A n \in DOMAIN A : n # k.name => B[n] = A[n]
    BY <1>2, <2>1
  <2> QED BY <1>2, <2>4, <2>5, <2>6 DEF B
<1> QED BY <1>1, <1>2

\* dns_execute: the record that asked gets its route, or is known to get none;
\* what any other record waits for is still to come.
LEMMA AnswerIInv ==
    ASSUME IInv, NEW m \in answer, NEW found \in BOOLEAN, NEW finds \in BOOLEAN,
           NEW again \in BOOLEAN, Answer(m, found, finds, again)
    PROVE  IInv'
<1>1. /\ Sockets /\ called \in [1..MaxQuery -> {0, 1}]
      /\ DOMAIN aor \subseteq Name /\ id <= MaxQuery /\ id \in Nat /\ MaxQuery \in Nat
      /\ \A n \in DOMAIN aor : RecordsOk(n, aor[n], query, id)
      /\ QueriesOk(query, id) /\ AnswersOk(query, answer, id)
  BY RegistrarAssumption DEF IInv, QueriesOk
<1>2. answer' \subseteq answer /\ UNCHANGED <<id, event, last>>
  BY DEF Answer
<1>3. CASE UNCHANGED <<aor, query, called, unknown>>
  <2>1. AnswersOk(query', answer', id')
    BY <1>1, <1>2, <1>3 DEF AnswersOk
  <2> QED BY <1>1, <1>2, <1>3, <2>1, Carried
<1>4. ASSUME NEW k \in query, k.id = m.id, query' = query \ {k},
             called' = [called EXCEPT ![k.id] = @ + 1],
             unknown' = IF found THEN unknown ELSE unknown \cup {k.id},
             aor' = Resolve(aor, k, IF found THEN m.host ELSE None, finds)
      PROVE  IInv'
  <2> DEFINE address == IF found THEN m.host ELSE None
             hit == address # None /\ k.name \in DOMAIN aor /\ (k.lent \/ finds)
  <2>1. m \in Reply /\ m.host \in Hosts /\ None \notin Hosts
    BY <1>1, RegistrarAssumption DEF AnswersOk, Reply, Hosts
  <2>2. /\ k \in Key /\ k.id \in 1..MaxQuery /\ called[k.id] = 0
        /\ \A j \in query : j.id = k.id => j = k
    <3>1. k \in Key /\ k.id \in Nat /\ k.id >= 1 /\ k.id <= id
      BY <1>1 DEF QueriesOk, Key
    <3>2. k.id \in 1..MaxQuery
      BY <1>1, <3>1
    <3> QED BY <1>1, <3>1, <3>2 DEF QueriesOk
  <2>3. /\ DOMAIN aor' = DOMAIN aor
        /\ \A n \in DOMAIN aor : aor'[n] \in Seq(Record) /\ DOMAIN aor'[n] = DOMAIN aor[n]
        /\ \A n \in DOMAIN aor : \A x \in DOMAIN aor[n] :
             aor'[n][x] = IF hit /\ n = k.name /\ aor[n][x].contact = k.contact
                          THEN [aor[n][x] EXCEPT !.route = address] ELSE aor[n][x]
    <3>1. \A n \in DOMAIN aor : aor[n] \in Seq(Record)
      BY <1>1 DEF RecordsOk
    <3>2. address # None => address \in Hosts
      BY <2>1
    <3> HIDE DEF address
    <3> QED BY <1>4, <3>1, <3>2, ResolveEffect DEF address
  <2>4. ASSUME NEW n \in DOMAIN aor, NEW x \in DOMAIN aor[n]
        PROVE  /\ aor'[n][x].contact = aor[n][x].contact
               /\ RecordOk(n, aor[n][x], query, id)'
    <3> DEFINE r == aor[n][x]
               s == aor'[n][x]
               mine == hit /\ n = k.name /\ r.contact = k.contact
    <3>1. RecordOk(n, r, query, id) /\ r \in Record /\ s \in Record
      <4>1. aor'[n] \in Seq(Record) /\ x \in DOMAIN aor'[n]
        BY <2>3
      <4> QED BY <1>1, <4>1 DEF RecordsOk, RecordOk
    <3>2. /\ s.contact = r.contact /\ s.asked = r.asked /\ s.over = r.over /\ s.by = r.by
          /\ s.route = IF mine THEN address ELSE r.route
      BY <2>3, <3>1 DEF Record
    <3> HIDE DEF r, s
    <3>3. /\ s.asked <= id
          /\ \A j \in query' : j.id = s.asked => j.name = n /\ j.contact = s.contact
      BY <1>4, <3>1, <3>2 DEF RecordOk, AsksForItself
    <3>4. s.over <= last /\ (s.over \in DOMAIN event => event[s.over] = s.by)
      BY <3>1, <3>2 DEF RecordOk, OverItsOwn
    <3>5. s.route # None /\ id < Ids => s.route = Host[s.contact]
      <4>1. CASE mine
        BY <1>1, <1>4, <3>2, <4>1 DEF AnswersOk
      <4>2. CASE ~mine
        BY <3>1, <3>2, <4>2 DEF RecordOk, Routed
      <4> QED BY <4>1, <4>2
    <3>6. s.route = None => \/ s.asked = Unsent \/ s.asked \in unknown'
                            \/ \E j \in query' : j.id = s.asked /\ j.lent
      <4>1. SUFFICES ASSUME s.route = None
                     PROVE  \/ r.asked = Unsent \/ r.asked \in unknown'
                            \/ \E j \in query' : j.id = r.asked /\ j.lent
        BY <3>2
      <4>2. r.route = None /\ ~mine
        BY <4>1, <3>2
      <4>3. CASE \E j \in query : j.id = r.asked /\ j.lent
        <5>1. PICK j \in query : j.id = r.asked /\ j.lent
          BY <4>3
        <5>2. j.name = n /\ j.contact = r.contact
          BY <5>1, <3>1 DEF RecordOk, AsksForItself
        <5>3. CASE j = k
          <6>1. ~found
            BY <2>1, <4>2, <5>1, <5>2, <5>3
          <6> QED BY <1>4, <5>1, <5>3, <6>1
        <5>4. CASE j # k
          BY <1>4, <5>1, <5>4
        <5> QED BY <5>3, <5>4
      <4>4. CASE r.asked = Unsent \/ r.asked \in unknown
        BY <1>4, <4>4
      <4> QED BY <3>1, <4>2, <4>3, <4>4 DEF RecordOk, Awaits
    <3>7. RecordOk(n, aor[n][x], query, id)'
      BY <1>2, <3>1, <3>3, <3>4, <3>5, <3>6
         DEF RecordOk, Routed, AsksForItself, Awaits, OverItsOwn, s
    <3> QED BY <3>2, <3>7 DEF r, s
  <2>5. \A n \in DOMAIN aor' : RecordsOk(n, aor[n], query, id)'
    BY <1>1, <2>3, <2>4 DEF RecordsOk, Distinct
  <2>6. QueriesOk(query, id)'
    BY <1>1, <1>2, <1>4, <2>2 DEF QueriesOk
  <2>7. AnswersOk(query, answer, id)'
    BY <1>1, <1>2, <1>4 DEF AnswersOk
  <2>8. called' \in [1..MaxQuery -> {0, 1}]
    BY <1>1, <1>4, <2>2
  <2> QED BY <1>1, <1>2, <2>3, <2>5, <2>6, <2>7, <2>8 DEF IInv, Sockets
<1> QED BY <1>3, <1>4 DEF Answer

\* The queries with an id are none or one.
LEMMA OneQuery ==
    ASSUME QueriesOk(query, id), NEW c
    PROVE  LET Q == {k \in query : k.id = c}
           IN IF \E k \in query : k.id = c THEN Cardinality(Q) = 1 ELSE Cardinality(Q) = 0
<1> DEFINE Q == {k \in query : k.id = c}
<1>1. CASE \E k \in query : k.id = c
  <2>1. PICK k \in query : k.id = c
    BY <1>1
  <2>2. Q = {k}
    BY <2>1 DEF QueriesOk
  <2> HIDE DEF Q
  <2>3. Cardinality(Q) = 1
    BY <2>2, FS_Singleton
  <2> QED BY <1>1, <2>3 DEF Q
<1>2. CASE ~\E k \in query : k.id = c
  <2>1. Q = {}
    BY <1>2
  <2> HIDE DEF Q
  <2>2. Cardinality(Q) = 0
    BY <2>1, FS_EmptySet
  <2> QED BY <1>2, <2>2 DEF Q
<1> QED BY <1>1, <1>2

\* dns_release: every query that waits is called back once, and no record waits
\* for it any more.
LEMMA ResolverFailsIInv ==
    ASSUME IInv, NEW opened \in BOOLEAN, ResolverFails(opened)
    PROVE  IInv'
<1>1. /\ Sockets /\ called \in [1..MaxQuery -> {0, 1}]
      /\ DOMAIN aor \subseteq Name /\ id <= MaxQuery /\ id \in Nat /\ MaxQuery \in Nat
      /\ \A n \in DOMAIN aor : RecordsOk(n, aor[n], query, id)
      /\ QueriesOk(query, id) /\ AnswersOk(query, answer, id)
  BY RegistrarAssumption DEF IInv, QueriesOk
<1>2. /\ query' = {} /\ UNCHANGED <<aor, answer, id, event, last>>
      /\ unknown' = unknown \cup {k.id : k \in query}
      /\ called' = [q \in DOMAIN called |->
                     called[q] + Cardinality({k \in query : k.id = q})]
  BY DEF ResolverFails
<1>3. \A q \in 1..MaxQuery :
        /\ called'[q] \in {0, 1}
        /\ called'[q] # 0 => q <= id
  <2> SUFFICES ASSUME NEW q \in 1..MaxQuery
               PROVE  called'[q] \in {0, 1} /\ (called'[q] # 0 => q <= id)
    OBVIOUS
  <2>1. called'[q] = called[q] + Cardinality({k \in query : k.id = q})
    BY <1>1, <1>2
  <2>2. CASE \E k \in query : k.id = q
    <3>1. Cardinality({k \in query : k.id = q}) = 1
      BY <1>1, <2>2, OneQuery
    <3>2. called[q] = 0 /\ q <= id
      BY <1>1, <2>2 DEF QueriesOk
    <3> QED BY <2>1, <3>1, <3>2
  <2>3. CASE ~\E k \in query : k.id = q
    <3>1. Cardinality({k \in query : k.id = q}) = 0
      BY <1>1, <2>3, OneQuery
    <3>2. called[q] \in {0, 1} /\ (called[q] # 0 => q <= id)
      BY <1>1 DEF QueriesOk
    <3> QED BY <2>1, <3>1, <3>2
  <2> QED BY <2>2, <2>3
<1>4. called' \in [1..MaxQuery -> {0, 1}]
  BY <1>1, <1>2, <1>3
<1>5. QueriesOk(query, id)' /\ AnswersOk(query, answer, id)'
  BY <1>1, <1>2, <1>3 DEF QueriesOk, AnswersOk
<1>6. ASSUME NEW n \in DOMAIN aor, NEW x \in DOMAIN aor[n]
      PROVE  RecordOk(n, aor[n][x], query, id)'
  <2>1. RecordOk(n, aor[n][x], query, id)
    BY <1>1 DEF RecordsOk
  <2> QED BY <1>2, <2>1 DEF RecordOk, Routed, AsksForItself, Awaits, OverItsOwn
<1>7. \A n \in DOMAIN aor' : RecordsOk(n, aor[n], query, id)'
  BY <1>1, <1>2, <1>6 DEF RecordsOk, Distinct
<1> QED BY <1>1, <1>2, <1>4, <1>5, <1>7 DEF IInv, Sockets

\* Ids of sockets are not used again: what a record registered over is the same
\* socket or gone.
LEMMA SocketsIInv ==
    ASSUME IInv, Sockets', last' >= last,
           \A e \in DOMAIN event' : e <= last => e \in DOMAIN event /\ event'[e] = event[e],
           UNCHANGED <<aor, query, answer, id, called, unknown>>
    PROVE  IInv'
<1>1. /\ Sockets /\ QueriesOk(query, id) /\ AnswersOk(query, answer, id)
      /\ \A n \in DOMAIN aor : RecordsOk(n, aor[n], query, id)
  BY DEF IInv
<1>2. ASSUME NEW n \in DOMAIN aor, NEW x \in DOMAIN aor[n]
      PROVE  RecordOk(n, aor[n][x], query, id)'
  <2> DEFINE r == aor[n][x]
  <2>1. RecordOk(n, r, query, id) /\ r.over \in Nat
    BY <1>1 DEF RecordsOk, RecordOk, Record
  <2> HIDE DEF r
  <2>2. r.over <= last' /\ (r.over \in DOMAIN event' => event'[r.over] = r.by)
    BY <1>1, <2>1 DEF RecordOk, OverItsOwn, Sockets
  <2> QED BY <2>1, <2>2 DEF RecordOk, Routed, AsksForItself, Awaits, OverItsOwn, r
<1>3. \A n \in DOMAIN aor' : RecordsOk(n, aor[n], query, id)'
  BY <1>1, <1>2 DEF RecordsOk, Distinct
<1>4. QueriesOk(query, id)' /\ AnswersOk(query, answer, id)'
  BY <1>1 DEF QueriesOk, AnswersOk
<1> QED BY <1>3, <1>4 DEF IInv

LEMMA ConnectIInv ==
    ASSUME IInv, NEW c \in Contact, Connect(c)
    PROVE  IInv'
<1>1. Sockets /\ last' = last + 1
      /\ event' = [e \in DOMAIN event \cup {last'} |-> IF e = last' THEN c ELSE event[e]]
      /\ UNCHANGED <<aor, query, answer, id, called, unknown>>
  BY DEF IInv, Connect
<1>2. Sockets'
  BY <1>1 DEF Sockets, Peer
<1> QED BY <1>1, <1>2, SocketsIInv DEF Sockets

LEMMA ClosedIInv ==
    ASSUME IInv, NEW e \in DOMAIN event, Closed(e)
    PROVE  IInv'
<1>1. Sockets
  BY DEF IInv
<1>2. CASE event[e] # Everyone
  <2>1. event' = [f \in DOMAIN event \ {e} |-> event[f]] /\ UNCHANGED last
    BY <1>2 DEF Closed
  <2> QED BY <1>1, <2>1, SocketsIInv DEF Sockets, Closed
<1>3. CASE event[e] = Everyone
  <2>1. /\ last' = last + 1
        /\ event' = [f \in (DOMAIN event \ {e}) \cup {last'} |->
                       IF f = last' THEN Everyone ELSE event[f]]
    BY <1>3 DEF Closed
  <2> QED BY <1>1, <2>1, SocketsIInv DEF Sockets, Closed, Peer
<1> QED BY <1>2, <1>3

\* Time changes the expiry of a record only.
LEMMA TickIInv ==
    ASSUME IInv, Tick
    PROVE  IInv'
<1>1. /\ Sockets /\ called \in [1..MaxQuery -> {0, 1}]
      /\ DOMAIN aor \subseteq Name /\ id <= MaxQuery
      /\ \A n \in DOMAIN aor : RecordsOk(n, aor[n], query, id)
      /\ QueriesOk(query, id) /\ AnswersOk(query, answer, id)
  BY DEF IInv
<1>2. aor' = [n \in DOMAIN aor |-> [x \in DOMAIN aor[n] |-> Passes(aor[n][x])]]
      /\ UNCHANGED <<query, answer, id, called, unknown, event, last>>
  BY DEF Tick
<1>3. ASSUME NEW r \in Record
      PROVE  /\ Passes(r) \in Record /\ Passes(r).contact = r.contact
             /\ Passes(r).over = r.over /\ Passes(r).by = r.by /\ Passes(r).route = r.route
             /\ Passes(r).asked = r.asked
  BY DEF Record, Passes, Learned
<1>4. ASSUME NEW n \in DOMAIN aor
      PROVE  RecordsOk(n, aor'[n], query', id')
  <2> DEFINE R == aor[n]
             S == aor'[n]
  <2>1. RecordsOk(n, R, query, id) /\ R \in Seq(Record) /\ \A x \in DOMAIN R : R[x] \in Record
    BY <1>1 DEF RecordsOk, RecordOk
  <2>2. S = [x \in DOMAIN R |-> Passes(R[x])]
    BY <1>2
  <2> HIDE DEF R, S
  <2>3. DOMAIN S = DOMAIN R /\ S \in Seq(Record)
    <3>1. S \in [1..Len(R) -> Record] /\ Len(R) \in Nat
      BY <1>3, <2>1, <2>2
    <3> QED BY <3>1, <2>2, SeqDef
  <2>4. ASSUME NEW x \in DOMAIN R
        PROVE  RecordOk(n, S[x], query, id) /\ S[x].contact = R[x].contact
    <3>1. RecordOk(n, R[x], query, id) /\ R[x] \in Record /\ S[x] = Passes(R[x])
      BY <2>1, <2>2 DEF RecordsOk
    <3> QED BY <1>3, <3>1 DEF RecordOk, Routed, AsksForItself, Awaits, OverItsOwn
  <2>5. RecordsOk(n, S, query, id)
    BY <2>1, <2>3, <2>4 DEF RecordsOk, Distinct
  <2> QED BY <1>2, <2>5 DEF S
<1> QED BY <1>1, <1>2, <1>4, Carried

LEMMA NextIInv ==
    ASSUME IInv, [Next]_vars
    PROVE  IInv'
<1>1. CASE UNCHANGED vars
  <2>1. UNCHANGED <<aor, query, answer, id, called, unknown, event, last>>
    BY <1>1 DEF vars
  <2> QED BY <2>1, Carried DEF IInv
<1>2. CASE Next
  BY <1>2, RegisterIInv, LearnIInv, AnswerIInv, ResolverFailsIInv, ConnectIInv, ClosedIInv,
     TickIInv DEF Next
<1> QED BY <1>1, <1>2

\* The invariant holds in every state.
THEOREM Registry == Spec => []IInv
<1>1. Init => IInv
  BY InitIInv
<1>2. IInv /\ [Next]_vars => IInv'
  BY NextIInv
<1> QED BY <1>1, <1>2, PTL DEF Spec

-----------------------------------------------------------------------------
(* What follows *)

\* sip_relay over the connection of the record reaches who registered it, or
\* over its route the host of its contact: the least eligible record is one of
\* them.
LEMMA IInvReaches == IInv => ReachesContact
<1> SUFFICES ASSUME IInv, NEW n \in DOMAIN aor, NEW invite \in BOOLEAN,
                    Eligible(n, invite) # {}, id < Ids
             PROVE  LET r == aor[n][Min(Eligible(n, invite))]
                    IN Reaches(r) = Host[IF Connected(r) THEN r.by ELSE r.contact]
  BY DEF ReachesContact
<1> DEFINE E == Eligible(n, invite)
           x == Min(E)
<1>1. RecordsOk(n, aor[n], query, id)
  BY DEF IInv
<1>2. E \subseteq 1..Len(aor[n]) /\ E # {} /\ DOMAIN aor[n] = 1..Len(aor[n])
  BY <1>1 DEF RecordsOk, Eligible
<1>3. x \in E
  <2>1. E \subseteq Nat
    BY <1>2
  <2> HIDE DEF E
  <2> QED BY <1>2, <2>1, LeastIsThere
<1> HIDE DEF x
<1>4. x \in DOMAIN aor[n] /\ aor[n][x].route # None
  BY <1>3 DEF Eligible
<1> DEFINE r == aor[n][x]
<1>5. RecordOk(n, r, query, id) /\ r.route # None
  BY <1>1, <1>4 DEF RecordsOk
<1> HIDE DEF r
<1>6. Reaches(r) = Host[IF Connected(r) THEN r.by ELSE r.contact]
  BY <1>5 DEF RecordOk, Routed, OverItsOwn, Reaches, Connected
<1> QED BY <1>6 DEF r, x, E

\* A query that waits was not called back, and a record that has no route waits
\* for its own, which no other record of the name asked.
LEMMA IInvReturn == IInv => QueriesReturn
<1> SUFFICES ASSUME IInv PROVE QueriesReturn
  OBVIOUS
<1>1. /\ QueriesOk(query, id) /\ called \in [1..MaxQuery -> {0, 1}]
      /\ \A n \in DOMAIN aor : RecordsOk(n, aor[n], query, id)
  BY DEF IInv
<1>2. CalledOnce
  <2> SUFFICES ASSUME NEW q \in DOMAIN called
               PROVE  called[q] + Cardinality({k \in query : k.id = q}) <= 1
    BY DEF CalledOnce
  <2>1. CASE \E k \in query : k.id = q
    <3>1. Cardinality({k \in query : k.id = q}) = 1
      BY <1>1, <2>1, OneQuery
    <3>2. called[q] = 0
      BY <1>1, <2>1 DEF QueriesOk
    <3> QED BY <3>1, <3>2
  <2>2. CASE ~\E k \in query : k.id = q
    <3>1. Cardinality({k \in query : k.id = q}) = 0
      BY <1>1, <2>2, OneQuery
    <3>2. called[q] \in {0, 1}
      BY <1>1
    <3> QED BY <3>1, <3>2
  <2> QED BY <2>1, <2>2
<1>3. RouteAwaited
  <2> SUFFICES ASSUME NEW n \in DOMAIN aor, NEW x \in DOMAIN aor[n]
               PROVE  LET r == aor[n][x]
                      IN /\ IndexOf(aor[n], r.contact) = {x}
                         /\ r.route = None => \/ r.asked = Unsent \/ r.asked \in unknown
                                              \/ \E k \in query : k.id = r.asked /\ k.lent
    BY DEF RouteAwaited
  <2>1. RecordsOk(n, aor[n], query, id)
    BY <1>1
  <2>2. IndexOf(aor[n], aor[n][x].contact) = {x}
    BY <2>1 DEF RecordsOk, Distinct, IndexOf
  <2>3. Awaits(aor[n][x], query)
    BY <2>1 DEF RecordsOk, RecordOk
  <2> QED BY <2>2, <2>3 DEF Awaits
<1> QED BY <1>2, <1>3 DEF QueriesReturn

\* sip_proxy: for any contacts, requests and sockets a request for a name goes
\* over the open connection its contact was registered over, to who is at the
\* other end of that, and otherwise to the host of the contact, as long as the
\* ids of the queries fit.
THEOREM ReachesItsContact == Spec => []ReachesContact
  BY Registry, IInvReaches, PTL

\* Every query is called back at most once, and every record without a route
\* waits for its own query, was told there is no address or could not ask.
THEOREM QueriesAreReturned == Spec => []QueriesReturn
  BY Registry, IInvReturn, PTL
=============================================================================
