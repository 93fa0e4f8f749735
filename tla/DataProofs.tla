----------------------------- MODULE DataProofs -----------------------------
(***************************************************************************)
(* What is proved of Path and Mqtt, which the run Data takes together: for *)
(* any number of gateways, every answer goes back the way its request      *)
(* came; for any request and whatever a broker sends, packets are sent and *)
(* read exactly, and a call reaches its method.                            *)
(*                                                                         *)
(* Path: the invariant relates the Vias of neighbours, what a client       *)
(* transaction has noted to what it has sent, and what is under way to     *)
(* either.  A cut call is what needs care: its answer names a gateway      *)
(* whose transaction must be gone by then, and must never come back.       *)
(*                                                                         *)
(* Mqtt: two facts carry the rest.  The digits of a length are read back   *)
(* as the length (HeaderBack), so that what is packed announces what it    *)
(* is; and what is read of a packet is the same for each two buffers of    *)
(* which one begins the other (UnpackPrefix), so that neither a cut nor    *)
(* what is behind matters.                                                 *)
(***************************************************************************)
EXTENDS Path, Mqtt, FiniteSetTheorems, TLAPS

\* Null is none of what it stands for.
Apart ==
  /\ Limits \subseteq Nat \cup {Null}
  /\ Null \notin Nat /\ Null \notin Request /\ Null \notin Response

\* Each gateway was asked what the hop before it has sent, and put its Via on
\* top of what it has sent itself.
Chain ==
  /\ Here >= 1 /\ hop[1].sent # Null /\ hop[1].sent.vias = <<1>> /\ ~hop[1].query
  /\ \A n \in 2..Here :
       /\ hop[n].asked # Null /\ hop[n - 1].sent # Null
       /\ hop[n].asked.vias = hop[n - 1].sent.vias
       /\ hop[n].sent # Null => hop[n].sent.vias = <<n>> \o hop[n].asked.vias

\* A client transaction begins when Route returns the request, which it does
\* once; what it has noted is an answer to what it has sent.
Begun ==
  \A n \in 2..Here :
    /\ hop[n].client => hop[n].sent # Null
    /\ hop[n].query => hop[n].sent = Null
    /\ hop[n].last # Null =>
         /\ hop[n].sent # Null /\ hop[n].last.status = "provisional"
         /\ hop[n].last.vias = hop[n].sent.vias

\* The answer m of hop n to a call that was cut: nothing waits for it there.
Cut(m, n) ==
  /\ m.status = "provisional" /\ n \in 2..Here
  /\ hop[n].sent # Null /\ ~hop[n].client /\ m.vias = hop[n].sent.vias

OnItsWay ==
  /\ \A x \in reply :
       x.message.vias = hop[x.hop].asked.vias \/ Cut(x.message, x.hop)
  /\ \A r \in answer :
       /\ hop[r.hop].sent # Null
       /\ r.message.vias = hop[r.hop].sent.vias \/ Cut(r.message, r.hop + 1)

IInv == TypeOK /\ Chain /\ Begun /\ OnItsWay

-----------------------------------------------------------------------------
\* A Via goes on top of others and comes off again.
LEMMA Top ==
  ASSUME NEW n \in Nat, NEW s \in Seq(Nat)
  PROVE  /\ <<n>> \o s \in Seq(Nat) /\ <<n>> \o s # <<>>
         /\ Head(<<n>> \o s) = n /\ Tail(<<n>> \o s) = s
  OBVIOUS

\* At the first hop nothing has been answered yet.
LEMMA InitIInv ==
  ASSUME Apart, Init
  PROVE  IInv
<1>0. answer = {} /\ reply = {}
  BY DEF Init
<1> PICK n \in Limits :
      hop = << [Hop(Null) EXCEPT !.server = FALSE, !.query = FALSE, !.client = TRUE,
                  !.sent = [vias |-> <<1>>, record |-> <<>>, forwards |-> n]] >>
  BY DEF Init
<1> DEFINE q == [vias |-> <<1>>, record |-> <<>>, forwards |-> n]
           x == [Hop(Null) EXCEPT !.server = FALSE, !.query = FALSE, !.client = TRUE, !.sent = q]
<1>5. <<1>> \in Seq(Nat) /\ <<>> \in Seq(Nat)
  OBVIOUS
<1>1. q \in Request /\ q.vias = <<1>> /\ q # Null
  <2>1. n \in Nat \cup {Null}
    BY DEF Apart
  <2>2. q \in Request
    BY <1>5, <2>1 DEF Request
  <2>3. q.vias = <<1>>
    OBVIOUS
  <2> QED
    BY <2>2, <2>3 DEF Apart
<1> HIDE DEF q
<1>2. x \in Shape /\ x.sent = q /\ ~x.query
  BY <1>1 DEF Shape, Hop
<1> HIDE DEF x
<1>3. hop = <<x>>
  BY DEF x, q
<1>4. hop \in Seq(Shape) /\ Len(hop) = 1 /\ hop[1] = x
  BY <1>2, <1>3
<1> QED
  BY <1>0, <1>1, <1>2, <1>4 DEF IInv, TypeOK, Chain, Begun, OnItsWay, Here

\* An answer that is sent back has its Vias from the invariant.
LEMMA IInvShows == IInv => AnswersRetrace
<1> SUFFICES ASSUME IInv, NEW r \in answer
             PROVE  \/ r.message.vias = hop[r.hop].sent.vias
                    \/ /\ r.message.status = "provisional"
                       /\ r.message.vias = <<r.hop + 1>> \o hop[r.hop].sent.vias
  BY DEF AnswersRetrace
<1>1. CASE r.message.vias = hop[r.hop].sent.vias
  BY <1>1
<1>2. CASE Cut(r.message, r.hop + 1)
  <2>1. r.hop \in Nat /\ (r.hop + 1) - 1 = r.hop
    BY DEF IInv, TypeOK
  <2> QED
    BY <1>2, <2>1 DEF IInv, Chain, Cut
<1> QED
  BY <1>1, <1>2 DEF IInv, OnItsWay

-----------------------------------------------------------------------------
(* What every step keeps *)

\* What was asked and sent stays, and a call that was cut stays cut.
Steady ==
  /\ \A k \in 1..Here :
       /\ k \in 1..Here' /\ hop'[k].asked = hop[k].asked
       /\ hop[k].sent # Null => hop'[k].sent = hop[k].sent
  /\ \A m, k : Cut(m, k) => Cut(m, k)'

\* What is new under way is as it should be.
NewRight ==
  /\ \A x \in reply' \ reply :
       x.message.vias = hop'[x.hop].asked.vias \/ Cut(x.message, x.hop)'
  /\ \A r \in answer' \ answer :
       /\ hop'[r.hop].sent # Null
       /\ r.message.vias = hop'[r.hop].sent.vias \/ Cut(r.message, r.hop + 1)'

\* What was under way stays so, when the Vias of its hops stay.
LEMMA StaysOnItsWay ==
  ASSUME TypeOK, OnItsWay, Steady, NewRight
  PROVE  OnItsWay'
<1>1. ASSUME NEW x \in reply'
      PROVE  x.message.vias = hop'[x.hop].asked.vias \/ Cut(x.message, x.hop)'
  <2>1. CASE x \notin reply
    BY <2>1 DEF NewRight
  <2>2. CASE x \in reply
    <3>1. x.hop \in 1..Here
      BY <2>2 DEF TypeOK
    <3> QED
      BY <2>2, <3>1 DEF OnItsWay, Steady
  <2> QED
    BY <2>1, <2>2
<1>2. ASSUME NEW r \in answer'
      PROVE  /\ hop'[r.hop].sent # Null
             /\ r.message.vias = hop'[r.hop].sent.vias \/ Cut(r.message, r.hop + 1)'
  <2>1. CASE r \notin answer
    BY <2>1 DEF NewRight
  <2>2. CASE r \in answer
    <3>1. r.hop \in 1..Here
      BY <2>2 DEF TypeOK
    <3> QED
      BY <2>2, <3>1 DEF OnItsWay, Steady
  <2> QED
    BY <2>1, <2>2
<1> QED
  BY <1>1, <1>2 DEF OnItsWay

\* Hop n becomes x.
LEMMA OneHop ==
  ASSUME TypeOK, NEW n \in 1..Here, NEW x \in Shape, hop' = [hop EXCEPT ![n] = x]
  PROVE  /\ hop' \in Seq(Shape) /\ Here' = Here
         /\ hop'[n] = x /\ \A k \in 1..Here : k # n => hop'[k] = hop[k]
  BY DEF TypeOK, Here

\* Hop n keeps what it was asked and has sent, and begins nothing.
LEMMA Goes ==
  ASSUME IInv, NEW n \in 2..Here, NEW x \in Shape, hop' = [hop EXCEPT ![n] = x],
         x.asked = hop[n].asked, x.sent = hop[n].sent,
         x.client => hop[n].client, x.query => hop[n].query,
         \/ x.last = hop[n].last
         \/ /\ hop[n].sent # Null /\ x.last.status = "provisional"
            /\ x.last.vias = hop[n].sent.vias
  PROVE  hop' \in Seq(Shape) /\ Here' = Here /\ Chain' /\ Begun' /\ Steady
<1>0. Here \in Nat /\ n \in 1..Here
  BY DEF IInv, TypeOK, Here
<1>1. /\ hop' \in Seq(Shape) /\ Here' = Here
      /\ hop'[n] = x /\ \A k \in 1..Here : k # n => hop'[k] = hop[k]
  BY <1>0, OneHop DEF IInv
<1>2. \A k \in 1..Here : hop'[k].asked = hop[k].asked /\ hop'[k].sent = hop[k].sent
  BY <1>1
<1>3. \A k \in 2..Here : k \in 1..Here /\ k - 1 \in 1..Here
  BY <1>0
<1>4. Chain'
  <2>1. Here >= 1 /\ 1 \in 1..Here /\ 1 # n
    BY <1>0
  <2>2. hop'[1] = hop[1]
    BY <2>1, <1>1
  <2>3. ASSUME NEW k \in 2..Here
        PROVE  /\ hop'[k].asked = hop[k].asked /\ hop'[k].sent = hop[k].sent
               /\ hop'[k - 1].sent = hop[k - 1].sent
    BY <1>2, <1>3
  <2>4. \A k \in 2..Here :
          /\ hop'[k].asked # Null /\ hop'[k - 1].sent # Null
          /\ hop'[k].asked.vias = hop'[k - 1].sent.vias
          /\ hop'[k].sent # Null => hop'[k].sent.vias = <<k>> \o hop'[k].asked.vias
    <3>1. \A k \in 2..Here :
            /\ hop[k].asked # Null /\ hop[k - 1].sent # Null
            /\ hop[k].asked.vias = hop[k - 1].sent.vias
            /\ hop[k].sent # Null => hop[k].sent.vias = <<k>> \o hop[k].asked.vias
      BY DEF IInv, Chain
    <3> TAKE k \in 2..Here
    <3> QED
      BY <2>3, <3>1
  <2>5. hop'[1].sent # Null /\ hop'[1].sent.vias = <<1>> /\ ~hop'[1].query
    BY <2>2 DEF IInv, Chain
  <2> QED
    BY <2>1, <2>4, <2>5, <1>1 DEF Chain
<1>5. Begun'
  <2>1. ASSUME NEW k \in 2..Here, k # n
        PROVE  hop'[k] = hop[k]
    BY <1>1, <1>3, <2>1
  <2> QED
    BY <1>1, <2>1 DEF IInv, Begun
<1>6. Steady
  <2>1. ASSUME NEW m, NEW k, Cut(m, k) PROVE Cut(m, k)'
    BY <2>1, <1>1, <1>2, <1>3 DEF Cut
  <2> QED
    BY <2>1, <1>1, <1>2 DEF Steady
<1> QED
  BY <1>1, <1>4, <1>5, <1>6

-----------------------------------------------------------------------------
(* The steps *)

\* What a hop is made of.
LEMMA HopsAre ==
  ASSUME TypeOK
  PROVE  /\ Here \in Nat /\ \A k \in 1..Here : hop[k] \in Shape
         /\ \A k \in 2..Here : k \in 1..Here /\ k - 1 \in 1..Here
  BY DEF TypeOK, Here

\* The topmost Via of what a hop has sent is its own.
LEMMA OwnVia ==
  ASSUME IInv, NEW n \in 1..Here, hop[n].sent # Null
  PROVE  /\ hop[n].sent \in Request /\ Head(hop[n].sent.vias) = n
         /\ n # 1 => /\ hop[n].asked # Null /\ hop[n].asked \in Request
                     /\ Tail(hop[n].sent.vias) = hop[n].asked.vias
<1>1. Here \in Nat /\ hop[n] \in Shape /\ hop[n].sent \in Request
  BY HopsAre DEF IInv, Shape
<1>2. CASE n = 1
  <2>1. hop[n].sent.vias = <<1>>
    BY <1>2 DEF IInv, Chain
  <2>2. Head(<<1>>) = 1
    OBVIOUS
  <2> QED
    BY <1>1, <1>2, <2>1, <2>2
<1>3. CASE n # 1
  <2>1. n \in 2..Here /\ n \in Nat
    BY <1>1, <1>3
  <2>2. /\ hop[n].asked # Null /\ hop[n].asked \in Request
        /\ hop[n].sent.vias = <<n>> \o hop[n].asked.vias
    BY <1>1, <2>1 DEF IInv, Chain, Shape
  <2>3. hop[n].asked.vias \in Seq(Nat)
    BY <2>2 DEF Request
  <2> QED
    BY <1>1, <2>1, <2>2, <2>3, Top
<1> QED
  BY <1>2, <1>3

\* Either transaction of a hop ends; a call that waits is answered by its hop.
LEMMA SipDestroyStep ==
  ASSUME Apart, IInv, sip_destroy
  PROVE  IInv'
<1> PICK n \in 2..Here :
      \/ /\ hop[n].client
         /\ hop' = [hop EXCEPT ![n].client = FALSE]
         /\ Replies(n, Unanswered(hop[n]))
      \/ /\ hop[n].server
         /\ hop' = [hop EXCEPT ![n].server = FALSE]
         /\ UNCHANGED reply
  BY DEF sip_destroy
<1>1. answer' = answer
  BY DEF sip_destroy
<1>2. /\ Here \in Nat /\ n \in 1..Here /\ n - 1 \in 1..Here /\ hop[n] \in Shape
  BY HopsAre DEF IInv
<1>3. CASE hop[n].server /\ hop' = [hop EXCEPT ![n].server = FALSE] /\ UNCHANGED reply
  <2> DEFINE x == [hop[n] EXCEPT !.server = FALSE]
  <2>1. /\ x \in Shape /\ x.asked = hop[n].asked /\ x.sent = hop[n].sent
        /\ x.client = hop[n].client /\ x.query = hop[n].query /\ x.last = hop[n].last
    BY <1>2 DEF Shape
  <2>2. hop' = [hop EXCEPT ![n] = x]
    BY <1>3
  <2> HIDE DEF x
  <2>3. hop' \in Seq(Shape) /\ Here' = Here /\ Chain' /\ Begun' /\ Steady
    BY <2>1, <2>2, Goes
  <2>4. NewRight
    BY <1>1, <1>3 DEF NewRight
  <2>5. OnItsWay'
    BY <2>3, <2>4, StaysOnItsWay DEF IInv
  <2> QED
    BY <2>3, <2>5, <1>1, <1>3 DEF IInv, TypeOK
<1>4. CASE /\ hop[n].client /\ hop' = [hop EXCEPT ![n].client = FALSE]
           /\ Replies(n, Unanswered(hop[n]))
  <2> DEFINE x == [hop[n] EXCEPT !.client = FALSE]
  <2> PICK m : m = Unanswered(hop[n])
    OBVIOUS
  <2>1. /\ x \in Shape /\ x.asked = hop[n].asked /\ x.sent = hop[n].sent
        /\ x.client = FALSE /\ x.query = hop[n].query /\ x.last = hop[n].last
    BY <1>2 DEF Shape
  <2>2. hop' = [hop EXCEPT ![n] = x]
    BY <1>4
  <2> HIDE DEF x
  <2>3. hop' \in Seq(Shape) /\ Here' = Here /\ Chain' /\ Begun' /\ Steady
    BY <2>1, <2>2, Goes
  <2>4. hop'[n] = x
    BY <2>2, <1>2, <2>1, OneHop DEF IInv
  <2>5. hop[n].sent # Null /\ n # 1
    BY <1>2, <1>4 DEF IInv, Begun
  <2>6. /\ m \in Response
        /\ \/ m.vias = hop[n].asked.vias
           \/ m.status = "provisional" /\ m.vias = hop[n].sent.vias
    <3>1. CASE hop[n].last = Null
      <4>1. hop[n].sent \in Request /\ hop[n].asked \in Request
        BY <1>2, <2>5, OwnVia
      <4>2. Tail(hop[n].sent.vias) = hop[n].asked.vias
        BY <1>2, <2>5, OwnVia
      <4>3. m = [status |-> "failure", vias |-> hop[n].asked.vias,
                 record |-> hop[n].sent.record]
        BY <3>1, <4>2
           DEF Unanswered, sip_message_remove_top_via, sip_response_new
      <4> QED
        BY <4>1, <4>3 DEF Response, Status, Request
    <3>2. CASE hop[n].last # Null
      <4>1. m = hop[n].last
        BY <3>2 DEF Unanswered
      <4>2. m \in Response
        BY <4>1, <3>2, <1>2 DEF Shape
      <4> QED
        BY <4>1, <4>2, <3>2 DEF IInv, Begun
    <3> QED
      BY <3>1, <3>2
  <2>7. reply' = reply \cup {[hop |-> n, message |-> m]}
    BY <1>4 DEF Replies
  <2>8. NewRight
    <3>1. m.vias = hop'[n].asked.vias \/ Cut(m, n)'
      BY <2>1, <2>3, <2>4, <2>5, <2>6 DEF Cut
    <3> QED
      BY <3>1, <2>7, <1>1 DEF NewRight
  <2>9. OnItsWay'
    BY <2>3, <2>8, StaysOnItsWay DEF IInv
  <2>10. reply' \subseteq [hop : 2..Here, message : Response]
    BY <2>6, <2>7 DEF IInv, TypeOK
  <2> QED
    BY <2>3, <2>9, <2>10, <1>1 DEF IInv, TypeOK
<1> QED
  BY <1>3, <1>4

\* A hop notes or passes on an answer without its own Via.
LEMMA ReceiveResponseStep ==
  ASSUME Apart, IInv, ReceiveResponse
  PROVE  IInv'
<1> PICK r \in answer :
      LET m == r.message
          n == Head(m.vias)
      IN /\ n \in 2..Here /\ hop[n].client
         /\ IF m.status \in Final
            THEN /\ hop' = [hop EXCEPT ![n].client = FALSE]
                 /\ Replies(n, sip_message_remove_top_via(m))
            ELSE hop' = [hop EXCEPT ![n].last = m] /\ UNCHANGED reply
  BY DEF ReceiveResponse
<1> PICK m : m = r.message
  OBVIOUS
<1> PICK n : n = Head(m.vias)
  OBVIOUS
<1>1. /\ n \in 2..Here /\ hop[n].client
      /\ IF m.status \in Final
         THEN /\ hop' = [hop EXCEPT ![n].client = FALSE]
              /\ Replies(n, sip_message_remove_top_via(m))
         ELSE hop' = [hop EXCEPT ![n].last = m] /\ UNCHANGED reply
  OBVIOUS
<1>2. answer' = answer
  BY DEF ReceiveResponse
<1>3. /\ Here \in Nat /\ n \in 1..Here /\ n # 1 /\ hop[n] \in Shape /\ hop[n].sent # Null
  BY <1>1, HopsAre DEF IInv, Begun
<1>4. m \in Response /\ r.hop \in 1..Here
  BY DEF IInv, TypeOK
\* The answer is to what the hop has sent: one to a call that was cut would
\* find no transaction.
<1>5. m.vias = hop[n].sent.vias
  <2>1. CASE m.vias = hop[r.hop].sent.vias
    <3>1. Head(m.vias) = r.hop
      BY <2>1, <1>4, OwnVia DEF IInv, OnItsWay
    <3> QED
      BY <2>1, <3>1
  <2>2. CASE Cut(m, r.hop + 1)
    <3> PICK k : k = r.hop + 1
      OBVIOUS
    <3>1. /\ k \in 2..Here /\ hop[k].sent # Null /\ ~hop[k].client
          /\ m.vias = hop[k].sent.vias
      BY <2>2 DEF Cut
    <3>2. k \in 1..Here
      BY <3>1, HopsAre DEF IInv
    <3>3. Head(m.vias) = k
      BY <3>1, <3>2, OwnVia
    <3> QED
      BY <3>1, <3>3, <1>1
  <2> QED
    BY <2>1, <2>2 DEF IInv, OnItsWay
<1>6. CASE m.status \in Final
  <2> DEFINE x == [hop[n] EXCEPT !.client = FALSE]
  <2>1. /\ x \in Shape /\ x.asked = hop[n].asked /\ x.sent = hop[n].sent
        /\ x.client = FALSE /\ x.query = hop[n].query /\ x.last = hop[n].last
    BY <1>3 DEF Shape
  <2>2. hop' = [hop EXCEPT ![n] = x]
    BY <1>1, <1>6
  <2> HIDE DEF x
  <2>3. hop' \in Seq(Shape) /\ Here' = Here /\ Chain' /\ Begun' /\ Steady
    BY <1>1, <2>1, <2>2, Goes
  <2>4. hop'[n] = x
    BY <2>2, <1>3, <2>1, OneHop DEF IInv
  <2> PICK y : y = sip_message_remove_top_via(m)
    OBVIOUS
  <2>5. y.vias = hop[n].asked.vias /\ y \in Response
    <3>1. hop[n].asked \in Request /\ Tail(m.vias) = hop[n].asked.vias
      BY <1>3, <1>5, OwnVia
    <3>2. hop[n].asked.vias \in Seq(Nat)
      BY <3>1 DEF Request
    <3> QED
      BY <1>4, <3>1, <3>2 DEF sip_message_remove_top_via, Response
  <2>6. reply' = reply \cup {[hop |-> n, message |-> y]}
    BY <1>1, <1>6 DEF Replies
  <2>7. NewRight
    <3>1. y.vias = hop'[n].asked.vias
      BY <2>1, <2>4, <2>5
    <3> QED
      BY <3>1, <2>6, <1>2 DEF NewRight
  <2>8. OnItsWay'
    BY <2>3, <2>7, StaysOnItsWay DEF IInv
  <2>9. reply' \subseteq [hop : 2..Here, message : Response]
    BY <1>1, <2>5, <2>6 DEF IInv, TypeOK
  <2> QED
    BY <2>3, <2>8, <2>9, <1>2 DEF IInv, TypeOK
<1>7. CASE m.status \notin Final
  <2> DEFINE x == [hop[n] EXCEPT !.last = m]
  <2>1. /\ x \in Shape /\ x.asked = hop[n].asked /\ x.sent = hop[n].sent
        /\ x.client = hop[n].client /\ x.query = hop[n].query /\ x.last = m
    BY <1>3, <1>4 DEF Shape
  <2>2. hop' = [hop EXCEPT ![n] = x]
    BY <1>1, <1>7
  <2> HIDE DEF x
  <2>3. m.status = "provisional"
    BY <1>4, <1>7 DEF Response, Final, Status
  <2>4. hop' \in Seq(Shape) /\ Here' = Here /\ Chain' /\ Begun' /\ Steady
    <3>1. n \in 2..Here
      BY <1>1
    <3>2. /\ hop[n].sent # Null /\ x.last.status = "provisional"
          /\ x.last.vias = hop[n].sent.vias
      BY <1>3, <1>5, <2>1, <2>3
    <3> QED
      BY <3>1, <3>2, <2>1, <2>2, Goes
  <2>5. NewRight
    BY <1>1, <1>2, <1>7 DEF NewRight
  <2>6. OnItsWay'
    BY <2>4, <2>5, StaysOnItsWay DEF IInv
  <2> QED
    BY <2>4, <2>6, <1>1, <1>2, <1>7 DEF IInv, TypeOK
<1> QED
  BY <1>6, <1>7

\* A hop answers with what its call returned, or with a failure.
LEMMA SipFinalizeStep ==
  ASSUME Apart, IInv, sip_finalize
  PROVE  IInv'
<1> PICK x \in reply :
      LET n == x.hop
      IN /\ reply' = reply \ {x}
         /\ \/ ~hop[n].server /\ UNCHANGED <<hop, answer>>
            \/ \E m \in {x.message, sip_response_new(hop[n].asked, "failure")}
                    \cup (IF x.message.status = "success"
                          THEN {sip_response(x.message, "failure")} ELSE {}) :
                 /\ hop[n].server
                 /\ hop' = [hop EXCEPT ![n].server = m.status \notin Final]
                 /\ Answers(n, m)
  BY DEF sip_finalize
<1> PICK n : n = x.hop
  OBVIOUS
<1>1. /\ Here \in Nat /\ n \in 2..Here /\ n \in 1..Here /\ n - 1 \in 1..Here
      /\ hop[n] \in Shape /\ x.message \in Response
  BY HopsAre DEF IInv, TypeOK
<1>2. reply' \subseteq reply
  OBVIOUS
<1>3. CASE UNCHANGED <<hop, answer>>
  <2>1. Steady /\ Here' = Here
    BY <1>3 DEF Steady, Cut, Here
  <2>2. NewRight
    BY <1>2, <1>3 DEF NewRight
  <2>3. OnItsWay'
    BY <2>1, <2>2, StaysOnItsWay DEF IInv
  <2> QED
    BY <1>2, <1>3, <2>1, <2>3 DEF IInv, TypeOK, Chain, Begun
<1>4. CASE ~UNCHANGED <<hop, answer>>
  <2> PICK m \in {x.message, sip_response_new(hop[n].asked, "failure")}
             \cup (IF x.message.status = "success"
                   THEN {sip_response(x.message, "failure")} ELSE {}) :
        /\ hop[n].server
        /\ hop' = [hop EXCEPT ![n].server = m.status \notin Final]
        /\ Answers(n, m)
    BY <1>4
  <2> DEFINE y == [hop[n] EXCEPT !.server = m.status \notin Final]
  <2>1. /\ y \in Shape /\ y.asked = hop[n].asked /\ y.sent = hop[n].sent
        /\ y.client = hop[n].client /\ y.query = hop[n].query /\ y.last = hop[n].last
    BY <1>1 DEF Shape
  <2>2. hop' = [hop EXCEPT ![n] = y]
    OBVIOUS
  <2> HIDE DEF y
  <2>3. hop' \in Seq(Shape) /\ Here' = Here /\ Chain' /\ Begun' /\ Steady
    BY <1>1, <2>1, <2>2, Goes
  <2>4. /\ hop[n].asked \in Request /\ hop[n - 1].sent # Null
        /\ hop[n].asked.vias = hop[n - 1].sent.vias
    BY <1>1 DEF IInv, Chain, Shape
  <2>5. m \in Response
    <3>1. sip_response_new(hop[n].asked, "failure") \in Response
      BY <2>4 DEF sip_response_new, Response, Status, Request
    <3>2. sip_response(x.message, "failure") \in Response
      BY <1>1 DEF sip_response, Response, Status
    <3> QED
      BY <1>1, <3>1, <3>2
  <2>6. m.vias = hop[n].asked.vias \/ Cut(m, n)
    <3>1. x.message.vias = hop[n].asked.vias \/ Cut(x.message, n)
      BY DEF IInv, OnItsWay
    <3>2. x.message.status = "success" => ~Cut(x.message, n)
      BY DEF Cut
    <3> QED
      BY <3>1, <3>2 DEF sip_response_new, sip_response
  <2>7. answer' = answer \cup {[hop |-> n - 1, message |-> m]}
    BY DEF Answers
  <2>8. NewRight
    <3>1. hop'[n - 1].sent = hop[n - 1].sent
      BY <1>1, <2>3, <2>4 DEF Steady
    <3>2. m.vias = hop'[n - 1].sent.vias \/ Cut(m, n)'
      BY <2>3, <2>4, <2>6, <3>1 DEF Steady
    <3>3. n - 1 + 1 = n
      BY <1>1
    <3> QED
      BY <1>2, <2>4, <2>7, <3>1, <3>2, <3>3 DEF NewRight
  <2>9. OnItsWay'
    BY <2>3, <2>8, StaysOnItsWay DEF IInv
  <2>10. answer' \subseteq [hop : 1..Here, message : Response]
    BY <1>1, <2>5, <2>7 DEF IInv, TypeOK
  <2> QED
    BY <1>2, <2>3, <2>9, <2>10 DEF IInv, TypeOK
<1> QED
  BY <1>3, <1>4

\* The callee answers with the Vias it was asked with.
LEMMA CalleeAnswersStep ==
  ASSUME Apart, IInv, CalleeAnswers
  PROVE  IInv'
<1> PICK status \in Status : Answers(Here + 1, sip_response_new(hop[Here].sent, status))
  BY DEF CalleeAnswers
<1> PICK m : m = sip_response_new(hop[Here].sent, status)
  OBVIOUS
<1>1. /\ Here \in Nat /\ Here \in 1..Here /\ hop[Here].sent # Null
      /\ hop[Here].sent \in Request
  BY HopsAre DEF IInv, Chain, Shape, CalleeAnswers
<1>2. m \in Response /\ m.vias = hop[Here].sent.vias
  BY <1>1 DEF sip_response_new, Response, Request
<1>3. hop' = hop /\ reply' = reply /\ Here' = Here
  BY DEF CalleeAnswers, Here
<1>4. answer' = answer \cup {[hop |-> Here, message |-> m]}
  BY <1>1 DEF Answers
<1>5. Steady
  BY <1>3 DEF Steady, Cut
<1>6. NewRight
  BY <1>1, <1>2, <1>3, <1>4 DEF NewRight
<1>7. OnItsWay'
  BY <1>5, <1>6, StaysOnItsWay DEF IInv
<1>8. answer' \subseteq [hop : 1..Here, message : Response]
  BY <1>1, <1>2, <1>4 DEF IInv, TypeOK
<1> QED
  BY <1>3, <1>7, <1>8 DEF IInv, TypeOK, Chain, Begun

\* What hop n relays of q, and what is left of it if it cannot.
LEMMA RelayedIs ==
  ASSUME Apart, NEW q \in Request, NEW n \in Nat, Left(q) # Null
  PROVE  /\ Relayed(q, n) \in Request /\ Relayed(q, n).vias = <<n>> \o q.vias
         /\ Unrelayed(q, n) \in Request /\ Unrelayed(q, n).vias = q.vias
<1>1. q.vias \in Seq(Nat) /\ q.record \in Seq(Nat)
  BY DEF Request
<1>2. Left(q) \in Nat
  BY DEF Left, Request, SIP_DEFAULT_MAX_FORWARD
<1>3. <<n>> \o q.vias \in Seq(Nat) /\ <<n>> \o q.record \in Seq(Nat)
  BY <1>1, Top
<1>4. Relayed(q, n) = [q EXCEPT !.vias = <<n>> \o q.vias, !.forwards = Left(q),
                                !.record = <<n>> \o q.record]
  BY DEF Relayed, sip_message_add_record_route, Request
<1>5. Relayed(q, n) \in Request /\ Relayed(q, n).vias = <<n>> \o q.vias
  BY <1>2, <1>3, <1>4 DEF Request
<1>6. Unrelayed(q, n) = [Relayed(q, n) EXCEPT !.vias = Tail(<<n>> \o q.vias)]
  BY <1>5 DEF Unrelayed, sip_message_remove_top_via
<1>7. Unrelayed(q, n) = [Relayed(q, n) EXCEPT !.vias = q.vias]
  BY <1>1, <1>6, Top
<1> QED
  BY <1>1, <1>5, <1>7 DEF Request

\* Route puts a Via on top, or answers itself.
LEMMA SipProxyStep ==
  ASSUME Apart, IInv, sip_proxy
  PROVE  IInv'
<1> PICK n : n = Here
  OBVIOUS
<1> PICK q : q = hop[n].asked
  OBVIOUS
<1>1. answer' = answer /\ hop[n].query
  BY DEF sip_proxy
\* The caller has no query.
<1>2. /\ Here \in Nat /\ n \in Nat /\ n \in 2..Here /\ n \in 1..Here
      /\ hop[n] \in Shape /\ q \in Request
  <2>1. Here \in Nat /\ Here \in 2..Here
    BY <1>1, HopsAre DEF IInv, Chain
  <2> QED
    BY <2>1, HopsAre DEF IInv, Chain, Shape
<1>3. hop[n].sent = Null /\ ~hop[n].client /\ hop[n].last = Null
  BY <1>1, <1>2 DEF IInv, Begun
<1>4. CASE /\ Left(q) # Null /\ UNCHANGED reply
           /\ hop' = [hop EXCEPT ![n].query = FALSE, ![n].client = TRUE,
                                 ![n].sent = Relayed(q, n)]
  <2> PICK to : to = Relayed(q, n)
    OBVIOUS
  <2> DEFINE x == [hop[n] EXCEPT !.query = FALSE, !.client = TRUE, !.sent = to]
  <2>1. to \in Request /\ to # Null /\ to.vias = <<n>> \o q.vias
    <3>1. to \in Request /\ to.vias = <<n>> \o q.vias
      BY <1>2, <1>4, RelayedIs
    <3> QED
      BY <3>1 DEF Apart
  <2>2. /\ x \in Shape /\ x.asked = q /\ x.sent = to /\ x.query = FALSE
        /\ x.client = TRUE /\ x.last = Null
    BY <1>2, <1>3, <2>1 DEF Shape
  <2>3. hop' = [hop EXCEPT ![n] = x]
    BY <1>4
  <2> HIDE DEF x
  <2>4. /\ hop' \in Seq(Shape) /\ Here' = Here
        /\ hop'[n] = x /\ \A k \in 1..Here : k # n => hop'[k] = hop[k]
    BY <1>2, <2>2, <2>3, OneHop DEF IInv
  <2>5. \A k \in 2..Here : k \in 1..Here /\ k - 1 \in 1..Here /\ k - 1 # n
    BY <1>2
  <2>6. Chain'
    <3>1. \A k \in 1..Here : hop'[k].asked = hop[k].asked
      BY <2>2, <2>4
    <3>2. ASSUME NEW k \in 2..Here
          PROVE  /\ hop'[k].asked # Null /\ hop'[k - 1].sent # Null
                 /\ hop'[k].asked.vias = hop'[k - 1].sent.vias
                 /\ hop'[k].sent # Null => hop'[k].sent.vias = <<k>> \o hop'[k].asked.vias
      <4>1. hop'[k - 1] = hop[k - 1] /\ hop'[k].asked = hop[k].asked
        BY <2>4, <2>5, <3>1
      <4>2. hop'[k].sent # Null => hop'[k].sent.vias = <<k>> \o hop'[k].asked.vias
        BY <2>1, <2>2, <2>4, <2>5 DEF IInv, Chain
      <4> QED
        BY <4>1, <4>2 DEF IInv, Chain
    <3>3. Here >= 1 /\ 1 # n /\ 1 \in 1..Here
      BY <1>2
    <3>4. hop'[1] = hop[1]
      BY <3>3, <2>4
    <3>5. hop'[1].sent # Null /\ hop'[1].sent.vias = <<1>> /\ ~hop'[1].query
      BY <3>4 DEF IInv, Chain
    <3> QED
      BY <3>2, <3>3, <3>5, <2>4 DEF Chain
  <2>7. Begun'
    <3>1. \A k \in 2..Here : k # n => hop'[k] = hop[k]
      BY <2>4, <2>5
    <3> QED
      BY <3>1, <2>1, <2>2, <2>4 DEF IInv, Begun
  <2>8. Steady
    <3>1. ASSUME NEW m, NEW k, Cut(m, k) PROVE Cut(m, k)'
      <4>1. k # n /\ k \in 1..Here
        BY <3>1, <1>3, <2>5 DEF Cut
      <4> QED
        BY <3>1, <4>1, <2>4 DEF Cut
    <3> QED
      BY <3>1, <1>3, <2>2, <2>4 DEF Steady
  <2>9. NewRight
    BY <1>1, <1>4 DEF NewRight
  <2>10. OnItsWay'
    BY <2>8, <2>9, StaysOnItsWay DEF IInv
  <2> QED
    BY <2>4, <2>6, <2>7, <2>10, <1>1, <1>4 DEF IInv, TypeOK
<1>5. CASE /\ hop' = [hop EXCEPT ![n].query = FALSE]
           /\ \E m \in {q} \cup (IF Left(q) = Null THEN {} ELSE {Unrelayed(q, n)}) :
                Replies(n, sip_response(m, "failure"))
  <2> DEFINE x == [hop[n] EXCEPT !.query = FALSE]
  <2>1. /\ x \in Shape /\ x.asked = hop[n].asked /\ x.sent = hop[n].sent
        /\ x.client = hop[n].client /\ x.query = FALSE /\ x.last = hop[n].last
    BY <1>2 DEF Shape
  <2>2. hop' = [hop EXCEPT ![n] = x]
    BY <1>5
  <2> HIDE DEF x
  <2>3. hop' \in Seq(Shape) /\ Here' = Here /\ Chain' /\ Begun' /\ Steady
    BY <1>2, <2>1, <2>2, Goes
  <2> PICK m \in {q} \cup (IF Left(q) = Null THEN {} ELSE {Unrelayed(q, n)}) :
        Replies(n, sip_response(m, "failure"))
    BY <1>5
  <2> PICK y : y = sip_response(m, "failure")
    OBVIOUS
  <2>4. m \in Request /\ m.vias = q.vias
    <3>1. CASE m = q
      BY <3>1, <1>2
    <3>2. CASE Left(q) # Null /\ m = Unrelayed(q, n)
      BY <3>2, <1>2, RelayedIs
    <3> QED
      BY <3>1, <3>2
  <2>5. y \in Response /\ y.vias = q.vias
    BY <2>4 DEF sip_response, Response, Status, Request
  <2>6. reply' = reply \cup {[hop |-> n, message |-> y]}
    BY DEF Replies
  <2>7. NewRight
    BY <1>1, <1>2, <2>3, <2>5, <2>6 DEF NewRight, Steady
  <2>8. OnItsWay'
    BY <2>3, <2>7, StaysOnItsWay DEF IInv
  <2>9. reply' \subseteq [hop : 2..Here, message : Response]
    BY <1>2, <2>5, <2>6 DEF IInv, TypeOK
  <2> QED
    BY <2>3, <2>8, <2>9, <1>1 DEF IInv, TypeOK
<1> QED
  BY <1>4, <1>5 DEF sip_proxy

\* A hop joins the chain.
LEMMA Joins ==
  ASSUME Apart, IInv, NEW x \in Shape, hop' = Append(hop, x), hop[Here].sent # Null,
         x.asked # Null, x.asked.vias = hop[Here].sent.vias,
         x.sent = Null, ~x.client, x.last = Null
  PROVE  hop' \in Seq(Shape) /\ Here' = Here + 1 /\ Chain' /\ Begun' /\ Steady
<1>1. Here \in Nat /\ Here >= 1
  BY HopsAre DEF IInv, Chain
<1>2. /\ hop' \in Seq(Shape) /\ Here' = Here + 1
      /\ hop'[Here + 1] = x /\ \A k \in 1..Here : hop'[k] = hop[k]
  BY DEF IInv, TypeOK, Here
<1>3. \A k \in 2..(Here + 1) : k - 1 \in 1..Here /\ (k = Here + 1 \/ k \in 2..Here)
  BY <1>1
<1>4. \A k \in 2..Here : k \in 1..Here
  BY <1>1
<1>5. Chain'
  <2>1. ASSUME NEW k \in 2..(Here + 1)
        PROVE  /\ hop'[k].asked # Null /\ hop'[k - 1].sent # Null
               /\ hop'[k].asked.vias = hop'[k - 1].sent.vias
               /\ hop'[k].sent # Null => hop'[k].sent.vias = <<k>> \o hop'[k].asked.vias
    <3>1. hop'[k - 1] = hop[k - 1]
      BY <1>2, <1>3
    <3>2. CASE k \in 2..Here
      BY <3>1, <3>2, <1>2, <1>4 DEF IInv, Chain
    <3>3. CASE k = Here + 1
      <4>1. k - 1 = Here
        BY <3>3, <1>1
      <4> QED
        BY <3>1, <3>3, <4>1, <1>2
    <3> QED
      BY <3>2, <3>3, <1>3
  <2>2. 1 \in 1..Here
    BY <1>1
  <2>3. hop'[1].sent # Null /\ hop'[1].sent.vias = <<1>> /\ ~hop'[1].query
    BY <2>2, <1>2 DEF IInv, Chain
  <2>4. Here' >= 1
    BY <1>1, <1>2
  <2> QED
    BY <2>1, <2>3, <2>4, <1>2 DEF Chain
<1>6. Begun'
  <2>1. ASSUME NEW k \in 2..(Here + 1)
        PROVE  /\ hop'[k].client => hop'[k].sent # Null
               /\ hop'[k].query => hop'[k].sent = Null
               /\ hop'[k].last # Null =>
                    /\ hop'[k].sent # Null /\ hop'[k].last.status = "provisional"
                    /\ hop'[k].last.vias = hop'[k].sent.vias
    <3>1. CASE k \in 2..Here
      BY <3>1, <1>2, <1>4 DEF IInv, Begun
    <3>2. CASE k = Here + 1
      BY <3>2, <1>2
    <3> QED
      BY <3>1, <3>2, <1>3
  <2> QED
    BY <2>1, <1>2 DEF Begun
<1>7. Steady
  <2>1. ASSUME NEW m, NEW k, Cut(m, k) PROVE Cut(m, k)'
    <3>1. k \in 2..Here /\ k \in 2..(Here + 1) /\ k \in 1..Here
      BY <2>1, <1>1 DEF Cut
    <3> QED
      BY <2>1, <3>1, <1>2 DEF Cut
  <2>2. \A k \in 1..Here : k \in 1..Here'
    BY <1>1, <1>2
  <2> QED
    BY <2>1, <2>2, <1>2 DEF Steady
<1> QED
  BY <1>2, <1>5, <1>6, <1>7

\* The next hop is asked with what the one before has sent.
LEMMA SipExecuteStep ==
  ASSUME Apart, IInv, sip_execute
  PROVE  IInv'
<1> PICK n : n = Here + 1
  OBVIOUS
<1> PICK q : q = sip_message_add_record_route(hop[Here].sent, n)
  OBVIOUS
<1>1. /\ Here \in Nat /\ Here \in 1..Here /\ hop[Here].sent # Null
      /\ hop[Here].sent \in Request /\ n \in Nat
  BY HopsAre DEF IInv, Chain, Shape, sip_execute
<1>2. q \in Request /\ q # Null /\ q.vias = hop[Here].sent.vias
  <2>1. <<n>> \o hop[Here].sent.record \in Seq(Nat)
    BY <1>1, Top DEF Request
  <2>2. q \in Request /\ q.vias = hop[Here].sent.vias
    BY <1>1, <2>1 DEF sip_message_add_record_route, Request
  <2> QED
    BY <2>2 DEF Apart
<1>3. PICK x \in Shape :
        /\ hop' = Append(hop, x) /\ x.asked = q
        /\ x.sent = Null /\ ~x.client /\ x.last = Null
  <2> DEFINE y == Hop(q)
             z == [Hop(q) EXCEPT !.server = FALSE, !.query = FALSE]
  <2>1. /\ y \in Shape /\ y.asked = q /\ y.sent = Null /\ ~y.client /\ y.last = Null
        /\ z \in Shape /\ z.asked = q /\ z.sent = Null /\ ~z.client /\ z.last = Null
    BY <1>2 DEF Hop, Shape
  <2>2. hop' = Append(hop, y) \/ hop' = Append(hop, z)
    BY DEF sip_execute
  <2> HIDE DEF y, z
  <2> QED
    BY <2>1, <2>2
<1>4. hop' \in Seq(Shape) /\ Here' = Here + 1 /\ Chain' /\ Begun' /\ Steady
  BY <1>1, <1>2, <1>3, Joins
<1>5. reply' = reply
  BY DEF sip_execute
<1>6. /\ \A y \in answer' \ answer :
           y.hop = Here /\ y.message \in Response /\ y.message.vias = hop[Here].sent.vias
      /\ answer' \subseteq [hop : 1..Here, message : Response]
  <2>1. ASSUME NEW status \in {"provisional", "failure"}
        PROVE  sip_response_new(q, status) \in Response
               /\ sip_response_new(q, status).vias = hop[Here].sent.vias
    BY <1>2 DEF sip_response_new, Response, Status, Request
  <2>2. n - 1 = Here
    BY <1>1
  <2>3. \/ answer' = answer
        \/ \E status \in {"provisional", "failure"} :
             answer' = answer \cup {[hop |-> Here, message |-> sip_response_new(q, status)]}
    BY <2>2 DEF sip_execute, Answers
  <2>4. answer \subseteq [hop : 1..Here, message : Response]
    BY DEF IInv, TypeOK
  <2> QED
    BY <1>1, <2>1, <2>3, <2>4
<1>7. NewRight
  BY <1>1, <1>4, <1>5, <1>6 DEF NewRight, Steady
<1>8. OnItsWay'
  BY <1>4, <1>7, StaysOnItsWay DEF IInv
<1>9. 1..Here \subseteq 1..(Here + 1) /\ 2..Here \subseteq 2..(Here + 1)
  BY <1>1
<1>10. TypeOK'
  <2>1. answer' \subseteq [hop : 1..(Here + 1), message : Response]
    BY <1>6, <1>9
  <2>2. reply' \subseteq [hop : 2..(Here + 1), message : Response]
    BY <1>5, <1>9 DEF IInv, TypeOK
  <2> QED
    BY <2>1, <2>2, <1>4 DEF TypeOK
<1> QED
  BY <1>4, <1>8, <1>10 DEF IInv

-----------------------------------------------------------------------------
\* No step breaks the invariant.
LEMMA NextIInv ==
  ASSUME Apart
  PROVE  IInv /\ [Next]_vars => IInv'
<1> SUFFICES ASSUME IInv, [Next]_vars PROVE IInv'
  OBVIOUS
<1>1. CASE UNCHANGED vars
  BY <1>1 DEF vars, IInv, TypeOK, Chain, Begun, OnItsWay, Cut, Here
<1> QED
  BY <1>1, SipExecuteStep, SipProxyStep, CalleeAnswersStep, ReceiveResponseStep,
     SipDestroyStep, SipFinalizeStep
     DEF Next

\* What hops have asked, sent and noted, and all that is under way, agrees.
THEOREM Invariant ==
  ASSUME Apart
  PROVE  Spec => []IInv
<1>1. Init => IInv
  BY InitIInv
<1>2. IInv /\ [Next]_vars => IInv'
  BY NextIInv
<1> QED
  BY <1>1, <1>2, PTL DEF Spec

\* However many gateways a request passes, and whoever answers it, sip.c gives
\* each answer the Vias of the hop it is for.
THEOREM Retraced ==
  ASSUME Apart
  PROVE  Spec => []AnswersRetrace
<1>1. IInv => AnswersRetrace
  BY IInvShows
<1>2. Spec => []IInv
  BY Invariant
<1> QED
  BY <1>1, <1>2, PTL

-----------------------------------------------------------------------------
(* Mqtt: the header of a packet *)

\* What a string is made of.
LEMMA Typed ==
    ASSUME NEW s \in Text
    PROVE  Len(s) \in Nat /\ \A i \in 1..Len(s) : s[i] \in Nat /\ s[i] < 256
<1>1. Len(s) \in Nat /\ \A i \in 1..Len(s) : s[i] \in Byte
  BY DEF Text
<1>2. \A b \in Byte : b \in Nat /\ b < 256
  BY DEF Byte
<1> QED BY <1>1, <1>2

\* The length of the packet in buf has d bytes.
HasDigits(buf, d) ==
  /\ d \in 1..4 /\ d < Len(buf) /\ buf[d + 1] < 128
  /\ \A e \in 1..(d - 1) : buf[e + 1] >= 128

\* Of four numbers there is a least one.
LEMMA LeastOfFour ==
    ASSUME NEW S \in SUBSET (1..4), S # {}
    PROVE  Min(S) \in S /\ \A x \in S : Min(S) <= x
<1>1. \E x \in S : \A y \in S : x <= y
  <2>1. CASE 1 \in S
    BY <2>1
  <2>2. CASE 1 \notin S /\ 2 \in S
    BY <2>2
  <2>3. CASE 1 \notin S /\ 2 \notin S /\ 3 \in S
    BY <2>3
  <2>4. CASE 1 \notin S /\ 2 \notin S /\ 3 \notin S
    <3>1. \A y \in S : y \in 1..4 /\ y # 1 /\ y # 2 /\ y # 3
      BY <2>4
    <3>2. \A y \in 1..4 : y # 1 /\ y # 2 /\ y # 3 => y = 4
      OBVIOUS
    <3>3. 4 \in S /\ \A y \in S : y = 4
      BY <3>1, <3>2
    <3> QED BY <3>3
  <2> QED BY <2>1, <2>2, <2>3, <2>4
<1> QED BY <1>1 DEF Min

\* A length is a number.
LEMMA RemainingType ==
    ASSUME NEW buf \in Text, NEW d, HasDigits(buf, d)
    PROVE  Remaining(buf, d) \in Nat
<1> DEFINE digit(e) == IF e <= d THEN (buf[e + 1] % 128) * Weight[e] ELSE 0
<1>1. ASSUME NEW e \in 1..4 PROVE digit(e) \in Nat
  <2>1. CASE e <= d
    <3>1. buf[e + 1] \in Nat
      BY <2>1, Typed DEF HasDigits
    <3>2. buf[e + 1] % 128 \in Nat
      BY <3>1
    <3>3. Weight[e] \in Nat
      BY DEF Weight
    <3>4. \A x, y \in Nat : x * y \in Nat
      OBVIOUS
    <3> QED BY <2>1, <3>2, <3>3, <3>4
  <2> QED BY <2>1 DEF HasDigits
<1>2. Remaining(buf, d) = digit(1) + digit(2) + digit(3) + digit(4)
  BY DEF Remaining
<1> HIDE DEF digit
<1> QED BY <1>1, <1>2

\* What UnpackHeader makes of a buffer that holds the last byte of the length.
HeadOf(buf, d) == Header(buf[1] \div 16, buf[1] % 16, Remaining(buf, d))

\* A buffer with a last byte of the length is refused, waited for or read.
LEMMA HeaderIs ==
    ASSUME NEW buf \in Text, NEW d, HasDigits(buf, d)
    PROVE  UnpackHeader(buf) =
             IF Violation(HeadOf(buf, d)) THEN Fails
             ELSE IF Len(buf) - 1 - d < HeadOf(buf, d).remaining THEN Waits
             ELSE [rv |-> 1 + d, header |-> HeadOf(buf, d)]
<1> DEFINE last == {e \in 1..4 : e < Len(buf) /\ buf[e + 1] < 128}
<1>1. d \in last /\ \A e \in last : d <= e
  <2>1. ASSUME NEW e \in last, e < d PROVE FALSE
    <3>1. buf[e + 1] \in Nat /\ e \in 1..(d - 1)
      BY <2>1, Typed DEF HasDigits
    <3> QED BY <2>1, <3>1 DEF HasDigits
  <2> QED BY <2>1 DEF HasDigits
<1>2. Min(last) = d
  <2> HIDE DEF last
  <2>1. last \subseteq 1..4
    BY DEF last
  <2>2. last # {} /\ d \in Int
    BY <1>1 DEF HasDigits
  <2>3. Min(last) \in last /\ \A x \in last : Min(last) <= x
    BY <2>1, <2>2, LeastOfFour
  <2>4. Min(last) \in 1..4
    BY <2>1, <2>3
  <2>5. Min(last) <= d /\ d <= Min(last)
    BY <1>1, <2>3
  <2> QED BY <2>2, <2>4, <2>5
<1> HIDE DEF last
<1>3. UnpackHeader(buf) =
        LET h == Header(buf[1] \div 16, buf[1] % 16, Remaining(buf, Min(last)))
        IN IF last = {} THEN IF Len(buf) < 5 THEN Waits ELSE Fails
           ELSE IF Violation(h) THEN Fails
           ELSE IF Len(buf) - 1 - Min(last) < h.remaining THEN Waits
           ELSE [rv |-> 1 + Min(last), header |-> h]
  BY DEF UnpackHeader, last
<1> QED BY <1>1, <1>2, <1>3, Zenon DEF HeadOf

\* A buffer that holds no last byte of the length yet.
LEMMA HeaderNotYet ==
    ASSUME NEW buf \in Text, Len(buf) < 5,
           \A e \in 1..4 : e < Len(buf) => buf[e + 1] >= 128
    PROVE  UnpackHeader(buf) = Waits
<1>1. {e \in 1..4 : e < Len(buf) /\ buf[e + 1] < 128} = {}
  BY Typed
<1> QED BY <1>1 DEF UnpackHeader

\* Whenever a header is read, there is a last byte of the length.
LEMMA HeaderHas ==
    ASSUME NEW buf \in Text, UnpackHeader(buf).rv > 0
    PROVE  \E d \in 1..4 : HasDigits(buf, d)
<1> DEFINE last == {e \in 1..4 : e < Len(buf) /\ buf[e + 1] < 128}
<1>1. last # {}
  <2>1. SUFFICES ASSUME last = {} PROVE FALSE
    OBVIOUS
  <2>2. UnpackHeader(buf) = IF Len(buf) < 5 THEN Waits ELSE Fails
    BY <2>1 DEF UnpackHeader
  <2> QED BY <2>2 DEF Waits, Fails
<1>2. Min(last) \in last /\ \A x \in last : Min(last) <= x
  <2>1. last \subseteq 1..4
    OBVIOUS
  <2> HIDE DEF last
  <2> QED BY <1>1, <2>1, LeastOfFour
<1>3. ASSUME NEW e \in 1..(Min(last) - 1) PROVE buf[e + 1] >= 128
  <2>1. e \notin last /\ e \in 1..4 /\ e < Len(buf)
    BY <1>2
  <2>2. buf[e + 1] \in Nat
    BY <2>1, Typed
  <2> QED BY <2>1, <2>2
<1> QED BY <1>2, <1>3 DEF HasDigits

\* a is the beginning of b.
Begins(a, b) == Len(a) <= Len(b) /\ \A i \in 1..Len(a) : a[i] = b[i]

\* The header is in the bytes up to the last one of the length.
LEMMA RemainingSame ==
    ASSUME NEW a \in Text, NEW b \in Text, NEW d \in 1..4,
           \A i \in 1..(d + 1) : a[i] = b[i]
    PROVE  HeadOf(a, d) = HeadOf(b, d)
BY DEF HeadOf, Remaining, Header

\* What a header that was read says.
LEMMA HeaderFacts ==
    ASSUME NEW b \in Text, NEW d, HasDigits(b, d), UnpackHeader(b).rv > 0
    PROVE  /\ UnpackHeader(b) = [rv |-> 1 + d, header |-> HeadOf(b, d)]
           /\ ~Violation(HeadOf(b, d))
           /\ d \in 1..4 /\ HeadOf(b, d).remaining \in Nat
           /\ 1 + d + HeadOf(b, d).remaining <= Len(b)
<1>1. UnpackHeader(b) = [rv |-> 1 + d, header |-> HeadOf(b, d)]
      /\ ~Violation(HeadOf(b, d)) /\ ~(Len(b) - 1 - d < HeadOf(b, d).remaining)
  BY HeaderIs DEF Fails, Waits
<1>2. d \in 1..4 /\ HeadOf(b, d).remaining \in Nat /\ Len(b) \in Nat
  BY RemainingType, Typed DEF HasDigits, HeadOf, Header
<1> QED BY <1>1, <1>2

\* A header is read from any beginning of a packet that is long enough, and from
\* a packet with more behind it; from less it is waited for.
LEMMA HeaderPrefix ==
    ASSUME NEW a \in Text, NEW b \in Text, Begins(a, b) \/ Begins(b, a),
           NEW d, HasDigits(b, d), UnpackHeader(b).rv > 0
    PROVE  UnpackHeader(a) =
             IF Len(a) < 1 + d + HeadOf(b, d).remaining THEN Waits ELSE UnpackHeader(b)
<1> DEFINE total == 1 + d + HeadOf(b, d).remaining
<1>1. /\ UnpackHeader(b) = [rv |-> 1 + d, header |-> HeadOf(b, d)]
      /\ ~Violation(HeadOf(b, d)) /\ d \in 1..4 /\ HeadOf(b, d).remaining \in Nat
      /\ total <= Len(b) /\ Len(a) \in Nat /\ Len(b) \in Nat
  BY HeaderFacts, Typed
<1>2. \A i \in 1..Len(a) : i <= Len(b) => a[i] = b[i]
  BY <1>1 DEF Begins
<1>3. CASE Len(a) <= d
  <2>1. ASSUME NEW e \in 1..4, e < Len(a) PROVE a[e + 1] >= 128
    <3>1. e \in 1..(d - 1) /\ e + 1 \in 1..Len(a) /\ e + 1 <= Len(b)
      BY <1>1, <1>3, <2>1
    <3> QED BY <1>2, <3>1 DEF HasDigits
  <2>2. UnpackHeader(a) = Waits
    BY <1>1, <1>3, <2>1, HeaderNotYet
  <2>3. Len(a) < total
    BY <1>1, <1>3
  <2> QED BY <2>2, <2>3
<1>4. CASE d < Len(a)
  <2>1. \A i \in 1..(d + 1) : a[i] = b[i]
    <3>1. \A i \in 1..(d + 1) : i \in 1..Len(a) /\ i <= Len(b)
      BY <1>1, <1>4
    <3> QED BY <1>2, <3>1
  <2>2. HasDigits(a, d)
    <3>1. a[d + 1] = b[d + 1] /\ \A e \in 1..(d - 1) : a[e + 1] = b[e + 1]
      <4>1. d + 1 \in 1..(d + 1) /\ \A e \in 1..(d - 1) : e + 1 \in 1..(d + 1)
        BY <1>1
      <4> QED BY <2>1, <4>1
    <3> QED BY <1>4, <3>1 DEF HasDigits
  <2>3. HeadOf(a, d) = HeadOf(b, d)
    BY <1>1, <2>1, RemainingSame
  <2>4. UnpackHeader(a) = IF Len(a) - 1 - d < HeadOf(b, d).remaining THEN Waits
                          ELSE [rv |-> 1 + d, header |-> HeadOf(b, d)]
    BY <1>1, <2>2, <2>3, HeaderIs
  <2>5. Len(a) - 1 - d < HeadOf(b, d).remaining <=> Len(a) < total
    BY <1>1
  <2> QED BY <1>1, <2>4, <2>5
<1> QED BY <1>1, <1>3, <1>4

-----------------------------------------------------------------------------
(* What is behind the header *)

\* The fields of a packet are read from the packet, not from what is behind it.
LEMMA FieldsSame ==
    ASSUME NEW a \in Text, NEW b \in Text, NEW h, NEW at \in Nat,
           h.remaining \in Nat,
           \A i \in (at + 1)..(at + h.remaining) : a[i] = b[i]
    PROVE  Fields(h, a, at) = Fields(h, b, at)
<1>1. h.remaining >= 2 => a[at + 1] = b[at + 1] /\ a[at + 2] = b[at + 2]
  <2>1. h.remaining >= 2 => {at + 1, at + 2} \subseteq (at + 1)..(at + h.remaining)
    OBVIOUS
  <2> QED BY <2>1
<1>2. h.remaining >= 2 => UnpackUint16(a, at) = UnpackUint16(b, at)
  BY <1>1 DEF UnpackUint16
<1>3. UnpackConnack(h, a, at) = UnpackConnack(h, b, at)
  BY <1>1 DEF UnpackConnack
<1>4. UnpackPublish(h, a, at) = UnpackPublish(h, b, at)
  <2>1. CASE h.remaining < 4
    BY <2>1 DEF UnpackPublish
  <2>2. CASE ~(h.remaining < 4)
    <3>1. UnpackUint16(a, at) = UnpackUint16(b, at)
      BY <1>2, <2>2
    <3> QED BY <3>1, Zenon DEF UnpackPublish
  <2> QED BY <2>1, <2>2
<1>5. UnpackPubxxx(h, a, at) = UnpackPubxxx(h, b, at)
  BY <1>2 DEF UnpackPubxxx
<1>6. UnpackSuback(h, a, at) = UnpackSuback(h, b, at)
  BY <1>2 DEF UnpackSuback
<1>7. UnpackUnsuback(h, a, at) = UnpackUnsuback(h, b, at)
  BY <1>2 DEF UnpackUnsuback
<1> QED BY <1>3, <1>4, <1>5, <1>6, <1>7, Zenon DEF Fields

\* A packet that is cut is waited for; what is behind it does not matter.
LEMMA UnpackPrefix ==
    ASSUME NEW a \in Text, NEW b \in Text, Begins(a, b) \/ Begins(b, a),
           UnpackHeader(b).rv > 0
    PROVE  LET head == UnpackHeader(b)
               total == head.rv + head.header.remaining
           IN Unpack(a) = IF Len(a) < total THEN Waits ELSE Unpack(b)
<1>1. PICK d \in 1..4 : HasDigits(b, d)
  BY HeaderHas
<1> DEFINE h == HeadOf(b, d)
           total == 1 + d + h.remaining
<1>2. /\ UnpackHeader(b) = [rv |-> 1 + d, header |-> h]
      /\ h.remaining \in Nat /\ total <= Len(b) /\ Len(a) \in Nat /\ Len(b) \in Nat
  BY <1>1, HeaderFacts, Typed
<1>3. UnpackHeader(a) = IF Len(a) < total THEN Waits ELSE UnpackHeader(b)
  BY <1>1, HeaderPrefix
<1>4. CASE Len(a) < total
  <2>1. UnpackHeader(a) = Waits
    BY <1>3, <1>4
  <2>2. Unpack(a) = Waits
    BY <2>1 DEF Unpack, Waits
  <2> QED BY <1>2, <1>4, <2>2
<1>5. CASE ~(Len(a) < total)
  <2>1. UnpackHeader(a) = UnpackHeader(b)
    BY <1>3, <1>5
  <2>2. \A i \in (1 + d + 1)..(1 + d + h.remaining) : a[i] = b[i]
    BY <1>2, <1>5 DEF Begins
  <2>3. Fields(h, a, 1 + d) = Fields(h, b, 1 + d)
    <3> HIDE DEF h
    <3>1. 1 + d \in Nat
      OBVIOUS
    <3> QED BY <1>2, <2>2, <3>1, FieldsSame
  <2>4. Unpack(a) = Unpack(b)
    <3> HIDE DEF h
    <3> QED BY <1>2, <2>1, <2>3 DEF Unpack
  <2> QED BY <1>2, <1>5, <2>4
<1> QED BY <1>4, <1>5

-----------------------------------------------------------------------------
(* Packing *)

\* A number is its rest and its quotient.
LEMMA Division ==
    ASSUME NEW n \in Nat
    PROVE  /\ n % 128 \in 0..127 /\ n \div 128 \in Nat
           /\ n = 128 * (n \div 128) + (n % 128)
           /\ n \div 16384 = (n \div 128) \div 128
           /\ n \div 2097152 = ((n \div 128) \div 128) \div 128
BY SMT

\* The digits of a length that fits into four.
LEMMA DigitsAre ==
    ASSUME NEW n \in Nat, n < Weight[5]
    PROVE  LET D == Digits(n)
               digit(e) == IF e <= Len(D) THEN (D[e] % 128) * Weight[e] ELSE 0
           IN /\ D \in Text /\ Len(D) \in 1..4 /\ D[Len(D)] < 128
              /\ \A e \in 1..(Len(D) - 1) : D[e] >= 128
              /\ digit(1) + digit(2) + digit(3) + digit(4) = n
<1> DEFINE fits == {d \in 1..4 : n < Weight[d + 1] \/ d = 4}
           last == Min(fits)
           D == Digits(n)
           q1 == n \div 128
           q2 == q1 \div 128
           q3 == q2 \div 128
<1>1. last \in fits /\ \A x \in fits : last <= x
  <2>1. fits \subseteq 1..4 /\ 4 \in fits
    OBVIOUS
  <2> HIDE DEF fits
  <2> QED BY <2>1, LeastOfFour
<1>2. D = [d \in 1..last |-> ((n \div Weight[d]) % 128) + (IF d < last THEN 128 ELSE 0)]
  BY DEF Digits
<1>3. last \in 1..4 /\ Len(D) = last
  BY <1>1, <1>2
<1>4. /\ q1 \in Nat /\ n = 128 * q1 + (n % 128) /\ n % 128 \in 0..127
      /\ q2 \in Nat /\ q1 = 128 * q2 + (q1 % 128) /\ q1 % 128 \in 0..127
      /\ q3 \in Nat /\ q2 = 128 * q3 + (q2 % 128) /\ q2 % 128 \in 0..127
      /\ n \div 16384 = q2 /\ n \div 2097152 = q3
  <2>1. q1 \in Nat
    BY Division
  <2>2. q2 \in Nat
    BY <2>1, Division
  <2> QED BY <2>1, <2>2, Division, SMT
<1> DEFINE v == <<n % 128, q1 % 128, q2 % 128, q3 % 128>>
<1>5. ASSUME NEW d \in 1..4 PROVE (n \div Weight[d]) % 128 = v[d] /\ v[d] \in 0..127
  <2>1. n \div 1 = n /\ q3 % 128 \in 0..127
    BY <1>4
  <2>2. d = 1 \/ d = 2 \/ d = 3 \/ d = 4
    OBVIOUS
  <2> QED BY <1>4, <2>1, <2>2, SMT DEF Weight
<1> HIDE DEF fits, last, D
<1>6. ASSUME NEW e \in 1..last
      PROVE  /\ D[e] = v[e] + (IF e < last THEN 128 ELSE 0)
             /\ D[e] \in Byte /\ D[e] % 128 = v[e]
  <2> DEFINE more == IF e < last THEN 128 ELSE 0
             x == v[e]
  <2>1. e \in 1..4
    BY <1>3
  <2>2. D[e] = x + more
    BY <1>2, <1>5, <2>1
  <2>3. x \in 0..127 /\ more \in {0, 128}
    BY <1>5, <2>1
  <2> HIDE DEF x, more
  <2>4. (x + more) % 128 = x /\ x + more \in Byte
    BY <2>3 DEF Byte
  <2> QED BY <2>2, <2>4 DEF x, more
<1>7. D \in Text
  <2>1. D \in Seq(Byte)
    BY <1>2, <1>3, <1>6
  <2> QED BY <2>1 DEF Text
<1>8. D[last] < 128 /\ \A e \in 1..(last - 1) : D[e] >= 128
  <2>1. D[last] = v[last] /\ v[last] \in 0..127
    <3>1. last \in 1..last /\ last \in 1..4 /\ ~(last < last)
      BY <1>3
    <3>2. D[last] = v[last] + 0 /\ v[last] \in 0..127
      BY <1>5, <1>6, <3>1
    <3> QED BY <3>2
  <2>2. ASSUME NEW e \in 1..(last - 1) PROVE D[e] >= 128
    <3>1. e \in 1..last /\ e \in 1..4 /\ e < last
      BY <1>3
    <3>2. D[e] = v[e] + 128 /\ v[e] \in 0..127
      BY <1>5, <1>6, <3>1
    <3> QED BY <3>2
  <2> QED BY <2>1, <2>2
<1> DEFINE digit(e) == IF e <= Len(D) THEN (D[e] % 128) * Weight[e] ELSE 0
<1>9. ASSUME NEW e \in 1..4 PROVE digit(e) = IF e <= last THEN v[e] * Weight[e] ELSE 0
  BY <1>3, <1>6
<1>10. last # 4 => n < Weight[last + 1]
  BY <1>1 DEF fits
<1>11. digit(1) + digit(2) + digit(3) + digit(4) = n
  <2> DEFINE w == Weight
  <2> HIDE DEF digit
  <2>0. w[1] = 1 /\ w[2] = 128 /\ w[3] = 16384 /\ w[4] = 2097152
    BY SMT DEF Weight
  <2>w. w = Weight
    OBVIOUS
  <2>v. /\ v[1] = n % 128 /\ v[2] = q1 % 128 /\ v[3] = q2 % 128 /\ v[4] = q3 % 128
        /\ v[1] \in Int /\ v[2] \in Int /\ v[3] \in Int /\ v[4] \in Int
    BY <1>4
  <2>q. q1 \in Nat /\ q2 \in Nat /\ q3 \in Nat
    BY <1>4
  <2> HIDE DEF w, v
  <2>1. q3 < 128 /\ q3 % 128 = q3
    BY <1>4, SMT DEF Weight
  <2>2. CASE last = 1
    <3>1. digit(1) = n % 128 /\ digit(2) = 0 /\ digit(3) = 0 /\ digit(4) = 0
      BY <1>9, <2>2, <2>0, <2>w, <2>v, SMT
    <3>2. n < 128
      BY <1>10, <2>2, SMT DEF Weight
    <3> QED BY <1>4, <3>1, <3>2, SMT
  <2>3. CASE last = 2
    <3>1. digit(1) = n % 128 /\ digit(2) = (q1 % 128) * 128 /\ digit(3) = 0 /\ digit(4) = 0
      BY <1>9, <2>3, <2>0, <2>w, <2>v, SMT
    <3>2. n < 16384
      BY <1>10, <2>3, SMT DEF Weight
    <3> QED BY <1>4, <3>1, <3>2, SMT
  <2>4. CASE last = 3
    <3>1. /\ digit(1) = n % 128 /\ digit(2) = (q1 % 128) * 128
          /\ digit(3) = (q2 % 128) * 16384 /\ digit(4) = 0
      BY <1>9, <2>4, <2>0, <2>w, <2>v, SMT
    <3>2. n < 2097152
      BY <1>10, <2>4, SMT DEF Weight
    <3> QED BY <1>4, <3>1, <3>2, SMT
  <2>5. CASE last = 4
    <3>1. /\ digit(1) = n % 128 /\ digit(2) = (q1 % 128) * 128
          /\ digit(3) = (q2 % 128) * 16384 /\ digit(4) = (q3 % 128) * 2097152
      BY <1>9, <2>5, <2>0, <2>w, <2>v, SMT
    <3>2. \A x0, x1, x2, x3, a, b, c \in Int :
            x0 = 128 * x1 + a /\ x1 = 128 * x2 + b /\ x2 = 128 * x3 + c
              => a + b * 128 + c * 16384 + x3 * 2097152 = x0
      BY SMT
    <3>3. n % 128 \in Int /\ q1 % 128 \in Int /\ q2 % 128 \in Int
      BY <1>4
    <3>4. (n % 128) + (q1 % 128) * 128 + (q2 % 128) * 16384 + q3 * 2097152 = n
      BY <1>4, <2>q, <3>2, <3>3, SMT
    <3> QED BY <2>1, <3>1, <3>4, SMT
  <2> QED BY <1>3, <2>2, <2>3, <2>4, <2>5
<1>12. /\ D \in Text /\ Len(D) \in 1..4 /\ D[Len(D)] < 128
       /\ \A e \in 1..(Len(D) - 1) : D[e] >= 128
       /\ digit(1) + digit(2) + digit(3) + digit(4) = n
  <2> HIDE DEF digit, v
  <2> QED BY <1>3, <1>7, <1>8, <1>11
<1> QED BY <1>12, Zenon DEF D

\* Where the parts of a packet are: a byte, its length, what follows.
HasBytes(p, x, D, body) ==
  /\ p \in Text /\ Len(p) = 1 + Len(D) + Len(body)
  /\ Len(D) \in Nat /\ Len(body) \in Nat
  /\ p[1] = x
  /\ \A i \in 1..Len(D) : p[1 + i] = D[i]
  /\ \A i \in 1..Len(body) : p[1 + Len(D) + i] = body[i]

\* They are where they were put.
LEMMA Parts ==
    ASSUME NEW x \in Byte, NEW D \in Text, NEW body \in Text
    PROVE  HasBytes(<<x>> \o D \o body, x, D, body)
<1>1. <<x>> \in Text /\ Len(<<x>>) = 1 /\ <<x>>[1] = x
  BY DEF Text
<1> DEFINE q == <<x>> \o D
<1>2. q \in Text /\ Len(q) = 1 + Len(D) /\ q[1] = x /\ \A i \in 1..Len(D) : q[1 + i] = D[i]
  BY <1>1 DEF Text
<1> HIDE DEF q
<1> DEFINE p == q \o body
<1>3. /\ p \in Text /\ Len(p) = Len(q) + Len(body)
      /\ Len(D) \in Nat /\ Len(body) \in Nat /\ Len(q) \in Nat
      /\ \A i \in 1..Len(q) : p[i] = q[i]
      /\ \A i \in 1..Len(body) : p[Len(q) + i] = body[i]
  <2>1. q \in Seq(Byte) /\ body \in Seq(Byte) /\ D \in Seq(Byte)
    BY <1>2 DEF Text
  <2>2. p \in Seq(Byte)
    BY <2>1
  <2>3. /\ Len(p) = Len(q) + Len(body)
        /\ Len(D) \in Nat /\ Len(body) \in Nat /\ Len(q) \in Nat
    BY <2>1
  <2>4. \A i \in 1..Len(q) : p[i] = q[i]
    BY <2>1
  <2>5. \A i \in 1..Len(body) : p[Len(q) + i] = body[i]
    BY <2>1, <2>3
  <2> QED BY <2>2, <2>3, <2>4, <2>5 DEF Text
<1>4. \A i \in 1..Len(D) : 1 + i \in 1..Len(q)
  BY <1>2, <1>3
<1>5. 1 \in 1..Len(q)
  BY <1>2, <1>3
<1>6. p = <<x>> \o D \o body
  BY DEF q
<1> HIDE DEF p
<1>7. HasBytes(p, x, D, body)
  BY <1>2, <1>3, <1>4, <1>5 DEF HasBytes
<1> QED BY <1>6, <1>7, Zenon

\* A header that was packed is read again as it was.
LEMMA HeaderBack ==
    ASSUME NEW type \in 1..14, NEW flags \in 0..15, NEW n \in Nat, n < Weight[5],
           NEW body \in Text, Len(body) >= n, ~Violation(Header(type, flags, n))
    PROVE  LET D == Digits(n)
               p == <<16 * type + flags>> \o D \o body
           IN /\ HasDigits(p, Len(D))
              /\ UnpackHeader(p) = [rv |-> 1 + Len(D), header |-> Header(type, flags, n)]
<1> DEFINE D == Digits(n)
           x == 16 * type + flags
           p == <<x>> \o D \o body
           digit(e) == IF e <= Len(D) THEN (D[e] % 128) * Weight[e] ELSE 0
           digitp(e) == IF e <= Len(D) THEN (p[e + 1] % 128) * Weight[e] ELSE 0
<1>1. /\ D \in Text /\ Len(D) \in 1..4 /\ D[Len(D)] < 128
      /\ \A e \in 1..(Len(D) - 1) : D[e] >= 128
      /\ digit(1) + digit(2) + digit(3) + digit(4) = n
  BY DigitsAre
<1>2. x \in Byte /\ x \div 16 = type /\ x % 16 = flags
  BY DEF Byte
<1> HIDE DEF D, x
<1>3. /\ p \in Text /\ Len(p) = 1 + Len(D) + Len(body) /\ Len(body) \in Nat /\ p[1] = x
      /\ \A i \in 1..Len(D) : p[1 + i] = D[i]
  <2>1. HasBytes(p, x, D, body)
    BY <1>1, <1>2, Parts, Zenon
  <2> HIDE DEF p
  <2> QED BY <2>1 DEF HasBytes
<1> HIDE DEF p
<1>4. \A e \in 1..Len(D) : p[e + 1] = D[e]
  BY <1>1, <1>3
<1>5. HasDigits(p, Len(D))
  <2>1. Len(D) \in 1..Len(D) /\ \A e \in 1..(Len(D) - 1) : e \in 1..Len(D)
    <3>1. \A k \in 1..4 : k \in 1..k /\ \A e \in 1..(k - 1) : e \in 1..k
      OBVIOUS
    <3> QED BY <1>1, <3>1
  <2>2. p[Len(D) + 1] = D[Len(D)] /\ \A e \in 1..(Len(D) - 1) : p[e + 1] = D[e]
    BY <1>4, <2>1
  <2>3. Len(D) < Len(p)
    BY <1>1, <1>3
  <2> QED BY <1>1, <2>2, <2>3 DEF HasDigits
<1>6. Remaining(p, Len(D)) = n
  <2>1. Remaining(p, Len(D)) = digitp(1) + digitp(2) + digitp(3) + digitp(4)
    BY DEF Remaining
  <2>2. ASSUME NEW e \in 1..4 PROVE digitp(e) = digit(e)
    BY <1>1, <1>4
  <2> HIDE DEF digit, digitp
  <2> QED BY <1>1, <2>1, <2>2
<1>7. HeadOf(p, Len(D)) = Header(type, flags, n)
  BY <1>2, <1>3, <1>6 DEF HeadOf
<1>8. UnpackHeader(p) = [rv |-> 1 + Len(D), header |-> Header(type, flags, n)]
  <2>1. ~(Len(p) - 1 - Len(D) < n) /\ Header(type, flags, n).remaining = n
    BY <1>1, <1>3 DEF Header
  <2> QED BY <1>3, <1>5, <1>7, <2>1, HeaderIs
<1> QED BY <1>5, <1>8 DEF p, x, D

\* What packing a header and a body gives; a body that does not fit may have
\* another length than the header says.
IsPacked(p, type, flags, n, body, room) ==
  /\ type \in 1..14 /\ flags \in 0..15 /\ n \in Nat /\ room \in Nat /\ room > 0
  /\ n <= room => body \in Text /\ Len(body) = n
  /\ p = Pack(Header(type, flags, n), body, room)

\* It fits the room, announces what follows its header, and has the body behind.
IsExact(p, type, flags, n, body, room) ==
  /\ p.bytes = <<16 * type + flags>> \o Digits(n) \o body
  /\ Digits(n) \in Text /\ Len(Digits(n)) \in 1..4 /\ p.rv = 1 + Len(Digits(n)) + n
  /\ p.bytes \in Text /\ p.rv = Len(p.bytes) /\ p.rv <= room
  /\ body \in Text /\ Len(body) = n
  /\ UnpackHeader(p.bytes) = [rv |-> 1 + Len(Digits(n)), header |-> Header(type, flags, n)]

\* What is sent is exact.
LEMMA Packs ==
    ASSUME NEW r, NEW type, NEW flags, NEW n, NEW body, NEW room,
           IsPacked(r, type, flags, n, body, room), r.rv > 0
    PROVE  IsExact(r, type, flags, n, body, room)
<1> DEFINE h == Header(type, flags, n)
           D == Digits(n)
           x == 16 * type + flags
           head == <<x>> \o D
<1>0. /\ type \in 1..14 /\ flags \in 0..15 /\ n \in Nat /\ room \in Nat /\ room > 0
      /\ n <= room => body \in Text /\ Len(body) = n
      /\ r = Pack(h, body, room)
  BY DEF IsPacked
<1>1. h.type = type /\ h.flags = flags /\ h.remaining = n
  BY DEF Header
<1>2. x \in Byte
  BY <1>0 DEF Byte
<1> HIDE DEF h
<1>3. PackHeader(h, room) = IF Violation(h) \/ (room > 0 /\ n >= Weight[5]) THEN Error
                            ELSE IF Len(head) + n > room THEN Nothing
                            ELSE Result(Len(head), head)
  BY <1>1 DEF PackHeader
<1> HIDE DEF D
<1>4. PackHeader(h, room) # Error /\ PackHeader(h, room) # Nothing
  BY <1>0 DEF Pack, Error, Nothing, Result, h
<1>5. /\ ~Violation(h) /\ ~(room > 0 /\ n >= Weight[5]) /\ ~(Len(head) + n > room)
      /\ PackHeader(h, room) = Result(Len(head), head)
  BY <1>3, <1>4
<1>6. n < Weight[5] /\ n <= room
  <2>1. Weight[5] \in Nat
    BY SMT DEF Weight
  <2>2. n < Weight[5]
    BY <1>0, <1>5, <2>1
  <2>3. D \in Text /\ Len(D) \in 1..4
    BY <1>0, <2>2, DigitsAre DEF D
  <2>4. Len(head) \in Nat
    BY <2>3 DEF Text
  <2> QED BY <1>0, <1>5, <2>2, <2>4
<1>7. body \in Text /\ Len(body) = n
  BY <1>0, <1>6
<1>8. D \in Text /\ Len(D) \in 1..4
  BY <1>0, <1>6, DigitsAre DEF D
<1>9. Len(head) = 1 + Len(D)
  BY <1>8 DEF Text
<1>10. /\ r.rv = Len(head) + Len(body) /\ r.bytes = head \o body
  <2>1. PackHeader(h, room).rv = 1 + Len(D) /\ PackHeader(h, room).bytes = head
    BY <1>5, <1>9 DEF Result
  <2>2. ~(1 + Len(D) <= 0)
    BY <1>8
  <2>3. r = Result(1 + Len(D) + Len(body), head \o body)
    BY <1>0, <2>1, <2>2 DEF Pack
  <2> QED BY <1>9, <2>3 DEF Result
<1>11. /\ r.bytes \in Text /\ Len(r.bytes) = 1 + Len(D) + n
  <2> DEFINE p == <<x>> \o D \o body
  <2>1. r.bytes = p
    BY <1>10
  <2>2. p \in Text /\ Len(p) = 1 + Len(D) + Len(body)
    <3> HIDE DEF x
    <3>1. HasBytes(p, x, D, body)
      BY <1>2, <1>7, <1>8, Parts, Zenon
    <3> HIDE DEF p
    <3> QED BY <3>1 DEF HasBytes
  <2> HIDE DEF p
  <2> QED BY <1>7, <2>1, <2>2
<1>12. UnpackHeader(r.bytes) = [rv |-> 1 + Len(D), header |-> h]
  <2>1. ~Violation(Header(type, flags, n)) /\ Len(body) >= n
    BY <1>5, <1>7 DEF h
  <2>2. UnpackHeader(<<x>> \o D \o body) = [rv |-> 1 + Len(D), header |-> Header(type, flags, n)]
    BY <1>0, <1>6, <1>7, <2>1, HeaderBack DEF D
  <2> QED BY <1>10, <2>2 DEF h
<1>13. r.rv = 1 + Len(D) + n /\ r.rv = Len(r.bytes) /\ r.rv <= room
  BY <1>0, <1>5, <1>7, <1>8, <1>9, <1>10, <1>11
<1> QED BY <1>7, <1>8, <1>10, <1>11, <1>12, <1>13 DEF D, h, IsExact

\* Numbers are what they are made of.
LEMMA Small ==
  /\ \A b \in Byte : b \in Nat /\ b < 256
  /\ \A w \in Word : w \in Nat
BY SMT DEF Byte, Word

\* A packet may have no body.
LEMMA EmptyText == <<>> \in Text /\ Len(<<>>) = 0
BY DEF Text

\* A number of 16 bits takes two bytes.
LEMMA TwoBytes ==
    ASSUME NEW n \in Nat
    PROVE  Uint16(n) \in Text /\ Len(Uint16(n)) = 2
<1> DEFINE high == (n \div 256) % 256
           low == n % 256
<1>1. high \in Byte /\ low \in Byte
  BY DEF Byte
<1>2. Uint16(n) = <<high, low>>
  BY DEF Uint16
<1> HIDE DEF high, low
<1> QED BY <1>1, <1>2 DEF Text

\* Strings are joined to a string.
LEMMA Joined ==
    ASSUME NEW s \in Text, NEW t \in Text
    PROVE  s \o t \in Text /\ Len(s \o t) = Len(s) + Len(t) /\ Len(s) \in Nat /\ Len(t) \in Nat
BY DEF Text

\* A string whose length fits into two bytes is packed whole.
LEMMA StrIs ==
    ASSUME NEW s \in Text, Len(s) < 1000
    PROVE  /\ Str(s) = Uint16(Len(s)) \o s
           /\ Str(s) \in Text /\ Len(Str(s)) = Len(s) + 2 /\ Strlen(s) = Len(s) + 2
<1> DEFINE k == Len(s)
<1>1. k \in Nat /\ k < 1000
  BY Typed
<1>2. SubSeq(s, 1, k) = s
  BY DEF Text
<1>3. Str(s) = Uint16(k % 65536) \o SubSeq(s, 1, k % 65536)
  BY SMT DEF Str
<1> DEFINE j == k % 65536
<1> HIDE DEF k
<1>4. j = k
  BY <1>1, SMT
<1>5. Str(s) = Uint16(k) \o s
  <2>1. Str(s) = Uint16(j) \o SubSeq(s, 1, j)
    BY <1>3
  <2> HIDE DEF j
  <2> QED BY <1>2, <1>4, <2>1, Zenon
<1>6. Uint16(k) \in Text /\ Len(Uint16(k)) = 2
  BY <1>1, TwoBytes, Zenon
<1>7. Uint16(k) \o s \in Text /\ Len(Uint16(k) \o s) = 2 + Len(s) /\ Len(s) \in Nat
  BY <1>6, Joined
<1> QED BY <1>5, <1>7 DEF Strlen, k

\* What a call consists of.
LEMMA CallIs ==
    ASSUME NEW r \in Call
    PROVE  /\ r.call = "invoke" /\ r.to \in Text /\ r.host \in Text /\ r.port \in Text
           /\ r.message \in Text /\ r.index \in DOMAIN Methods
           /\ Slash \notin ToSet(r.to) /\ r.message # <<>> /\ Len(r.message) <= MaxMessage
           /\ Len(Topic(r.to, r.index, r.host, r.port)) < 128
<1>1. r \in [call : {"invoke"}, to : Text, index : DOMAIN Methods, host : Text,
             port : Text, id : Word, message : Text]
  BY Zenon DEF Call
<1>2. /\ r.call = "invoke" /\ r.to \in Text /\ r.host \in Text /\ r.port \in Text
      /\ r.message \in Text /\ r.index \in DOMAIN Methods
  BY <1>1
<1>3. /\ Slash \notin ToSet(r.to) /\ r.message # <<>> /\ Len(r.message) <= MaxMessage
      /\ Len(Topic(r.to, r.index, r.host, r.port)) < 128
  BY Zenon DEF Call
<1> QED BY <1>2, <1>3, Zenon

\* What transport.invoke packs: a PUBLISH, its body a topic and a message.
LEMMA CallPacked ==
    ASSUME NEW r \in Call, MqttAssumption
    PROVE  LET topic == Topic(r.to, r.index, r.host, r.port)
           IN /\ topic \in Text /\ r.message \in Text
              /\ IsPacked(Packed(r), 3, 0, Len(topic) + 2 + Len(r.message), Str(topic) \o r.message,
                          256 + Len(r.message))
<1> DEFINE topic == Topic(r.to, r.index, r.host, r.port)
           message == r.message
<1>1. /\ r.call = "invoke" /\ r.to \in Text /\ r.host \in Text /\ r.port \in Text /\ message \in Text
      /\ r.index \in DOMAIN Methods /\ Len(topic) < 128
  BY CallIs
<1>2. topic \in Text
  <2>1. <<Slash>> \in Text
    BY DEF Slash, Text, Byte
  <2>2. Methods[r.index] \in Text
    BY <1>1 DEF MqttAssumption
  <2>3. r.to \o <<Slash>> \in Text
    BY <1>1, <2>1, Joined
  <2>4. r.to \o <<Slash>> \o Methods[r.index] \in Text
    BY <2>2, <2>3, Joined
  <2>5. r.to \o <<Slash>> \o Methods[r.index] \o <<Slash>> \in Text
    BY <2>1, <2>4, Joined
  <2>6. r.to \o <<Slash>> \o Methods[r.index] \o <<Slash>> \o r.host \in Text
    BY <1>1, <2>5, Joined
  <2>7. r.to \o <<Slash>> \o Methods[r.index] \o <<Slash>> \o r.host \o <<Slash>> \in Text
    BY <2>1, <2>6, Joined
  <2>8. r.to \o <<Slash>> \o Methods[r.index] \o <<Slash>> \o r.host \o <<Slash>> \o r.port \in Text
    BY <1>1, <2>7, Joined
  <2> QED BY <2>8 DEF Topic
<1> HIDE DEF topic, message
<1> DEFINE k == Len(topic)
<1>3. Str(topic) \in Text /\ Len(Str(topic)) = k + 2 /\ Strlen(topic) = k + 2
  <2>1. k \in Nat /\ k < 1000
    BY <1>1, <1>2, Typed
  <2> QED BY <1>2, <2>1, StrIs
<1> DEFINE body == Str(topic) \o message
<1>4. /\ k \in Nat /\ Len(message) \in Nat
      /\ body \in Text /\ Len(body) = k + 2 + Len(message)
  BY <1>1, <1>2, <1>3, Joined
<1> DEFINE l == Len(message)
<1> HIDE DEF k, l
<1>5. Packed(r) = Pack(Header(3, 0, k + 2 + l), body, 256 + l)
  <2>1. Packed(r) = PackPublish(topic, r.id, message, 0, 256 + l)
    BY <1>1 DEF Packed, invoke, topic, message, l
  <2>2. (0 \div 2) % 4 = 0 /\ 0 % 8 = 0 /\ ~(0 > 0) /\ 0 # 3
    OBVIOUS
  <2>3. Packed(r) = Pack(Header(MQTT.PUBLISH, 0, Strlen(topic) + Len(<<>>) + l),
                         Str(topic) \o <<>> \o message, 256 + l)
    BY <2>1, <2>2 DEF PackPublish, l
  <2>4. Str(topic) \o <<>> = Str(topic)
    BY <1>3 DEF Text
  <2>5. Len(<<>>) = 0 /\ MQTT.PUBLISH = 3
    BY DEF MQTT
  <2>6. Strlen(topic) + Len(<<>>) + l = k + 2 + l
    BY <1>3, <1>4, <2>5
  <2> QED BY <2>3, <2>4, <2>5, <2>6
<1>6. 256 + l \in Nat /\ 256 + l > 0 /\ k + 2 + l \in Nat
  BY <1>4 DEF l
<1>7. 3 \in 1..14 /\ 0 \in 0..15
  OBVIOUS
<1> QED BY <1>1, <1>2, <1>4, <1>5, <1>6, <1>7 DEF IsPacked, topic, message, k, l

\* What transport.begin packs: the header of CONNECT counts what is written,
\* whichever of the strings are missing.
LEMMA GreetingPacked ==
    ASSUME NEW r \in Greeting, Packed(r).rv > 0
    PROVE  r.room = 256 /\ \E n, body : IsPacked(Packed(r), 1, 0, n, body, 256)
<1>1. /\ r.call = "begin" /\ r.id \in Text /\ r.flags \in Byte /\ r.room = 256
      /\ r.user \in Text \cup {Missing} /\ r.password \in Text \cup {Missing} /\ r.alive \in Word
  BY DEF Greeting
<1> DEFINE given(s) == IfGiven(s, Strlen, 0)
           string(s) == IfGiven(s, Str, <<>>)
           clean == (r.flags \div 2) % 2
           flags == 2 * clean + IfGiven(r.user, LAMBDA s : 128, 0) + IfGiven(r.password, LAMBDA s : 64, 0)
           n == 10 + Strlen(r.id) + given(r.user) + given(r.password)
           name == Str(<<77, 81, 84, 84>>)
           body == name \o <<4, flags>> \o Uint16(r.alive) \o Str(r.id) \o string(r.user) \o string(r.password)
<1>2. Packed(r) = Pack(Header(1, 0, n), body, 256)
  <2>1. Packed(r) = PackConnect(r)
    BY <1>1 DEF Packed
  <2>2. PackConnect(r) = IF r.id = <<>> /\ clean = 0 THEN Error ELSE Pack(Header(MQTT.CONNECT, 0, n), body, r.room)
    BY DEF PackConnect
  <2>3. Error.rv = -1 /\ MQTT.CONNECT = 1
    BY DEF Error, Result, MQTT
  <2> HIDE DEF n, body, clean
  <2>4. ~(r.id = <<>> /\ clean = 0)
    BY <2>1, <2>2, <2>3
  <2> QED BY <1>1, <2>1, <2>2, <2>3, <2>4
<1>3. ASSUME NEW s \in Text \cup {Missing}
      PROVE  /\ given(s) \in Nat
             /\ given(s) < 1000 => string(s) \in Text /\ Len(string(s)) = given(s)
  <2>1. CASE s = Missing
    <3>1. given(s) = 0 /\ string(s) = <<>>
      BY <2>1 DEF IfGiven
    <3> HIDE DEF given, string
    <3> QED BY <3>1, EmptyText
  <2>2. CASE s # Missing
    <3>1. s \in Text /\ given(s) = Len(s) + 2 /\ string(s) = Str(s) /\ Len(s) \in Nat
      BY <2>2, Typed DEF IfGiven, Strlen
    <3> HIDE DEF given, string
    <3>2. CASE Len(s) < 1000
      BY <3>1, <3>2, StrIs DEF Strlen
    <3>3. CASE ~(Len(s) < 1000)
      BY <3>1, <3>3
    <3> QED BY <3>2, <3>3
  <2> QED BY <2>1, <2>2
<1>4. r.id \in Text /\ Len(r.id) \in Nat /\ Strlen(r.id) = Len(r.id) + 2
  BY <1>1, Typed DEF Strlen
<1> HIDE DEF given, string
<1>5. n \in Nat
  BY <1>1, <1>3, <1>4
<1>6. ASSUME n <= 256 PROVE body \in Text /\ Len(body) = n
  <2>1. /\ string(r.user) \in Text /\ Len(string(r.user)) = given(r.user)
        /\ string(r.password) \in Text /\ Len(string(r.password)) = given(r.password)
        /\ Len(r.id) < 1000
    BY <1>1, <1>3, <1>4, <1>6
  <2>2. Str(r.id) \in Text /\ Len(Str(r.id)) = Strlen(r.id)
    BY <1>4, <2>1, StrIs
  <2>3. name \in Text /\ Len(name) = 6
    <3> DEFINE word == <<77, 81, 84, 84>>
    <3>1. {77, 81, 84} \subseteq Byte
      BY DEF Byte
    <3>2. word \in Text /\ Len(word) = 4
      BY <3>1 DEF Text
    <3> HIDE DEF word
    <3>3. Len(word) < 1000
      BY <3>2
    <3>4. Str(word) \in Text /\ Len(Str(word)) = 4 + 2
      BY <3>2, <3>3, StrIs
    <3> QED BY <3>4 DEF word
  <2>4. <<4, flags>> \in Text /\ Len(<<4, flags>>) = 2
    <3>1. clean \in 0..1
      <4>1. r.flags \in Nat
        BY <1>1, Small
      <4>2. \A f \in Nat : (f \div 2) % 2 \in 0..1
        OBVIOUS
      <4> QED BY <4>1, <4>2
    <3>2. IfGiven(r.user, LAMBDA s : 128, 0) \in {0, 128} /\ IfGiven(r.password, LAMBDA s : 64, 0) \in {0, 64}
      BY DEF IfGiven
    <3> HIDE DEF clean
    <3>3. \A a \in {0, 128}, b \in {0, 64}, c \in 0..1 : 2 * c + a + b \in Byte
      BY DEF Byte
    <3>4. flags \in Byte
      BY <3>1, <3>2, <3>3
    <3>5. 4 \in Byte
      BY DEF Byte
    <3> HIDE DEF flags
    <3> QED BY <3>4, <3>5 DEF Text
  <2>5. Uint16(r.alive) \in Text /\ Len(Uint16(r.alive)) = 2
    <3>1. r.alive \in Nat
      BY <1>1, Small
    <3> QED BY <3>1, TwoBytes
  <2> DEFINE level == <<4, flags>>
             alive == Uint16(r.alive)
             id == Str(r.id)
  <2> HIDE DEF name, flags, level, alive, id
  <2> DEFINE s1 == name \o level
             s2 == s1 \o alive
             s3 == s2 \o id
             s4 == s3 \o string(r.user)
  <2>6. s1 \in Text /\ Len(s1) = 6 + 2
    BY <2>3, <2>4, Joined DEF level
  <2> HIDE DEF s1
  <2>7. s2 \in Text /\ Len(s2) = 6 + 2 + 2
    BY <2>5, <2>6, Joined DEF alive
  <2> HIDE DEF s2
  <2>8. s3 \in Text /\ Len(s3) = 10 + Strlen(r.id)
    <3>1. s3 \in Text /\ Len(s3) = Len(s2) + Len(id) /\ Len(id) = Strlen(r.id)
      BY <2>2, <2>7, Joined DEF id
    <3> QED BY <1>4, <2>7, <3>1
  <2> HIDE DEF s3
  <2>9. s4 \in Text /\ Len(s4) = 10 + Strlen(r.id) + given(r.user)
    BY <2>1, <2>8, Joined
  <2> HIDE DEF s4
  <2>10. s4 \o string(r.password) \in Text /\ Len(s4 \o string(r.password)) = n
    BY <2>1, <2>9, Joined
  <2> QED BY <2>10 DEF s4, s3, s2, s1, level, alive, id
<1> HIDE DEF n, body
<1>7. IsPacked(Packed(r), 1, 0, n, body, 256)
  BY <1>2, <1>5, <1>6 DEF IsPacked
<1> QED BY <1>1, <1>7

\* What is packed to subscribe: the header counts the id, the topic and a byte.
LEMMA SubscriptionPacked ==
    ASSUME NEW r \in Subscription
    PROVE  r.room = 512 /\ \E n, body : IsPacked(Packed(r), 8, 2, n, body, 512)
<1>1. r.call = "subscribe" /\ r.id \in Word /\ r.topic \in Text /\ r.qos = 0 /\ r.room = 512
  BY DEF Subscription
<1> DEFINE n == 2 + Strlen(r.topic) + 1
           body == Uint16(r.id) \o Str(r.topic) \o <<r.qos>>
<1>2. Packed(r) = Pack(Header(8, 2, n), body, 512)
  BY <1>1 DEF Packed, PackSubscribe, MQTT
<1>3. Len(r.topic) \in Nat /\ Strlen(r.topic) = Len(r.topic) + 2
  BY <1>1, Typed DEF Strlen
<1>4. n \in Nat
  BY <1>3
<1>5. ASSUME n <= 512 PROVE body \in Text /\ Len(body) = n
  <2>1. Len(r.topic) < 1000
    BY <1>3, <1>5
  <2>2. Str(r.topic) \in Text /\ Len(Str(r.topic)) = Strlen(r.topic)
    BY <1>1, <1>3, <2>1, StrIs
  <2>3. Uint16(r.id) \in Text /\ Len(Uint16(r.id)) = 2
    <3>1. r.id \in Nat
      BY <1>1, Small
    <3> QED BY <3>1, TwoBytes
  <2>4. <<r.qos>> \in Text /\ Len(<<r.qos>>) = 1
    <3>1. <<0>> \in Text /\ Len(<<0>>) = 1
      BY DEF Text, Byte
    <3> QED BY <1>1, <3>1
  <2> DEFINE s1 == Uint16(r.id) \o Str(r.topic)
  <2>5. s1 \in Text /\ Len(s1) = 2 + Strlen(r.topic)
    BY <2>2, <2>3, Joined
  <2> HIDE DEF s1
  <2>6. s1 \o <<r.qos>> \in Text /\ Len(s1 \o <<r.qos>>) = n
    BY <2>4, <2>5, Joined
  <2> QED BY <2>6 DEF s1
<1> HIDE DEF n, body
<1>6. IsPacked(Packed(r), 8, 2, n, body, 512)
  BY <1>2, <1>4, <1>5 DEF IsPacked
<1> QED BY <1>1, <1>6

\* What is packed to ping and to disconnect: a header.
LEMMA NoBodyPacked ==
    ASSUME NEW r \in [call : {"ping", "end"}, room : {16}]
    PROVE  r.room = 16 /\ \E type : IsPacked(Packed(r), type, 0, 0, <<>>, 16)
<1>1. r.call \in {"ping", "end"} /\ r.room = 16
  OBVIOUS
<1>2. <<>> \in Text /\ Len(<<>>) = 0
  BY DEF Text
<1>3. CASE r.call = "ping"
  <2>1. Packed(r) = Pack(Header(12, 0, 0), <<>>, 16)
    BY <1>1, <1>3 DEF Packed, PackPing, MQTT
  <2>2. IsPacked(Packed(r), 12, 0, 0, <<>>, 16)
    BY <1>2, <2>1 DEF IsPacked
  <2> QED BY <1>1, <2>2
<1>4. CASE r.call = "end"
  <2>1. Packed(r) = Pack(Header(14, 0, 0), <<>>, 16)
    BY <1>1, <1>4 DEF Packed, PackDisconnect, MQTT
  <2>2. IsPacked(Packed(r), 14, 0, 0, <<>>, 16)
    BY <1>2, <2>1 DEF IsPacked
  <2> QED BY <1>1, <2>2
<1> QED BY <1>1, <1>3, <1>4

-----------------------------------------------------------------------------
(* The lengths of a packet that comes *)

\* The lengths there are: no length of four bytes comes near 2^30.
Length == 0..(Weight[5] - 1)

\* Lengths are numbers.
LEMMA LengthType == Length \subseteq Nat
<1>1. Weight[5] \in Nat
  BY SMT DEF Weight
<1> QED BY <1>1 DEF Length

\* Four bytes of a length make no more than a length.
LEMMA RemainingBound ==
    ASSUME NEW buf \in Text, NEW d, HasDigits(buf, d)
    PROVE  Remaining(buf, d) \in Length
<1> DEFINE v(e) == IF e <= d THEN buf[e + 1] % 128 ELSE 0
           digit(e) == IF e <= d THEN (buf[e + 1] % 128) * Weight[e] ELSE 0
<1>1. ASSUME NEW e \in 1..4 PROVE v(e) \in 0..127 /\ digit(e) = v(e) * Weight[e]
  <2>1. CASE e <= d
    <3>1. buf[e + 1] \in Nat
      BY <2>1, Typed DEF HasDigits
    <3> QED BY <2>1, <3>1
  <2>2. CASE ~(e <= d)
    <3>1. Weight[e] \in Nat
      BY SMT DEF Weight
    <3>2. \A w \in Nat : 0 * w = 0
      OBVIOUS
    <3> QED BY <2>2, <3>1, <3>2
  <2> QED BY <2>1, <2>2
<1>2. Remaining(buf, d) = digit(1) + digit(2) + digit(3) + digit(4)
  BY DEF Remaining
<1> HIDE DEF v, digit
<1>3. \A a, b, c, e \in 0..127 :
        a * Weight[1] + b * Weight[2] + c * Weight[3] + e * Weight[4] \in Length
  BY SMT DEF Length, Weight
<1>4. v(1) * Weight[1] + v(2) * Weight[2] + v(3) * Weight[3] + v(4) * Weight[4] \in Length
  <2>1. v(1) \in 0..127 /\ v(2) \in 0..127 /\ v(3) \in 0..127 /\ v(4) \in 0..127
    BY <1>1
  <2> QED BY <1>3, <2>1, Zenon
<1>5. /\ digit(1) = v(1) * Weight[1] /\ digit(2) = v(2) * Weight[2]
      /\ digit(3) = v(3) * Weight[3] /\ digit(4) = v(4) * Weight[4]
  BY <1>1
<1> QED BY <1>2, <1>4, <1>5, Zenon

\* What a topic that is too long makes of what it leaves.
Below == {n \in Int : n < 0 /\ n + 65539 >= 0}

\* A difference is kept when it is a length; below zero it is a long one.
LEMMA Unsigned32Is ==
    ASSUME NEW n \in Int
    PROVE  /\ Unsigned32(n) \in Nat
           /\ n \in Length => Unsigned32(n) = n
           /\ n \in Below => Unsigned32(n) > Short
BY SMT DEF Unsigned32, Short, Length, Weight, Below

\* Two bytes make a number of 16 bits.
LEMMA UnpackUint16Type ==
    ASSUME NEW buf \in Text, NEW at \in Nat, at + 2 <= Len(buf)
    PROVE  UnpackUint16(buf, at) \in Word
<1>1. Len(buf) \in Nat
  BY Typed
<1>2. at + 1 \in 1..Len(buf) /\ at + 2 \in 1..Len(buf)
  BY <1>1
<1>3. buf[at + 1] \in Nat /\ buf[at + 1] < 256 /\ buf[at + 2] \in Nat /\ buf[at + 2] < 256
  BY <1>2, Typed
<1>4. \A x, y \in Nat : x < 256 /\ y < 256 => 256 * x + y \in Word
  BY SMT DEF Word
<1> QED BY <1>3, <1>4, Zenon DEF UnpackUint16

\* The fields of a PUBLISH that is not refused for its length are in the packet.
LEMMA PublishInside ==
    ASSUME NEW buf \in Text, NEW at \in Nat, NEW h, h.remaining \in Length,
           at + h.remaining <= Len(buf), at <= 5,
           UnpackPublish(h, buf, at) # Fails, ~(at + UnpackPublish(h, buf, at).rv > Short)
    PROVE  LET fields == UnpackPublish(h, buf, at)
           IN /\ fields.rv = h.remaining
              /\ fields.topic.from + fields.topic.length <= fields.message.from
              /\ fields.message.from + fields.message.length = at + fields.rv
<1> DEFINE fields == UnpackPublish(h, buf, at)
           fixed == IF (h.flags \div 2) % 4 = 0 THEN 2 ELSE 4
           topic == UnpackUint16(buf, at)
           rest == h.remaining - topic - fixed
           message == Unsigned32(rest)
<1>1. ~(h.remaining < 4)
  BY DEF UnpackPublish
<1>2. fields = [rv |-> fixed + topic + message,
                topic |-> Part(at + 2, topic), message |-> Part(at + fixed + topic, message)]
  BY <1>1 DEF UnpackPublish
<1>3. fixed \in {2, 4}
  OBVIOUS
<1>4. Len(buf) \in Nat
  BY Typed
<1>5. topic \in Word
  <2>0. h.remaining \in Nat
    BY LengthType
  <2>1. at + 2 <= Len(buf)
    BY <1>1, <1>4, <2>0
  <2> QED BY <2>1, UnpackUint16Type
<1> HIDE DEF fixed, topic
<1>6. rest \in Int /\ (rest \in Length \/ rest \in Below)
  <2>1. \A n \in Length, t \in Word, f \in {2, 4} :
          n - t - f \in Int /\ (n - t - f \in Length \/ n - t - f \in Below)
    <3>1. ASSUME NEW w \in Nat, NEW n \in 0..(w - 1), NEW t \in Word, NEW f \in {2, 4}
          PROVE  n - t - f \in Int /\ (n - t - f \in 0..(w - 1) \/ n - t - f \in Below)
      <4> DEFINE m == n - t - f
      <4>0. f \in Nat /\ f <= 4 /\ n \in Nat /\ n < w
        OBVIOUS
      <4>1. t \in Nat /\ t <= 65535
        BY SMT DEF Word
      <4>2. m \in Int /\ m < w /\ m + 65539 >= 0
        BY <4>0, <4>1, SMT
      <4> HIDE DEF m
      <4>3. m >= 0 => m \in 0..(w - 1)
        BY <4>2, SMT
      <4>4. m < 0 => m \in Below
        BY <4>2, SMT DEF Below
      <4>5. m \in Int /\ (m \in 0..(w - 1) \/ m \in Below)
        BY <4>2, <4>3, <4>4, SMT
      <4> QED BY <4>5, SMT DEF m
    <3>2. Weight[5] \in Nat
      BY SMT DEF Weight
    <3> QED BY <3>1, <3>2, Zenon DEF Length
  <2> QED BY <1>3, <1>5, <2>1, Zenon
<1>7. /\ message \in Nat /\ (rest \in Length => message = rest)
      /\ (rest \in Below => message > Short)
  <2> HIDE DEF rest
  <2> QED BY <1>6, Unsigned32Is, Zenon
<1>8. fixed + topic + message <= Short
  <2> HIDE DEF message
  <2>1. fields.rv = fixed + topic + message
    BY <1>2
  <2> HIDE DEF fields
  <2>2. topic \in Nat
    BY <1>5, Small
  <2>3. ~(at + fields.rv > Short)
    BY DEF fields
  <2>4. \A f \in {2, 4}, t, m \in Nat : ~(at + (f + t + m) > Short) => f + t + m <= Short
    BY SMT DEF Short
  <2> QED BY <1>3, <1>7, <2>1, <2>2, <2>3, <2>4, Zenon
<1>9. message = rest
  <2> HIDE DEF message, rest
  <2>1. topic \in Nat
    BY <1>5, Small
  <2>2. ~(message > Short)
    BY <1>3, <1>7, <1>8, <2>1 DEF Short
  <2> QED BY <1>6, <1>7, <2>2, Zenon
<1>10. fixed + topic + message = h.remaining /\ message \in Int /\ topic \in Int
  <2>1. topic \in Nat /\ h.remaining \in Nat
    BY <1>5, Small, LengthType
  <2> QED BY <1>3, <1>9, <2>1
<1> HIDE DEF message, fields
<1>11. /\ fields.rv = h.remaining
       /\ fields.topic.from = at + 2 /\ fields.topic.length = topic
       /\ fields.message.from = at + fixed + topic /\ fields.message.length = message
  BY <1>2, <1>10 DEF Part
<1> QED BY <1>3, <1>10, <1>11 DEF fields

\* Reading a header returns a number.
LEMMA HeaderNumber ==
    ASSUME NEW buf \in Text
    PROVE  UnpackHeader(buf).rv \in Int
<1> DEFINE last == {e \in 1..4 : e < Len(buf) /\ buf[e + 1] < 128}
<1>1. last # {} => Min(last) \in 1..4
  <2>1. last \subseteq 1..4
    OBVIOUS
  <2> HIDE DEF last
  <2> QED BY <2>1, LeastOfFour
<1>2. \/ UnpackHeader(buf) = Waits \/ UnpackHeader(buf) = Fails
      \/ last # {} /\ UnpackHeader(buf).rv = 1 + Min(last)
  BY DEF UnpackHeader
<1> HIDE DEF last
<1> QED BY <1>1, <1>2 DEF Waits, Fails

\* What the fields of a packet say of its length.
LEMMA FieldsInside ==
    ASSUME NEW buf \in Text, NEW at \in Nat, NEW h, h.remaining \in Length,
           at + h.remaining <= Len(buf), at <= 5,
           ~(Fields(h, buf, at).rv < 0), ~(at + Fields(h, buf, at).rv > Short)
    PROVE  LET fields == Fields(h, buf, at)
           IN /\ h.type # MQTT.PINGRESP => fields.rv = h.remaining
              /\ h.type = MQTT.PINGRESP => fields.rv = 0
              /\ h.type = MQTT.PUBLISH =>
                   /\ fields.topic.from + fields.topic.length <= fields.message.from
                   /\ fields.message.from + fields.message.length = at + fields.rv
<1> DEFINE fields == Fields(h, buf, at)
<1>1. fields # Fails
  BY DEF Fails
<1>2. MQTT.CONNACK = 2 /\ MQTT.PUBLISH = 3 /\ MQTT.PUBXXX = 4..7 /\ MQTT.SUBACK = 9
      /\ MQTT.UNSUBACK = 11 /\ MQTT.PINGRESP = 13
  BY DEF MQTT
<1>3. CASE h.type = 2
  <2>1. fields = UnpackConnack(h, buf, at)
    BY <1>2, <1>3 DEF Fields
  <2>2. h.remaining = 2 /\ fields.rv = 2
    BY <1>1, <2>1 DEF UnpackConnack
  <2> QED BY <1>2, <1>3, <2>2
<1>4. CASE h.type = 3
  <2>1. fields = UnpackPublish(h, buf, at)
    BY <1>2, <1>4 DEF Fields
  <2>2. /\ fields.rv = h.remaining
        /\ fields.topic.from + fields.topic.length <= fields.message.from
        /\ fields.message.from + fields.message.length = at + fields.rv
    <3>1. ~(at + fields.rv > Short)
      OBVIOUS
    <3> HIDE DEF fields
    <3> QED BY <1>1, <2>1, <3>1, PublishInside
  <2> QED BY <1>2, <1>4, <2>2
<1>5. CASE h.type \in 4..7
  <2>1. fields = UnpackPubxxx(h, buf, at)
    BY <1>2, <1>5 DEF Fields
  <2>2. h.remaining = 2 /\ fields.rv = 2
    BY <1>1, <2>1 DEF UnpackPubxxx
  <2> QED BY <1>2, <1>5, <2>2
<1>6. CASE h.type = 9
  <2>1. fields = UnpackSuback(h, buf, at)
    BY <1>2, <1>6 DEF Fields
  <2>2. fields.rv = h.remaining
    BY <1>1, <2>1 DEF UnpackSuback
  <2> QED BY <1>2, <1>6, <2>2
<1>7. CASE h.type = 11
  <2>1. fields = UnpackUnsuback(h, buf, at)
    BY <1>2, <1>7 DEF Fields
  <2>2. h.remaining = 2 /\ fields.rv = 2
    BY <1>1, <2>1 DEF UnpackUnsuback
  <2> QED BY <1>2, <1>7, <2>2
<1>8. CASE h.type = 13
  <2>1. fields = Waits
    BY <1>2, <1>8 DEF Fields
  <2> QED BY <1>2, <1>8, <2>1 DEF Waits
<1>9. CASE h.type \notin {2, 3, 9, 11, 13} \cup (4..7)
  <2>1. fields = Fails
    BY <1>2, <1>9, Zenon DEF Fields
  <2> QED BY <1>1, <2>1
<1>10. h.type \in {2, 3, 9, 11, 13} \cup (4..7) =>
         h.type = 2 \/ h.type = 3 \/ h.type \in 4..7 \/ h.type = 9 \/ h.type = 11 \/ h.type = 13
  OBVIOUS
<1> QED BY <1>3, <1>4, <1>5, <1>6, <1>7, <1>8, <1>9, <1>10, Zenon

\* What is taken of a buffer is what its header announces, and the parts of a
\* PUBLISH are inside of it.
LEMMA CommandInside ==
    ASSUME NEW buf \in Text, Command(buf).taken > 0
    PROVE  LET taken == Command(buf).taken
               response == Command(buf).response
               fields == response.fields
           IN /\ response.header.type # MQTT.PINGRESP =>
                   taken = UnpackHeader(buf).rv + response.header.remaining
              /\ taken <= Len(buf)
              /\ response.header.type = MQTT.PUBLISH =>
                   /\ fields.topic.from + fields.topic.length <= fields.message.from
                   /\ fields.message.from + fields.message.length = taken
<1> DEFINE response == Unpack(buf)
<1>1. /\ ~(response.rv <= 0) /\ ~(response.rv > Short)
      /\ Command(buf).taken = response.rv /\ Command(buf).response = response
  <2>1. [taken |-> -1].taken = -1 /\ ~(-1 > 0)
    OBVIOUS
  <2>2. Command(buf) # [taken |-> -1]
    BY <2>1
  <2>3. Command(buf) = [taken |-> response.rv, response |-> response]
        /\ ~(response.rv <= 0 \/ response.rv > Short)
    BY <2>2, Zenon DEF Command
  <2> HIDE DEF response
  <2> QED BY <2>3
<1>2. UnpackHeader(buf).rv > 0
  <2>1. ~(UnpackHeader(buf).rv <= 0)
    BY <1>1, Zenon DEF Unpack
  <2> QED BY <2>1, HeaderNumber
<1>3. PICK d \in 1..4 : HasDigits(buf, d)
  BY <1>2, HeaderHas
<1> DEFINE h == HeadOf(buf, d)
           fields == Fields(h, buf, 1 + d)
<1>4. /\ UnpackHeader(buf) = [rv |-> 1 + d, header |-> h]
      /\ h.remaining \in Nat /\ 1 + d + h.remaining <= Len(buf) /\ Len(buf) \in Nat
  BY <1>2, <1>3, HeaderFacts, Typed
<1>5. h.remaining \in Length
  BY <1>3, RemainingBound DEF HeadOf, Header
<1> HIDE DEF h
<1>6. ~(fields.rv < 0) /\ response = [rv |-> 1 + d + fields.rv, header |-> h, fields |-> fields]
  <2>1. UnpackHeader(buf).rv = 1 + d /\ UnpackHeader(buf).header = h /\ ~(1 + d <= 0)
    BY <1>4
  <2>2. response = IF fields.rv < 0 THEN Fails
                   ELSE [rv |-> 1 + d + fields.rv, header |-> h, fields |-> fields]
    BY <2>1, Zenon DEF Unpack
  <2>3. Fails.rv <= 0
    BY DEF Fails
  <2> HIDE DEF response, fields
  <2> QED BY <1>1, <2>2, <2>3, Zenon
<1> HIDE DEF response
<1>7. /\ response.rv = 1 + d + fields.rv /\ response.header = h /\ response.fields = fields
  <2> HIDE DEF fields
  <2> QED BY <1>6
<1>8. /\ h.type # MQTT.PINGRESP => fields.rv = h.remaining
      /\ h.type = MQTT.PINGRESP => fields.rv = 0
      /\ h.type = MQTT.PUBLISH =>
           /\ fields.topic.from + fields.topic.length <= fields.message.from
           /\ fields.message.from + fields.message.length = 1 + d + fields.rv
  <2>1. 1 + d \in Nat /\ 1 + d <= 5
    OBVIOUS
  <2>2. ~(1 + d + fields.rv > Short)
    BY <1>1, <1>7
  <2> QED BY <1>4, <1>5, <1>6, <2>1, <2>2, FieldsInside
<1> HIDE DEF fields
<1>9. 1 + d + fields.rv <= Len(buf)
  BY <1>4, <1>8
<1> QED BY <1>1, <1>4, <1>7, <1>8, <1>9

-----------------------------------------------------------------------------
(* The invariant *)

\* A packet is the one of the request, or of the broker; what came of it is what
\* the transport makes of the bytes that are there.
PacketInv ==
  /\ request \in Requests \cup {Missing}
  /\ packet # Missing /\ request # Missing => packet = Packed(request)
  /\ request = Missing => \E bytes \in Broker : packet = Result(Len(bytes), bytes)
  /\ came # Missing =>
       /\ packet # Missing /\ packet.rv > 0 /\ size \in Cuts(Len(packet.bytes))
       /\ came = [unpacked |-> Unpack(Buffer).rv, command |-> Command(Buffer)]

\* A packet is not mistaken for a missing one.
LEMMA ResultIs ==
    ASSUME MqttAssumption, NEW bytes \in Text
    PROVE  Result(Len(bytes), bytes) # Missing
<1>1. Result(Len(bytes), bytes) \in [rv : Int, bytes : Text]
  BY Typed DEF Result
<1> QED BY <1>1 DEF MqttAssumption

\* Nothing has come at first.
LEMMA PacketInitInv ==
    ASSUME MqttAssumption, PacketInit
    PROVE  PacketInv
BY DEF PacketInit, PacketInv, MqttAssumption

\* Sending and receiving keep the packet and what came of it together.
LEMMA PacketNextInv ==
    ASSUME MqttAssumption, PacketInv, [PacketNext]_packetVars
    PROVE  PacketInv'
<1>1. ASSUME Send PROVE PacketInv'
  <2>1. request # Missing
    <3>1. ASSUME NEW bytes \in Broker PROVE Result(Len(bytes), bytes) # Missing
      BY ResultIs DEF MqttAssumption
    <3> QED BY <1>1, <3>1 DEF Send, PacketInv
  <2>2. came = Missing
    BY <1>1 DEF Send, PacketInv
  <2> QED BY <1>1, <2>1, <2>2, Zenon DEF Send, PacketInv
<1>2. ASSUME Receive PROVE PacketInv'
  BY <1>2, Zenon DEF Receive, PacketInv
<1>3. ASSUME UNCHANGED packetVars PROVE PacketInv'
  BY <1>3, Zenon DEF packetVars, PacketInv, Buffer, Stream
<1> QED BY <1>1, <1>2, <1>3 DEF PacketNext

\* A request that was packed with success.
LEMMA RequestPacked ==
    ASSUME MqttAssumption, NEW r \in Requests, Packed(r).rv > 0
    PROVE  /\ \E type, flags, n, body, room :
                /\ IsPacked(Packed(r), type, flags, n, body, room)
                /\ "room" \in DOMAIN r => r.room = room
<1>1. CASE r \in Call
  <2>1. \E n, body, room : IsPacked(Packed(r), 3, 0, n, body, room)
    BY <1>1, CallPacked
  <2>2. "room" \notin DOMAIN r
    <3>1. r \in [call : {"invoke"}, to : Text, index : DOMAIN Methods, host : Text,
                 port : Text, id : Word, message : Text]
      BY <1>1, Zenon DEF Call
    <3> QED BY <3>1
  <2> QED BY <2>1, <2>2, Zenon
<1>2. CASE r \in Greeting
  BY <1>2, GreetingPacked
<1>3. CASE r \in Subscription
  BY <1>3, SubscriptionPacked
<1>4. CASE r \in [call : {"ping", "end"}, room : {16}]
  BY <1>4, NoBodyPacked
<1> QED BY <1>1, <1>2, <1>3, <1>4 DEF MqttAssumption

\* The memory holds the packet, and the header says what it should.
LEMMA PackedIs ==
    ASSUME NEW r, NEW type, NEW flags, NEW n, NEW body, NEW room,
           IsPacked(r, type, flags, n, body, room), r.rv > 0
    PROVE  /\ r.bytes \in Text /\ r.rv = Len(r.bytes) /\ r.rv <= room
           /\ UnpackHeader(r.bytes).rv + UnpackHeader(r.bytes).header.remaining = r.rv
<1> DEFINE D == Digits(n)
<1>1. /\ Len(D) \in 1..4 /\ r.rv = 1 + Len(D) + n
      /\ r.bytes \in Text /\ r.rv = Len(r.bytes) /\ r.rv <= room
      /\ UnpackHeader(r.bytes) = [rv |-> 1 + Len(D), header |-> Header(type, flags, n)]
  <2>1. IsExact(r, type, flags, n, body, room)
    BY Packs, Zenon
  <2> QED BY <2>1 DEF IsExact
<1> HIDE DEF D
<1>2. Header(type, flags, n).remaining = n /\ n \in Nat
  BY DEF Header, IsPacked
<1> QED BY <1>1, <1>2

\* What is sent is a string of bytes.
LEMMA PacketBytes ==
    ASSUME MqttAssumption, PacketInv, packet # Missing, packet.rv > 0
    PROVE  packet.bytes \in Text
<1>1. CASE request = Missing
  <2>1. PICK bytes \in Broker : packet = Result(Len(bytes), bytes)
    BY <1>1 DEF PacketInv
  <2> QED BY <2>1 DEF Result, MqttAssumption
<1>2. CASE request # Missing
  <2>1. request \in Requests /\ packet = Packed(request)
    BY <1>2 DEF PacketInv
  <2> QED BY <2>1, RequestPacked, PackedIs
<1> QED BY <1>1, <1>2

\* The header of each packet that is sent announces what is written.
LEMMA InvAnnounced ==
    ASSUME MqttAssumption, PacketInv
    PROVE  Announced
<1> SUFFICES ASSUME request # Missing, packet # Missing, packet.rv > 0
             PROVE  LET head == UnpackHeader(packet.bytes)
                    IN /\ packet.rv = Len(packet.bytes)
                       /\ head.rv + head.header.remaining = packet.rv
                       /\ "room" \in DOMAIN request => packet.rv <= request.room
  BY DEF Announced
<1>1. request \in Requests /\ packet = Packed(request)
  BY DEF PacketInv
<1>2. PICK type, flags, n, body, room :
        /\ IsPacked(packet, type, flags, n, body, room)
        /\ "room" \in DOMAIN request => request.room = room
  BY <1>1, RequestPacked
<1> QED BY <1>2, PackedIs

\* The bytes that are there begin the packet, or it begins them.
LEMMA BufferIs ==
    ASSUME packet.bytes \in Text, size \in Cuts(Len(packet.bytes))
    PROVE  /\ Buffer \in Text /\ Len(Buffer) = size
           /\ size <= Len(packet.bytes) => Begins(Buffer, packet.bytes)
           /\ size >= Len(packet.bytes) => Begins(packet.bytes, Buffer)
<1> DEFINE b == packet.bytes
           behind == <<16 * MQTT.PINGRESP, 0>>
<1>1. behind \in Text /\ Len(behind) = 2
  BY DEF MQTT, Text, Byte
<1>2. Stream = b \o behind
  BY DEF Stream
<1> HIDE DEF b, behind
<1>3. b \in Text
  BY DEF b
<1>4. Stream \in Text /\ Len(Stream) = Len(b) + 2 /\ Len(b) \in Nat
  BY <1>1, <1>2, <1>3, Joined
<1>5. \A i \in 1..Len(b) : Stream[i] = b[i]
  BY <1>1, <1>2, <1>3 DEF Text
<1>6. size \in 0..(Len(b) + 2)
  BY DEF Cuts, b
<1>7. Buffer \in Text /\ Len(Buffer) = size /\ \A i \in 1..size : Buffer[i] = Stream[i]
  <2>1. Stream \in Seq(Byte) /\ size \in 0..Len(Stream)
    BY <1>4, <1>6 DEF Text
  <2>2. ASSUME NEW s \in Seq(Byte), NEW n \in 0..Len(s)
        PROVE  /\ SubSeq(s, 1, n) \in Seq(Byte) /\ Len(SubSeq(s, 1, n)) = n
               /\ \A i \in 1..n : SubSeq(s, 1, n)[i] = s[i]
    <3>1. n \in Nat /\ n <= Len(s) /\ Len(s) \in Nat
      OBVIOUS
    <3>2. SubSeq(s, 1, n) \in Seq(Byte)
      BY <3>1
    <3>3. Len(SubSeq(s, 1, n)) = n
      BY <3>1
    <3>4. \A i \in 1..n : SubSeq(s, 1, n)[i] = s[i]
      BY <3>1
    <3> QED BY <3>2, <3>3, <3>4
  <2> QED BY <2>1, <2>2, Zenon DEF Buffer, Text
<1> QED BY <1>4, <1>5, <1>6, <1>7 DEF Begins, b

\* A cut packet is waited for, what is behind one is left.
LEMMA InvPrefixWaits ==
    ASSUME MqttAssumption, PacketInv
    PROVE  PrefixWaits
<1> DEFINE head == UnpackHeader(packet.bytes)
<1> SUFFICES ASSUME came # Missing, head.rv > 0
             PROVE  came.unpacked = IF size < head.rv + head.header.remaining THEN 0
                                    ELSE Unpack(packet.bytes).rv
  BY DEF PrefixWaits
<1>1. /\ packet # Missing /\ packet.rv > 0 /\ size \in Cuts(Len(packet.bytes))
      /\ came.unpacked = Unpack(Buffer).rv
  BY DEF PacketInv
<1>2. packet.bytes \in Text
  BY <1>1, PacketBytes
<1>3. /\ Buffer \in Text /\ Len(Buffer) = size
      /\ Begins(Buffer, packet.bytes) \/ Begins(packet.bytes, Buffer)
  <2>1. size <= Len(packet.bytes) \/ size >= Len(packet.bytes)
    <3>1. size \in Int /\ Len(packet.bytes) \in Nat
      BY <1>1, <1>2, Typed DEF Cuts
    <3> QED BY <3>1
  <2> QED BY <1>1, <1>2, <2>1, BufferIs
<1>4. Unpack(Buffer) = IF size < head.rv + head.header.remaining THEN Waits
                       ELSE Unpack(packet.bytes)
  BY <1>2, <1>3, UnpackPrefix
<1> QED BY <1>1, <1>4 DEF Waits

\* What is taken is inside of what has arrived.
LEMMA InvInside ==
    ASSUME MqttAssumption, PacketInv
    PROVE  Inside
<1> SUFFICES ASSUME came # Missing, came.command.taken > 0
             PROVE  Inside
  BY DEF Inside
<1>1. /\ packet # Missing /\ packet.rv > 0 /\ size \in Cuts(Len(packet.bytes))
      /\ came.command = Command(Buffer)
  BY DEF PacketInv
<1>2. packet.bytes \in Text
  BY <1>1, PacketBytes
<1>3. Buffer \in Text /\ Len(Buffer) = size
  BY <1>1, <1>2, BufferIs
<1>4. Command(Buffer).taken > 0
  BY <1>1
<1> QED BY <1>1, <1>3, <1>4, CommandInside, Zenon DEF Inside

\* Packets are sent and read exactly, for every request and whatever a broker
\* sends.
THEOREM PacketsAreExact == PacketSpec => []PacketExact
<1>1. PacketInit => PacketInv
  BY MqttAssumption, PacketInitInv
<1>2. PacketInv /\ [PacketNext]_packetVars => PacketInv'
  BY MqttAssumption, PacketNextInv
<1>3. PacketInv => PacketExact
  BY MqttAssumption, InvAnnounced, InvPrefixWaits, InvInside DEF PacketExact
<1> QED BY <1>1, <1>2, <1>3, PTL DEF PacketSpec

-----------------------------------------------------------------------------
(* The method of a topic *)

\* p is s and t.
IsJoined(p, s, t) ==
  /\ p \in Text /\ Len(p) = Len(s) + Len(t) /\ Len(s) \in Nat /\ Len(t) \in Nat
  /\ \A i \in 1..Len(s) : p[i] = s[i]
  /\ \A i \in 1..Len(t) : p[Len(s) + i] = t[i]

\* Each of two strings is where it was joined.
LEMMA JoinedAt ==
    ASSUME NEW s \in Text, NEW t \in Text
    PROVE  IsJoined(s \o t, s, t)
<1>1. s \in Seq(Byte) /\ t \in Seq(Byte)
  BY DEF Text
<1>2. /\ s \o t \in Text /\ Len(s \o t) = Len(s) + Len(t) /\ Len(s) \in Nat /\ Len(t) \in Nat
  BY Joined
<1>3. \A i \in 1..Len(s) : (s \o t)[i] = s[i]
  BY <1>1
<1>4. \A i \in 1..Len(t) : (s \o t)[Len(s) + i] = t[i]
  BY <1>1, <1>2
<1> QED BY <1>2, <1>3, <1>4 DEF IsJoined

\* A part of a string that has the bytes of another is the other.
LEMMA SubSeqIs ==
    ASSUME NEW t \in Text, NEW m \in Text, NEW at \in Nat, at + Len(m) <= Len(t),
           \A i \in 1..Len(m) : t[at + i] = m[i]
    PROVE  SubSeq(t, at + 1, at + Len(m)) = m
<1> DEFINE s == SubSeq(t, at + 1, at + Len(m))
<1>1. t \in Seq(Byte) /\ m \in Seq(Byte) /\ Len(m) \in Nat /\ Len(t) \in Nat
  BY Typed DEF Text
<1>2. s \in Seq(Byte) /\ Len(s) = Len(m)
  BY <1>1
<1>3. \A i \in 1..Len(m) : s[i] = m[i]
  BY <1>1
<1> HIDE DEF s
<1>4. s = m
  BY <1>1, <1>2, <1>3
<1> QED BY <1>4 DEF s

\* What is least is the minimum.
LEMMA LeastIs ==
    ASSUME NEW S, NEW m \in S, m \in Int, \A x \in S : x \in Int /\ m <= x
    PROVE  Min(S) = m
<1>1. Min(S) \in S /\ \A x \in S : Min(S) <= x
  BY DEF Min
<1>2. Min(S) \in Int /\ Min(S) <= m /\ m <= Min(S)
  BY <1>1
<1> QED BY <1>2

\* Where the parts of a topic are: the recipient and the method, and the slashes.
HasParts(t, to, method, host) ==
  LET a == Len(to) + 1
      b == a + Len(method) + 1
      c == b + Len(host) + 1
  IN /\ t \in Text /\ Len(t) \in Nat /\ c <= Len(t)
     /\ Len(to) \in Nat /\ Len(method) \in Nat /\ Len(host) \in Nat
     /\ \A i \in 1..Len(to) : t[i] = to[i]
     /\ \A i \in 1..Len(method) : t[a + i] = method[i]
     /\ t[a] = Slash /\ t[b] = Slash /\ t[c] = Slash

\* A topic has its parts one after the other.
LEMMA TopicParts ==
    ASSUME NEW to \in Text, NEW method \in Text, NEW host \in Text, NEW port \in Text
    PROVE  HasParts(to \o <<Slash>> \o method \o <<Slash>> \o host \o <<Slash>> \o port,
                    to, method, host)
<1> DEFINE slash == <<Slash>>
           a == Len(to) + 1
           b == a + Len(method) + 1
           c == b + Len(host) + 1
           t1 == to \o slash
           t2 == t1 \o method
           t3 == t2 \o slash
           t4 == t3 \o host
           t5 == t4 \o slash
           t == t5 \o port
<1>1. slash \in Text /\ Len(slash) = 1 /\ slash[1] = Slash /\ 1 \in 1..Len(slash)
  BY DEF Slash, Text, Byte
<1>2. Len(to) \in Nat /\ Len(method) \in Nat /\ Len(host) \in Nat
  BY Typed
<1> HIDE DEF slash
<1>3. t1 \in Text /\ Len(t1) = a /\ t1[a] = Slash /\ \A i \in 1..Len(to) : t1[i] = to[i]
  <2>1. IsJoined(t1, to, slash)
    BY <1>1, JoinedAt, Zenon
  <2> HIDE DEF t1
  <2> QED BY <1>2, <1>1, <2>1 DEF IsJoined
<1> HIDE DEF t1
<1>4. /\ t2 \in Text /\ Len(t2) = a + Len(method)
      /\ \A i \in 1..a : t2[i] = t1[i]
      /\ \A i \in 1..Len(method) : t2[a + i] = method[i]
  <2>1. IsJoined(t2, t1, method)
    BY <1>3, JoinedAt, Zenon
  <2> HIDE DEF t2
  <2> QED BY <1>2, <1>3, <2>1 DEF IsJoined
<1> HIDE DEF t2
<1>5. t3 \in Text /\ Len(t3) = b /\ t3[b] = Slash /\ \A i \in 1..(a + Len(method)) : t3[i] = t2[i]
  <2>1. IsJoined(t3, t2, slash)
    BY <1>1, <1>4, JoinedAt, Zenon
  <2> HIDE DEF t3
  <2> QED BY <1>2, <1>1, <1>4, <2>1 DEF IsJoined
<1> HIDE DEF t3
<1>6. t4 \in Text /\ Len(t4) = b + Len(host) /\ \A i \in 1..b : t4[i] = t3[i]
  <2>1. IsJoined(t4, t3, host)
    BY <1>5, JoinedAt, Zenon
  <2> HIDE DEF t4
  <2> QED BY <1>2, <1>5, <2>1 DEF IsJoined
<1> HIDE DEF t4
<1>7. t5 \in Text /\ Len(t5) = c /\ t5[c] = Slash /\ \A i \in 1..(b + Len(host)) : t5[i] = t4[i]
  <2>1. IsJoined(t5, t4, slash)
    BY <1>1, <1>6, JoinedAt, Zenon
  <2> HIDE DEF t5
  <2> QED BY <1>2, <1>1, <1>6, <2>1 DEF IsJoined
<1> HIDE DEF t5
<1>8. t \in Text /\ Len(t) = c + Len(port) /\ Len(port) \in Nat /\ \A i \in 1..c : t[i] = t5[i]
  <2>1. IsJoined(t, t5, port)
    BY <1>7, JoinedAt, Zenon
  <2> HIDE DEF t
  <2> QED BY <1>2, <1>7, <2>1 DEF IsJoined
<1> HIDE DEF t
<1>9. /\ t[c] = Slash
      /\ \A i \in 1..b : t[i] = t3[i]
      /\ \A i \in 1..(a + Len(method)) : t[i] = t2[i]
  BY <1>2, <1>5, <1>6, <1>7, <1>8
<1>10. t[b] = Slash
  BY <1>2, <1>5, <1>9
<1>11. /\ t[a] = Slash /\ \A i \in 1..Len(to) : t[i] = to[i]
       /\ \A i \in 1..Len(method) : t[a + i] = method[i]
  BY <1>2, <1>3, <1>4, <1>9
<1>12. Len(t) \in Nat /\ c <= Len(t)
  BY <1>2, <1>8
<1> QED BY <1>2, <1>8, <1>9, <1>10, <1>11, <1>12 DEF t, t5, t4, t3, t2, t1, slash, HasParts

\* The method of a topic is the one it was made of.
LEMMA MethodBack ==
    ASSUME NEW to \in Text, NEW method \in Text, NEW host \in Text, NEW port \in Text,
           Slash \notin ToSet(to), Slash \notin ToSet(method)
    PROVE  LET t == to \o <<Slash>> \o method \o <<Slash>> \o host \o <<Slash>> \o port
           IN TopicMethod(t) = method /\ Len(t) >= 3
<1> DEFINE t == to \o <<Slash>> \o method \o <<Slash>> \o host \o <<Slash>> \o port
           a == Len(to) + 1
           b == a + Len(method) + 1
           c == b + Len(host) + 1
           slashes == Slashes(t)
<1>1. /\ t \in Text /\ Len(t) \in Nat /\ c <= Len(t)
      /\ Len(to) \in Nat /\ Len(method) \in Nat /\ Len(host) \in Nat
      /\ \A i \in 1..Len(to) : t[i] = to[i]
      /\ \A i \in 1..Len(method) : t[a + i] = method[i]
      /\ t[a] = Slash /\ t[b] = Slash /\ t[c] = Slash
  <2>1. HasParts(t, to, method, host)
    BY TopicParts, Zenon
  <2> HIDE DEF t
  <2> QED BY <2>1 DEF HasParts
<1>2. /\ \A i \in 1..Len(to) : to[i] # Slash
      /\ \A i \in 1..Len(method) : method[i] # Slash
  BY DEF ToSet, Text
<1> HIDE DEF t
<1>3. slashes = {i \in 1..Len(t) : t[i] = Slash}
  BY <1>1 DEF Slashes, Text
<1> HIDE DEF slashes
<1>4. a \in slashes /\ b \in slashes /\ c \in slashes /\ a < b /\ b < c /\ a \in Nat /\ b \in Nat
  BY <1>1, <1>3
<1>5. ASSUME NEW i \in slashes PROVE i \in Nat /\ a <= i /\ (i # a => b <= i)
  <2>1. i \in 1..Len(t) /\ t[i] = Slash
    BY <1>3
  <2>2. i \notin 1..Len(to)
    BY <1>1, <1>2, <2>1
  <2>3. ASSUME i > a, i < b PROVE FALSE
    <3>1. i - a \in 1..Len(method) /\ a + (i - a) = i
      BY <1>1, <2>1, <2>3
    <3>2. t[i] = method[i - a]
      BY <1>1, <3>1
    <3> QED BY <1>2, <2>1, <3>1, <3>2
  <2> QED BY <1>1, <2>1, <2>2, <2>3
<1>6. Min(slashes) = a
  BY <1>4, <1>5, LeastIs
<1>7. Min(slashes \ {a}) = b
  <2> HIDE DEF a, b
  <2>1. b \in slashes \ {a}
    BY <1>4
  <2>2. b \in Int /\ \A i \in slashes \ {a} : i \in Int /\ b <= i
    BY <1>4, <1>5
  <2> QED BY <2>1, <2>2, LeastIs, Zenon
<1>8. ~(Cardinality(slashes) < 3)
  <2> HIDE DEF a, b, c
  <2>1. IsFiniteSet(slashes)
    <3>1. IsFiniteSet(1..Len(t))
      BY <1>1, FS_Interval
    <3>2. slashes \subseteq 1..Len(t)
      BY <1>3
    <3> QED BY <3>1, <3>2, FS_Subset
  <2>2. c \in Nat
    BY <1>4, <1>5
  <2>3. IsFiniteSet({}) /\ Cardinality({}) = 0
    BY FS_EmptySet
  <2>4. IsFiniteSet({a}) /\ Cardinality({a}) = 1
    BY FS_Singleton
  <2>5. IsFiniteSet({a, b}) /\ Cardinality({a, b}) = 2
    <3>1. b \notin {a} /\ {a} \cup {b} = {a, b}
      BY <1>4
    <3>2. IsFiniteSet({a} \cup {b}) /\ Cardinality({a} \cup {b}) = Cardinality({a}) + 1
      BY <2>4, <3>1, FS_AddElement, Zenon
    <3>3. Cardinality({a, b}) = 1 + 1
      BY <2>4, <3>1, <3>2, Zenon
    <3> QED BY <3>1, <3>2, <3>3
  <2>6. IsFiniteSet({a, b, c}) /\ Cardinality({a, b, c}) = 3
    <3>1. c # a /\ c # b
      <4>1. \A x, y, z \in Nat : x < y /\ y < z => z # x /\ z # y
        OBVIOUS
      <4> QED BY <1>4, <2>2, <4>1, Zenon
    <3>2. c \notin {a, b} /\ {a, b} \cup {c} = {a, b, c}
      BY <3>1
    <3>3. IsFiniteSet({a, b} \cup {c}) /\ Cardinality({a, b} \cup {c}) = Cardinality({a, b}) + 1
      BY <2>5, <3>2, FS_AddElement, Zenon
    <3>4. Cardinality({a, b, c}) = 2 + 1
      BY <2>5, <3>2, <3>3, Zenon
    <3> QED BY <3>2, <3>3, <3>4
  <2>7. {a, b, c} \subseteq slashes
    BY <1>4
  <2>8. 3 <= Cardinality(slashes)
    BY <2>1, <2>6, <2>7, FS_Subset
  <2>9. Cardinality(slashes) \in Nat
    BY <2>1, FS_CardinalityType
  <2> QED BY <2>8, <2>9
<1>9. SubSeq(t, a + 1, b - 1) = method
  <2>1. b - 1 = a + Len(method) /\ a + Len(method) <= Len(t) /\ a \in Nat
    BY <1>1
  <2>2. SubSeq(t, a + 1, a + Len(method)) = method
    <3> HIDE DEF a
    <3> QED BY <1>1, <2>1, SubSeqIs
  <2> QED BY <2>1, <2>2
<1>10. TopicMethod(t) = method
  <2> HIDE DEF a, b
  <2> QED BY <1>6, <1>7, <1>8, <1>9 DEF TopicMethod, slashes
<1>11. Len(t) >= 3
  BY <1>1
<1> QED BY <1>10, <1>11 DEF t

\* The number of the method that a topic names.
LEMMA MethodIs ==
    ASSUME MqttAssumption, NEW topic, NEW index \in DOMAIN Methods,
           TopicMethod(topic) = Methods[index]
    PROVE  Method(topic) = index
<1> DEFINE named == {i \in DOMAIN Methods : Methods[i] = TopicMethod(topic)}
           S == {0} \cup named
<1>1. index \in named /\ \A i \in named : i = index
  BY DEF MqttAssumption
<1>2. index \in Nat
  BY DEF MqttAssumption
<1> HIDE DEF named
<1>3. index \in S /\ \A i \in S : i \in Int /\ i <= index
  BY <1>1, <1>2
<1>4. Max(S) \in S /\ \A i \in S : i <= Max(S)
  <2> HIDE DEF S
  <2> QED BY <1>3 DEF Max
<1>5. Max(S) = index
  <2> HIDE DEF S
  <2>1. Max(S) \in Int /\ Max(S) <= index /\ index <= Max(S)
    BY <1>3, <1>4
  <2> QED BY <1>2, <2>1
<1> QED BY <1>5 DEF Method, named

\* The topic of a call names its method.
LEMMA TopicBack ==
    ASSUME MqttAssumption, NEW r \in Call
    PROVE  LET topic == Topic(r.to, r.index, r.host, r.port)
           IN Method(topic) = r.index /\ Len(topic) >= 3
<1> DEFINE topic == Topic(r.to, r.index, r.host, r.port)
<1>1. /\ r.to \in Text /\ r.host \in Text /\ r.port \in Text
      /\ r.index \in DOMAIN Methods /\ Slash \notin ToSet(r.to)
  BY CallIs
<1>2. Methods[r.index] \in Text /\ Slash \notin ToSet(Methods[r.index])
  BY <1>1 DEF MqttAssumption
<1>3. TopicMethod(topic) = Methods[r.index] /\ Len(topic) >= 3
  BY <1>1, <1>2, MethodBack, Zenon DEF Topic
<1> HIDE DEF topic
<1> QED BY <1>1, <1>3, MethodIs DEF topic

-----------------------------------------------------------------------------
(* The call at the other end *)

\* Where what a call was packed of is in the packet.
HasBody(p, at, topic, message) ==
  /\ UnpackUint16(p, at) = Len(topic)
  /\ \A i \in 1..Len(topic) : p[at + 2 + i] = topic[i]
  /\ \A i \in 1..Len(message) : p[at + 2 + Len(topic) + i] = message[i]

\* What is behind the header of a call is its topic and its message.
LEMMA BodyParts ==
    ASSUME NEW p, NEW x \in Byte, NEW D \in Text, NEW topic \in Text, NEW message \in Text,
           Len(topic) < 128, p = <<x>> \o D \o (Str(topic) \o message),
           NEW at, at = 1 + Len(D)
    PROVE  HasBody(p, at, topic, message)
<1> DEFINE k == Len(topic)
           length == Uint16(k)
           str == length \o topic
           body == str \o message
<1>1. k \in Nat /\ k < 128 /\ Len(D) \in Nat
  BY Typed
<1>2. Str(topic) = str
  <2>1. Len(topic) < 1000
    BY <1>1
  <2> QED BY <2>1, StrIs
<1>3. /\ length \in Text /\ Len(length) = 2 /\ length[1] = 0 /\ length[2] = k
  <2>0. ASSUME NEW n \in Nat, n < 128 PROVE (n \div 256) % 256 = 0 /\ n % 256 = n
    <3>1. n \div 256 = 0 /\ n % 256 = n
      BY <2>0, SMT
    <3>2. 0 % 256 = 0
      BY SMT
    <3> QED BY <3>1, <3>2, Zenon
  <2> HIDE DEF k
  <2>1. (k \div 256) % 256 = 0 /\ k % 256 = k
    BY <1>1, <2>0, Zenon
  <2>2. length = <<0, k>>
    BY <2>1, Zenon DEF Uint16
  <2>3. length \in Text /\ Len(length) = 2
    BY <1>1, TwoBytes, Zenon
  <2> HIDE DEF length
  <2> QED BY <2>2, <2>3
<1> HIDE DEF length
<1>4. IsJoined(str, length, topic)
  BY <1>3, JoinedAt, Zenon
<1> HIDE DEF str
<1>5. str \in Text /\ IsJoined(body, str, message)
  <2>1. str \in Text
    BY <1>4 DEF IsJoined
  <2> QED BY <2>1, JoinedAt, Zenon
<1> HIDE DEF body
<1>6. /\ body \in Text /\ Len(str) = 2 + k /\ Len(body) = 2 + k + Len(message)
      /\ body[1] = 0 /\ body[2] = k
      /\ \A i \in 1..k : body[2 + i] = topic[i]
      /\ \A i \in 1..Len(message) : body[2 + k + i] = message[i]
      /\ Len(message) \in Nat
  <2>1. Len(str) = 2 + k /\ \A i \in 1..2 : str[i] = length[i]
    BY <1>3, <1>4 DEF IsJoined
  <2>2. \A i \in 1..k : str[2 + i] = topic[i]
    BY <1>3, <1>4 DEF IsJoined
  <2>3. /\ body \in Text /\ Len(body) = 2 + k + Len(message) /\ Len(message) \in Nat
        /\ \A i \in 1..(2 + k) : body[i] = str[i]
        /\ \A i \in 1..Len(message) : body[2 + k + i] = message[i]
    BY <1>5, <2>1 DEF IsJoined
  <2>4. \A i \in 1..k : 2 + i \in 1..(2 + k)
    BY <1>1
  <2>5. 1 \in 1..(2 + k) /\ 2 \in 1..(2 + k) /\ 1 \in 1..2 /\ 2 \in 1..2
    BY <1>1
  <2> HIDE DEF k
  <2> QED BY <1>3, <2>1, <2>2, <2>3, <2>4, <2>5
<1>7. p = <<x>> \o D \o body
  BY <1>2 DEF body
<1>8. \A i \in 1..Len(body) : p[1 + Len(D) + i] = body[i]
  <2> DEFINE head == <<x>> \o D
  <2>1. head \in Text /\ Len(head) = 1 + Len(D)
    <3>1. <<x>> \in Text /\ Len(<<x>>) = 1
      BY DEF Text
    <3> QED BY <3>1, Joined
  <2> HIDE DEF head
  <2>2. IsJoined(head \o body, head, body)
    BY <1>6, <2>1, JoinedAt, Zenon
  <2>3. p = head \o body
    BY <1>7 DEF head
  <2> QED BY <2>1, <2>2, <2>3 DEF IsJoined
<1> DEFINE l == Len(message)
<1> HIDE DEF k, l
<1>9. p[at + 1] = 0 /\ p[at + 2] = k
  <2>1. 1 \in 1..Len(body) /\ 2 \in 1..Len(body)
    BY <1>1, <1>6
  <2> QED BY <1>6, <1>8, <2>1
<1>10. UnpackUint16(p, at) = k
  <2>1. UnpackUint16(p, at) = 256 * 0 + k
    BY <1>9, Zenon DEF UnpackUint16
  <2>2. k \in Nat
    BY <1>1 DEF k
  <2> QED BY <2>1, <2>2
<1>11. ASSUME NEW i \in 1..k PROVE p[at + 2 + i] = topic[i]
  <2>1. 2 + i \in 1..Len(body) /\ 1 + Len(D) + (2 + i) = at + 2 + i
    BY <1>1, <1>6
  <2> QED BY <1>6, <1>8, <2>1
<1>12. ASSUME NEW i \in 1..Len(message) PROVE p[at + 2 + k + i] = message[i]
  <2>1. 2 + k + i \in 1..Len(body) /\ 1 + Len(D) + (2 + k + i) = at + 2 + k + i
    BY <1>1, <1>6
  <2> QED BY <1>6, <1>8, <2>1
<1> QED BY <1>10, <1>11, <1>12 DEF k, HasBody

\* What a PUBLISH without a packet id is unpacked to, when its topic fits.
Published(at, k, l) ==
  [rv |-> at + (2 + k + l), header |-> Header(3, 0, k + 2 + l),
   fields |-> [rv |-> 2 + k + l, topic |-> Part(at + 2, k), message |-> Part(at + 2 + k, l)]]

\* Such a packet is taken whole.
LEMMA PublishBack ==
    ASSUME NEW p \in Text, NEW at \in 2..5, NEW k \in Nat, NEW l \in Nat,
           k >= 2, k < 128, l <= MaxMessage,
           UnpackHeader(p) = [rv |-> at, header |-> Header(3, 0, k + 2 + l)],
           UnpackUint16(p, at) = k
    PROVE  Unpack(p) = Published(at, k, l)
<1> DEFINE h == Header(3, 0, k + 2 + l)
           fields == Fields(h, p, at)
<1>1. h.type = 3 /\ h.flags = 0 /\ h.remaining = k + 2 + l
  BY DEF Header
<1> HIDE DEF h
<1>2. fields = UnpackPublish(h, p, at)
  BY <1>1 DEF Fields, MQTT
<1>3. Unsigned32(h.remaining - k - 2) = l
  <2>1. l \in Length
    BY SMT DEF Length, Weight, MaxMessage
  <2>2. h.remaining - k - 2 = l
    BY <1>1
  <2> QED BY <2>1, <2>2, Unsigned32Is
<1>4. fields = [rv |-> 2 + k + l, topic |-> Part(at + 2, k), message |-> Part(at + 2 + k, l)]
  <2>1. (h.flags \div 2) % 4 = 0 /\ ~(h.remaining < 4)
    BY <1>1
  <2> QED BY <1>2, <1>3, <2>1, Zenon DEF UnpackPublish
<1> HIDE DEF fields
<1>5. UnpackHeader(p).rv = at /\ UnpackHeader(p).header = h /\ ~(at <= 0)
  BY DEF h
<1>6. fields.rv = 2 + k + l /\ ~(fields.rv < 0)
  BY <1>4
<1>7. Unpack(p) = [rv |-> at + (2 + k + l), header |-> h, fields |-> fields]
  BY <1>5, <1>6, Zenon DEF Unpack, fields
<1> QED BY <1>4, <1>7, Zenon DEF h, Published

\* What is published is called.
LEMMA InvMethodKept ==
    ASSUME MqttAssumption, PacketInv
    PROVE  MethodKept
<1> SUFFICES ASSUME request # Missing, request.call = "invoke", came # Missing, size >= packet.rv
             PROVE  /\ came.command.taken = packet.rv
                    /\ Called(came.command.response, Buffer) =
                         [method |-> request.index, message |-> request.message]
  BY DEF MethodKept
<1>1. /\ request \in Requests /\ packet = Packed(request) /\ packet.rv > 0
      /\ size \in Cuts(Len(packet.bytes)) /\ came.command = Command(Buffer)
  BY DEF PacketInv
<1>2. request \in Call
  <2>1. request \notin Greeting /\ request \notin Subscription
        /\ request \notin [call : {"ping", "end"}, room : {16}]
    BY DEF Greeting, Subscription
  <2> QED BY <1>1, <2>1, Zenon DEF MqttAssumption
<1> DEFINE topic == Topic(request.to, request.index, request.host, request.port)
           message == request.message
           k == Len(topic)
           l == Len(message)
           D == Digits(k + 2 + l)
           at == 1 + Len(D)
           bytes == packet.bytes
<1>3. /\ topic \in Text /\ message \in Text
      /\ IsPacked(packet, 3, 0, k + 2 + l, Str(topic) \o message, 256 + l)
  BY <1>1, <1>2, CallPacked
<1>4. l <= MaxMessage /\ k < 128
  BY <1>2, CallIs
<1>5. Method(topic) = request.index /\ k >= 3
  BY <1>2, TopicBack
<1>6. k \in Nat /\ l \in Nat
  BY <1>3, Typed
<1>7. IsExact(packet, 3, 0, k + 2 + l, Str(topic) \o message, 256 + l)
  BY <1>1, <1>3, Packs, Zenon
<1>8. /\ D \in Text /\ Len(D) \in 1..4 /\ packet.rv = 1 + Len(D) + (k + 2 + l)
      /\ bytes = <<16 * 3 + 0>> \o D \o (Str(topic) \o message)
      /\ bytes \in Text /\ packet.rv = Len(bytes)
      /\ UnpackHeader(bytes) = [rv |-> at, header |-> Header(3, 0, k + 2 + l)]
  <2> HIDE DEF topic, message, k, l
  <2> QED BY <1>7, Zenon DEF IsExact
<1> HIDE DEF topic, message, k, l, D, bytes
<1>9. /\ UnpackUint16(bytes, at) = k
      /\ \A i \in 1..k : bytes[at + 2 + i] = topic[i]
      /\ \A i \in 1..l : bytes[at + 2 + k + i] = message[i]
  <2>1. 16 * 3 + 0 \in Byte
    BY DEF Byte
  <2>2. Len(topic) < 128
    BY <1>4 DEF k
  <2> DEFINE x == 16 * 3 + 0
  <2> HIDE DEF x
  <2>3. x \in Byte /\ bytes = <<x>> \o D \o (Str(topic) \o message)
    BY <1>8, <2>1 DEF x
  <2>4. HasBody(bytes, at, topic, message)
    BY <1>3, <1>8, <2>2, <2>3, BodyParts, Zenon
  <2> HIDE DEF at
  <2> QED BY <2>4 DEF HasBody, k, l
<1>10. at \in 2..5 /\ packet.rv = at + 2 + k + l
  <2>1. \A d \in 1..4, x, y \in Nat :
          1 + d \in 2..5 /\ 1 + d + (x + 2 + y) = 1 + d + 2 + x + y
    OBVIOUS
  <2>2. packet.rv = 1 + Len(D) + (k + 2 + l) /\ Len(D) \in 1..4
    BY <1>8
  <2> QED BY <1>6, <2>1, <2>2, Zenon
<1> HIDE DEF at
<1>11. /\ Buffer \in Text /\ Len(Buffer) = size /\ Begins(bytes, Buffer)
  <2>1. size >= Len(packet.bytes)
    BY <1>8 DEF bytes
  <2> QED BY <1>1, <1>8, <2>1, BufferIs DEF bytes
<1> DEFINE h == Header(3, 0, k + 2 + l)
           f == [rv |-> 2 + k + l, topic |-> Part(at + 2, k), message |-> Part(at + 2 + k, l)]
           response == Published(at, k, l)
<1>12. Unpack(bytes) = response
  <2>1. k >= 2
    BY <1>5, <1>6
  <2>2. bytes \in Text /\ UnpackHeader(bytes) = [rv |-> at, header |-> Header(3, 0, k + 2 + l)]
    BY <1>8, Zenon
  <2>3. UnpackUint16(bytes, at) = k /\ at \in 2..5
    BY <1>9, <1>10, Zenon
  <2> QED BY <1>4, <1>6, <2>1, <2>2, <2>3, PublishBack, Zenon
<1>13. Unpack(Buffer) = response
  <2>1. UnpackHeader(bytes).rv = at /\ UnpackHeader(bytes).header.remaining = k + 2 + l
    BY <1>8 DEF Header
  <2>2. at > 0 /\ ~(size < at + (k + 2 + l))
    <3>1. size \in Int
      BY <1>8, <1>11, Typed DEF Begins
    <3> QED BY <1>6, <1>10, <3>1
  <2>3. Unpack(Buffer) = IF Len(Buffer) < at + (k + 2 + l) THEN Waits ELSE Unpack(bytes)
    <3>1. UnpackHeader(bytes).rv > 0
      BY <2>1, <2>2
    <3> QED BY <1>8, <1>11, <2>1, <3>1, UnpackPrefix
  <2> QED BY <1>11, <1>12, <2>2, <2>3
<1>14. /\ response.rv = packet.rv /\ ~(response.rv <= 0) /\ ~(response.rv > Short)
       /\ response.header.type = 3 /\ response.fields = f
  <2>1. response.rv = at + (2 + k + l) /\ response.header = h /\ response.fields = f /\ h.type = 3
    BY DEF Header, Published
  <2> HIDE DEF response
  <2>2. at + (2 + k + l) = packet.rv /\ ~(packet.rv <= 0)
    <3>1. \A a \in 2..5, x, y \in Nat : a + (2 + x + y) = a + 2 + x + y /\ ~(a + 2 + x + y <= 0)
      OBVIOUS
    <3>2. at + (2 + k + l) = at + 2 + k + l /\ ~(at + 2 + k + l <= 0)
      BY <1>6, <1>10, <3>1, Zenon
    <3> QED BY <1>10, <3>2, Zenon
  <2>3. \A a \in 2..5, x, y \in Nat : x < 128 /\ y <= MaxMessage => ~(a + (2 + x + y) > Short)
    BY SMT DEF Short, MaxMessage
  <2>4. ~(at + (2 + k + l) > Short)
    BY <1>4, <1>6, <1>10, <2>3, Zenon
  <2> QED BY <2>1, <2>2, <2>4, Zenon
<1> HIDE DEF response
<1>15. Command(Buffer) = [taken |-> packet.rv, response |-> response]
  <2>1. Refused(response, Buffer) = FALSE
    BY <1>14 DEF Refused, MQTT
  <2> QED BY <1>13, <1>14, <2>1, Zenon DEF Command
<1>16. /\ Len(Buffer) \in Nat /\ at + 2 + k + l <= Len(Buffer)
       /\ \A i \in 1..(at + 2 + k + l) : Buffer[i] = bytes[i]
  <2>1. Len(bytes) = at + 2 + k + l /\ Len(Buffer) \in Nat
    BY <1>8, <1>10, <1>11, Typed
  <2>2. Len(bytes) <= Len(Buffer) /\ \A i \in 1..Len(bytes) : Buffer[i] = bytes[i]
    BY <1>11, Zenon DEF Begins
  <2> QED BY <2>1, <2>2
<1>17. Bytes(Buffer, f.topic) = topic
  <2>1. at + 2 \in Nat /\ at + 2 + k <= Len(Buffer)
    BY <1>6, <1>10, <1>16
  <2>2. ASSUME NEW i \in 1..k PROVE Buffer[at + 2 + i] = topic[i]
    <3>1. at + 2 + i \in 1..(at + 2 + k + l)
      BY <1>6, <1>10
    <3> QED BY <1>9, <1>16, <3>1, Zenon
  <2>3. SubSeq(Buffer, at + 2 + 1, at + 2 + k) = topic
    BY <1>3, <1>11, <2>1, <2>2, SubSeqIs DEF k
  <2> QED BY <2>3 DEF Bytes, Part
<1>18. Bytes(Buffer, f.message) = message
  <2>1. at + 2 + k \in Nat /\ at + 2 + k + l <= Len(Buffer)
    BY <1>6, <1>10, <1>16
  <2>2. ASSUME NEW i \in 1..l PROVE Buffer[at + 2 + k + i] = message[i]
    <3>1. at + 2 + k + i \in 1..(at + 2 + k + l)
      BY <1>6, <1>10
    <3> QED BY <1>9, <1>16, <3>1, Zenon
  <2>3. SubSeq(Buffer, at + 2 + k + 1, at + 2 + k + l) = message
    BY <1>3, <1>11, <2>1, <2>2, SubSeqIs DEF l
  <2> QED BY <2>3 DEF Bytes, Part
<1>19. Called(response, Buffer) = [method |-> request.index, message |-> request.message]
  <2>1. response.header.type = MQTT.PUBLISH
    BY <1>14 DEF MQTT
  <2> HIDE DEF f
  <2> QED BY <1>5, <1>14, <1>17, <1>18, <2>1, Zenon DEF Called, message
<1> QED BY <1>1, <1>15, <1>19

\* A call that is published reaches the method it is for, with its message, for
\* every name, host, port and message there is room for.
THEOREM MethodIsKept == PacketSpec => []MethodKept
<1>1. PacketInit => PacketInv
  BY MqttAssumption, PacketInitInv
<1>2. PacketInv /\ [PacketNext]_packetVars => PacketInv'
  BY MqttAssumption, PacketNextInv
<1>3. PacketInv => MethodKept
  BY MqttAssumption, InvMethodKept
<1> QED BY <1>1, <1>2, <1>3, PTL DEF PacketSpec
=============================================================================
