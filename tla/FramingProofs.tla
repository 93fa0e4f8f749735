----------------------------- MODULE FramingProofs -----------------------------
(***************************************************************************)
(* The inductive invariant of Framing and the theorems that follow from    *)
(* it, for every set of well-formed streams, chunk and bound.              *)
(***************************************************************************)
EXTENDS Framing, SequenceTheorems, WellFoundedInduction, FiniteSetTheorems, TLAPS

(* Where the k-th message ends. *)
Edge(k) == IF k = 0 THEN 0 ELSE stream[k].end

(* The message that begins where the chunk does. *)
Next1 == Len(frames) + 1

(* TCP: the chunk begins where the last frame ended, and a body that is     *)
(* awaited is that of the next message.  The buffer is not aligned only     *)
(* behind a message that was not accepted.                                  *)
Tcp ==
    ~Datagrams =>
    /\ base + begin = Edge(Len(frames))
    /\ base + end <= Total
    /\ done # begin =>
          /\ Len(frames) < Len(stream)
          /\ base + done = stream[Next1].end
    /\ begin > 0 => LastRefused

(* Only an open event is in the loop. *)
Running == looping => closed = "no"

(* UDP: what is in the chunk belongs to one message. *)
Udp ==
    Datagrams /\ end # begin =>
    \E m \in 1..Len(stream) :
        /\ base + begin = stream[m].start
        /\ base + end <= stream[m].end
        /\ done # begin => base + done = stream[m].end

(* The packets taken off the queue. *)
Popped == queued - Len(outgoing)

(* The packets in the queue are the last ones queued, and only the first    *)
(* may have been sent in part.                                              *)
Queue ==
    /\ Len(outgoing) <= queued
    /\ \A k \in 1..Len(outgoing) :
          /\ outgoing[k].id = Popped + k
          /\ outgoing[k].len > 0 /\ outgoing[k].done <= outgoing[k].len
          /\ k > 1 => outgoing[k].done = 0

(* The first packet is partly sent: the last part written is of it. *)
Partly == outgoing # <<>> /\ outgoing[1].done > 0

(* What was written last fits what is to be written next. *)
Meet ==
    IF Partly
    THEN /\ wire # <<>>
         /\ wire[Len(wire)].id = Popped + 1
         /\ wire[Len(wire)].to = outgoing[1].done
         /\ wire[Len(wire)].len = outgoing[1].len
    ELSE IF wire = <<>> THEN Popped = 0
    ELSE /\ wire[Len(wire)].id = Popped
         /\ wire[Len(wire)].to = wire[Len(wire)].len

Wire == Queue /\ Meet /\ WireExact

Inv ==
    /\ TypeOK
    /\ FramesAreMessages /\ FramesInOrder
    /\ Tcp /\ Udp /\ WaitsBehindRefused /\ FullBehindRefused /\ Running
    /\ Wire

(* The two halves of TypeOK: what is read and what is written. *)
InTypes ==
    /\ stream \in Streams
    /\ base \in Nat /\ begin \in 0..end /\ end \in 0..Length
    /\ done \in Nat /\ begin <= done
    /\ looping \in BOOLEAN /\ closed \in {"no", "peer", "full"}
    /\ frames \in Seq(Frame)

OutTypes ==
    /\ outgoing \in Seq(Packet) /\ writing \in BOOLEAN
    /\ queued \in Nat /\ wire \in Seq(Part)

-----------------------------------------------------------------------------
(* Streams *)

(* What holds of 0 and is passed on from i to i + 1 holds of every i: the   *)
(* sets 1..x have a least one among those whose x is left out.              *)
LEMMA CountsUp ==
    ASSUME NEW S, 0 \in S, \A i \in Nat : i \in S => i + 1 \in S
    PROVE  Nat \subseteq S
<1> SUFFICES ASSUME ~(Nat \subseteq S) PROVE FALSE
  OBVIOUS
<1> DEFINE Left == {1..x : x \in Nat \ S}
<1>1. Left \subseteq FiniteSubsetsOf(Nat) /\ Left # {}
  <2>1. \A x \in Nat \ S : IsFiniteSet(1..x) /\ 1..x \subseteq Nat
    BY FS_Interval
  <2> QED
    BY <2>1 DEF FiniteSubsetsOf
<1>2. PICK m \in Left : \A l \in Left : <<l, m>> \notin StrictSubsetOrdering(Nat)
  <2> HIDE DEF Left
  <2> QED
    BY <1>1, WFMin, FS_StrictSubsetOrderingWellFounded
<1>3. PICK x \in Nat \ S : m = 1..x
  OBVIOUS
<1>4. x - 1 \in Nat \ S
  OBVIOUS
<1>5. /\ 1..(x - 1) \in SUBSET Nat /\ m \in SUBSET Nat
      /\ 1..(x - 1) \subseteq m /\ 1..(x - 1) # m
  BY <1>3, <1>4
<1>6. <<1..(x - 1), m>> \in StrictSubsetOrdering(Nat)
  BY <1>5 DEF StrictSubsetOrdering
<1> QED
  BY <1>2, <1>4, <1>6

(* A message begins behind all that come before it, since each begins where *)
(* its neighbour ends.                                                      *)
LEMMA Behind ==
    ASSUME NEW s, WellFormed(s)
    PROVE  \A k \in 1..Len(s) : \A j \in 1..(k - 1) : s[j].end <= s[k].start
<1>1. /\ s \in Seq(Message) /\ Len(s) \in Nat
      /\ \A k \in 1..Len(s) : /\ s[k].start \in Nat /\ s[k].head \in Nat /\ s[k].end \in Nat
                             /\ s[k].start < s[k].head /\ s[k].head <= s[k].end
                             /\ s[k].start = IF k = 1 THEN 0 ELSE s[k - 1].end
  <2>1. /\ s \in Seq(Message) /\ Len(s) \in Nat
        /\ \A k \in 1..Len(s) : s[k] \in Message
    BY DEF WellFormed
  <2>2. \A m \in Message : m.start \in Nat /\ m.head \in Nat /\ m.end \in Nat
    BY DEF Message
  <2> QED
    BY <2>1, <2>2 DEF WellFormed
<1> DEFINE S == {k \in Nat : k <= Len(s) => \A j \in 1..(k - 1) : s[j].end <= s[k].start}
<1>2. 0 \in S
  OBVIOUS
<1>3. ASSUME NEW k \in Nat, k \in S PROVE k + 1 \in S
  <2>1. SUFFICES ASSUME k + 1 <= Len(s), NEW j \in 1..k
                 PROVE  s[j].end <= s[k + 1].start
    OBVIOUS
  <2>2. k \in 1..Len(s) /\ k + 1 \in 1..Len(s) /\ j \in 1..Len(s)
    BY <1>1, <2>1
  <2>3. s[k + 1].start = s[k].end /\ s[k].start <= s[k].end
    BY <1>1, <2>2
  <2>4. CASE j = k
    BY <1>1, <2>2, <2>3, <2>4
  <2>5. CASE j # k
    <3>1. s[j].end <= s[k].start
      BY <1>3, <2>1, <2>2, <2>5
    <3> QED
      BY <1>1, <2>2, <2>3, <3>1
  <2> QED
    BY <2>4, <2>5
<1> HIDE DEF S
<1>4. Nat \subseteq S
  BY <1>2, <1>3, CountsUp
<1>5. ASSUME NEW k \in 1..Len(s)
      PROVE  \A j \in 1..(k - 1) : s[j].end <= s[k].start
  <2>1. k \in S /\ k <= Len(s)
    BY <1>1, <1>4
  <2> QED
    BY <2>1 DEF S
<1> QED
  BY <1>5

(* The facts about the stream every lemma uses. *)
LEMMA StreamFacts ==
    ASSUME stream \in Streams
    PROVE  /\ Len(stream) \in Nat
           /\ \A k \in 1..Len(stream) :
                 /\ stream[k] \in Message
                 /\ stream[k].start \in Nat /\ stream[k].head \in Nat
                 /\ stream[k].end \in Nat /\ stream[k].kind \in Kinds
                 /\ stream[k].start < stream[k].head
                 /\ stream[k].head <= stream[k].end
                 /\ stream[k].start = Edge(k - 1)
                 /\ \A j \in 1..(k - 1) : stream[j].end <= stream[k].start
<1>1. WellFormed(stream)
  BY FramingAssumption
<1>2. stream \in Seq(Message) /\ Len(stream) \in Nat
  BY <1>1 DEF WellFormed
<1>3. ASSUME NEW k \in 1..Len(stream)
      PROVE  /\ stream[k] \in Message
             /\ stream[k].start < stream[k].head
             /\ stream[k].head <= stream[k].end
             /\ stream[k].start = IF k = 1 THEN 0 ELSE stream[k - 1].end
             /\ \A j \in 1..(k - 1) : stream[j].end <= stream[k].start
  BY <1>1, <1>2, Behind DEF WellFormed
<1>4. ASSUME NEW k \in 1..Len(stream)
      PROVE  stream[k].start = Edge(k - 1)
  BY <1>2, <1>3 DEF Edge
<1> QED
  BY <1>2, <1>3, <1>4 DEF Message

(* The ends of messages grow. *)
LEMMA Later ==
    ASSUME stream \in Streams
    PROVE  \A j, k \in 1..Len(stream) : j < k =>
              /\ stream[j].end <= stream[k].start
              /\ stream[j].head <= stream[k].start
              /\ stream[j].start < stream[k].start
              /\ stream[j].end < stream[k].end
<1> SUFFICES ASSUME NEW j \in 1..Len(stream), NEW k \in 1..Len(stream), j < k
             PROVE  /\ stream[j].end <= stream[k].start
                    /\ stream[j].head <= stream[k].start
                    /\ stream[j].start < stream[k].start
                    /\ stream[j].end < stream[k].end
  OBVIOUS
<1>1. Len(stream) \in Nat /\ j \in 1..(k - 1)
  BY StreamFacts
<1>2. /\ stream[j].start \in Nat /\ stream[j].head \in Nat /\ stream[j].end \in Nat
      /\ stream[j].start < stream[j].head /\ stream[j].head <= stream[j].end
  BY StreamFacts
<1>3. /\ stream[k].start \in Nat /\ stream[k].head \in Nat /\ stream[k].end \in Nat
      /\ stream[k].start < stream[k].head /\ stream[k].head <= stream[k].end
  BY StreamFacts
<1>4. stream[j].end <= stream[k].start
  BY <1>1, StreamFacts
<1> QED
  BY <1>2, <1>3, <1>4

(* No message ends behind the stream. *)
LEMMA TotalFacts ==
    ASSUME stream \in Streams
    PROVE  /\ Total \in Nat /\ Edge(Len(stream)) = Total
           /\ \A k \in 1..Len(stream) : stream[k].end <= Total
<1>1. CASE stream = <<>>
  <2>1. Len(stream) = 0
    BY <1>1
  <2> QED
    BY <1>1, <2>1 DEF Total, Edge
<1>2. CASE stream # <<>>
  <2>1. Len(stream) \in 1..Len(stream)
    BY <1>2, FramingAssumption DEF WellFormed
  <2>2. Total = stream[Len(stream)].end /\ Total \in Nat
    BY <1>2, <2>1, StreamFacts DEF Total
  <2>3. Edge(Len(stream)) = Total
    BY <2>1, <2>2 DEF Edge
  <2>4. ASSUME NEW k \in 1..Len(stream) PROVE stream[k].end <= Total
    BY <2>1, <2>2, Later, StreamFacts
  <2> QED
    BY <2>2, <2>3, <2>4
<1> QED
  BY <1>1, <1>2

(* When the chunk begins with message k, the header of k is the first to be *)
(* found and k is the only message that parses.                             *)
LEMMA FirstIsNext ==
    ASSUME InTypes, NEW k \in 1..Len(stream), base + begin = stream[k].start,
           NEW m \in 1..Len(stream)
    PROVE  /\ FirstHead(m) <=> m = k /\ stream[k].head <= base + end
           /\ \A d : Parses(m, d) => m = k
<1>1. /\ base \in Nat /\ begin \in Nat /\ end \in Nat
      /\ stream \in Streams /\ Len(stream) \in Nat
  BY FramingAssumption, StreamFacts DEF InTypes
<1>2. /\ stream[k].start \in Nat /\ stream[k].head \in Nat
      /\ stream[k].start < stream[k].head
      /\ stream[m].start \in Nat /\ stream[m].head \in Nat
      /\ stream[m].start < stream[m].head
  BY <1>1, StreamFacts
<1>3. \A j \in 1..Len(stream) : j < k => stream[j].head <= base + begin
  BY <1>1, Later
<1>4. m < k => stream[m].start < base + begin
  BY <1>1, Later
<1>5. m > k => stream[m].start > base + begin
  BY <1>1, Later
<1>6. m > k => k \in 1..(m - 1)
  BY <1>1
<1>7. FirstHead(m) => ~(m < k) /\ ~(m > k)
  BY <1>1, <1>2, <1>3, <1>6 DEF FirstHead
<1>8. stream[k].head <= base + end => FirstHead(k)
  BY <1>1, <1>2, <1>3 DEF FirstHead
<1>9. FirstHead(m) => stream[m].head <= base + end
  BY DEF FirstHead
<1>10. FirstHead(m) <=> m = k /\ stream[k].head <= base + end
  BY <1>1, <1>7, <1>8, <1>9
<1>11. ASSUME NEW d, Parses(m, d) PROVE m = k
  BY <1>1, <1>2, <1>4, <1>5, <1>11 DEF Parses
<1> QED
  BY <1>10, <1>11

-----------------------------------------------------------------------------
(* Parts of the invariant *)

In ==
    /\ InTypes
    /\ FramesAreMessages /\ FramesInOrder
    /\ Tcp /\ Udp /\ WaitsBehindRefused /\ FullBehindRefused /\ Running

Out == OutTypes /\ Wire

LEMMA InOut == Inv <=> In /\ Out
  BY DEF Inv, In, Out, InTypes, OutTypes, TypeOK

LEMMA InOutPrimed == Inv' <=> In' /\ Out'
  BY DEF Inv, In, Out, InTypes, OutTypes, TypeOK

LEMMA InNumbers ==
    ASSUME In
    PROVE  /\ base \in Nat /\ begin \in Nat /\ end \in Nat /\ done \in Nat
           /\ begin <= end /\ end <= Length /\ begin <= done
           /\ Length \in Nat /\ Length > 0 /\ Datagrams \in BOOLEAN
           /\ stream \in Streams /\ Len(stream) \in Nat
           /\ Total \in Nat /\ Edge(Len(stream)) = Total
           /\ frames \in Seq(Frame) /\ Len(frames) \in Nat
           /\ Next1 = Len(frames) + 1
           /\ ~Datagrams => Len(frames) <= Len(stream)
  BY FramingAssumption, StreamFacts, TotalFacts
  DEF In, InTypes, Next1, FramesInOrder

(* Where the chunk is not empty, it begins with message k. *)
Here(k) ==
    /\ base + begin = stream[k].start
    /\ done # begin => base + done = stream[k].end
    /\ ~Datagrams => k = Next1
    /\ Datagrams => base + end <= stream[k].end

LEMMA SomewhereHere ==
    ASSUME In, end # begin
    PROVE  \E k \in 1..Len(stream) : Here(k)
<1> USE InNumbers
<1>1. CASE Datagrams
  BY <1>1 DEF In, Udp, Here
<1>2. CASE ~Datagrams
  <2>1. /\ base + begin = Edge(Len(frames)) /\ base + end <= Total
        /\ done # begin => base + done = stream[Next1].end
    BY <1>2 DEF In, Tcp
  <2>2. Edge(Len(frames)) # Total
    BY <2>1
  <2>3. Next1 \in 1..Len(stream)
    BY <1>2, <2>2
  <2>4. stream[Next1].start = Edge(Next1 - 1) /\ Next1 - 1 = Len(frames)
    BY <2>3, StreamFacts
  <2> QED
    BY <1>2, <2>1, <2>3, <2>4 DEF Here
<1> QED
  BY <1>1, <1>2

(* What is found is the end of that message. *)
LEMMA EndsHere ==
    ASSUME In, NEW k \in 1..Len(stream), Here(k)
    PROVE  /\ \A d \in Ends : d \in Nat /\ base + d = stream[k].end /\ begin < d
           /\ Ends = {} => stream[k].head > base + end
<1>0. /\ base \in Nat /\ begin \in Nat /\ end \in Nat /\ done \in Nat
      /\ begin <= done /\ stream \in Streams /\ Len(stream) \in Nat
  BY InNumbers
<1>1. /\ stream[k].start \in Nat /\ stream[k].head \in Nat /\ stream[k].end \in Nat
      /\ stream[k].start < stream[k].head /\ stream[k].head <= stream[k].end
      /\ base + begin = stream[k].start
  BY <1>0, StreamFacts DEF Here
<1>2. \A m \in 1..Len(stream) :
         FirstHead(m) <=> m = k /\ stream[k].head <= base + end
  BY <1>1, FirstIsNext DEF In
<1>3. CASE done # begin
  <2>1. Ends = {done} /\ base + done = stream[k].end
    BY <1>3 DEF Ends, Here
  <2> QED
    BY <1>0, <1>1, <1>3, <2>1
<1>4. CASE done = begin
  <2>1. \A d \in Ends : \E m \in 1..Len(stream) :
           FirstHead(m) /\ d = stream[m].head - base + Body(m)
    BY <1>4 DEF Ends
  <2>2. stream[k].head - base + Body(k) = stream[k].end - base
    BY <1>0, <1>1 DEF Body
  <2>3. \A d \in Ends : d = stream[k].end - base
    BY <1>2, <2>1, <2>2
  <2>4. FirstHead(k) => stream[k].head - base + Body(k) \in Ends
    BY <1>4 DEF Ends
  <2>5. /\ stream[k].end - base \in Nat /\ begin < stream[k].end - base
        /\ base + (stream[k].end - base) = stream[k].end
    <3>1. \A e \in Nat : base + begin < e =>
             e - base \in Nat /\ begin < e - base /\ base + (e - base) = e
      BY <1>0
    <3> QED
      BY <1>0, <1>1, <3>1
  <2>6. Ends = {} => stream[k].head > base + end
    BY <1>0, <1>1, <1>2, <2>4
  <2> QED
    BY <2>3, <2>5, <2>6
<1> QED
  BY <1>3, <1>4

-----------------------------------------------------------------------------
(* Steps that read *)

LEMMA InSame ==
    ASSUME In, UNCHANGED <<stream, chunk, looping, closed, frames>>
    PROVE  In'
  BY DEF In, InTypes, FramesAreMessages, FramesInOrder, Tcp, Udp,
         WaitsBehindRefused, FullBehindRefused, LastRefused, Idle, Edge, Total,
         Next1, Running, chunk

LEMMA ReadStep ==
    ASSUME In, tcp_read
    PROVE  In'
<1>1. PICK n \in 1..Min2(Room, Total - base - end) : end' = end + n
  BY DEF tcp_read
<1>2. /\ ~Datagrams /\ looping' = TRUE /\ closed = "no"
      /\ UNCHANGED <<stream, base, begin, done, closed, frames>>
  BY DEF tcp_read, Idle
<1>3. /\ end' \in Nat /\ end <= end' /\ end' <= Length /\ base + end' <= Total
  BY SMTT(60), <1>1, InNumbers DEF Min2, Room
<1>4. InTypes'
  BY <1>2, <1>3, InNumbers DEF In, InTypes
<1>5. FramesAreMessages' /\ FramesInOrder' /\ FullBehindRefused'
  BY <1>2 DEF In, FramesAreMessages, FramesInOrder, FullBehindRefused, LastRefused
<1>6. Tcp' /\ Udp' /\ WaitsBehindRefused' /\ Running'
  BY <1>2, <1>3
  DEF In, Tcp, Udp, WaitsBehindRefused, LastRefused, Idle, Edge, Total, Next1,
      Running
<1> QED
  BY <1>4, <1>5, <1>6 DEF In

LEMMA DatagramStep ==
    ASSUME In, ReadDatagram
    PROVE  In'
<1>1. PICK m \in 1..Len(stream) : udp_read(m)
  BY DEF ReadDatagram
<1>2. /\ Datagrams /\ looping' = TRUE /\ closed = "no"
      /\ UNCHANGED <<stream, closed, frames>>
  BY DEF ReadDatagram, Idle
<1>3. /\ stream[m].start \in Nat /\ stream[m].end \in Nat
      /\ stream[m].start < stream[m].end
  BY SMTT(60), InNumbers, StreamFacts
<1>4. /\ base' = stream[m].start /\ begin' = 0 /\ done' = 0
      /\ end' = Min2(stream[m].end - stream[m].start, Length)
  BY <1>1 DEF udp_read
<1>5. /\ end' \in 0..Length /\ base' + end' <= stream[m].end
  <2>1. Length \in Nat /\ stream[m].end - stream[m].start \in Nat
    BY <1>3, InNumbers
  <2>2. /\ end' \in 0..Length
        /\ end' <= stream[m].end - stream[m].start
    BY <1>4, <2>1 DEF Min2
  <2> QED
    BY <1>3, <1>4, <2>1, <2>2
<1>6. InTypes'
  BY <1>2, <1>3, <1>4, <1>5, InNumbers DEF In, InTypes
<1>7. FramesAreMessages' /\ FramesInOrder' /\ FullBehindRefused'
  BY <1>2 DEF In, FramesAreMessages, FramesInOrder, FullBehindRefused, LastRefused
<1>8. Tcp' /\ WaitsBehindRefused' /\ Running'
  BY <1>2 DEF Tcp, WaitsBehindRefused, Running
<1>9. Udp'
  BY <1>2, <1>3, <1>4, <1>5 DEF Udp
<1> QED
  BY <1>6, <1>7, <1>8, <1>9 DEF In

LEMMA HangUpStep ==
    ASSUME In, HangUp
    PROVE  In'
<1>1. /\ closed' = "peer" /\ looping' = FALSE /\ UNCHANGED <<stream, chunk, frames>>
  BY DEF HangUp, Close
<1> QED
  BY <1>1 DEF In, InTypes, FramesAreMessages, FramesInOrder, Tcp, Udp,
     WaitsBehindRefused, FullBehindRefused, LastRefused, Idle, Edge, Total,
     Next1, Running, chunk

(* The chunk is full only if it is not aligned, that is, behind a message   *)
(* that was not accepted, or if a message is larger than it.                *)
LEMMA FullStep ==
    ASSUME In, tcp_read_full
    PROVE  In'
<1>1. /\ closed' = "full" /\ looping' = FALSE /\ UNCHANGED <<stream, chunk, frames>>
      /\ ~Datagrams /\ Idle /\ Room = 0 /\ base + end < Total
  BY DEF tcp_read_full, Close
<1>2. /\ InTypes' /\ FramesAreMessages' /\ FramesInOrder' /\ Tcp' /\ Udp'
      /\ WaitsBehindRefused' /\ Running'
  BY <1>1 DEF In, InTypes, FramesAreMessages, FramesInOrder, Tcp, Udp,
     WaitsBehindRefused, LastRefused, Idle, Edge, Total, Next1, Running, chunk
<1>3. ASSUME \A m \in 1..Len(stream) : stream[m].end - stream[m].start <= Length,
             ~LastRefused
      PROVE  FALSE
  <2>1. begin = 0 /\ end = Length
    BY <1>1, <1>3, InNumbers DEF In, Tcp, Room
  <2>2. PICK k \in 1..Len(stream) : Here(k)
    BY <2>1, InNumbers, SomewhereHere
  <2>3. k = Next1 /\ base = stream[k].start
    BY <1>1, <2>1, <2>2, InNumbers DEF Here
  <2>4. base + end < stream[k].end
    BY <1>1, <1>3, <2>3, InNumbers DEF In, WaitsBehindRefused
  <2>5. stream[k].end - stream[k].start <= Length
    BY <1>3
  <2>6. stream[k].end \in Nat /\ stream[k].start \in Nat
    BY InNumbers, StreamFacts
  <2> QED
    BY <2>1, <2>3, <2>4, <2>5, <2>6, InNumbers
<1>4. FullBehindRefused'
  BY <1>1, <1>3 DEF FullBehindRefused, LastRefused
<1> QED
  BY <1>2, <1>4 DEF In

-----------------------------------------------------------------------------
(* Steps of the loop over the chunk *)

(* No message behind the one the chunk begins with is complete before it.   *)
LEMMA NoneComplete ==
    ASSUME In, NEW k \in 1..Len(stream), k = Next1, base + end < stream[k].end
    PROVE  \A m \in (Len(frames) + 1)..Len(stream) : base + end < stream[m].end
<1> SUFFICES ASSUME NEW m \in (Len(frames) + 1)..Len(stream)
             PROVE  base + end < stream[m].end
  OBVIOUS
<1>1. m \in 1..Len(stream) /\ (m = k \/ k < m)
  BY InNumbers
<1>2. /\ stream[k].end \in Nat /\ stream[m].end \in Nat
      /\ k < m => stream[k].end < stream[m].end
  BY <1>1, InNumbers, StreamFacts, Later
<1> QED
  BY <1>1, <1>2, InNumbers

LEMMA ExhaustedStep ==
    ASSUME In, Exhausted, UNCHANGED <<stream, closed>>
    PROVE  In'
<1>1. /\ end = begin \/ Ends = {}
      /\ looping' = FALSE /\ UNCHANGED <<stream, chunk, frames, closed>>
  BY DEF Exhausted, Leave
<1>2. /\ InTypes' /\ FramesAreMessages' /\ FramesInOrder' /\ Tcp' /\ Udp'
      /\ FullBehindRefused' /\ Running'
  <2>1. /\ stream' = stream /\ base' = base /\ begin' = begin /\ done' = done
        /\ end' = end /\ frames' = frames /\ closed' = closed /\ looping' = FALSE
    BY <1>1 DEF chunk
  <2>2. InTypes'
    BY <2>1 DEF In, InTypes
  <2>3. FramesAreMessages' /\ FramesInOrder'
    BY <2>1 DEF In, FramesAreMessages, FramesInOrder
  <2>4. Tcp'
    BY <2>1 DEF In, Tcp, LastRefused, Edge, Total, Next1
  <2>5. Udp' /\ FullBehindRefused' /\ Running'
    BY <2>1 DEF In, Udp, FullBehindRefused, LastRefused, Running
  <2> QED
    BY <2>2, <2>3, <2>4, <2>5
<1>3. ASSUME ~Datagrams
      PROVE  \A m \in (Len(frames) + 1)..Len(stream) : base + end < stream[m].end
  <2>1. CASE Next1 > Len(stream)
    BY <2>1, InNumbers
  <2>2. CASE Next1 <= Len(stream)
    <3>1. Next1 \in 1..Len(stream)
      BY <2>2, InNumbers
    <3>2. /\ stream[Next1].start = Edge(Next1 - 1) /\ Next1 - 1 = Len(frames)
          /\ stream[Next1].start \in Nat /\ stream[Next1].head \in Nat
          /\ stream[Next1].end \in Nat
          /\ stream[Next1].start < stream[Next1].head
          /\ stream[Next1].head <= stream[Next1].end
      BY <3>1, InNumbers, StreamFacts
    <3>3. base + begin = stream[Next1].start
      BY <1>3, <3>2 DEF In, Tcp
    <3>4. CASE end = begin
      BY SMTT(60), <3>1, <3>2, <3>3, <3>4, InNumbers, NoneComplete
    <3>5. CASE end # begin
      <4>1. PICK k \in 1..Len(stream) : Here(k)
        BY <3>5, SomewhereHere
      <4>2. k = Next1
        BY <1>3, <4>1 DEF Here
      <4>3. stream[Next1].head > base + end
        BY <1>1, <3>5, <4>1, <4>2, EndsHere
      <4>4. base + end < stream[Next1].end
        BY <3>2, <4>3, InNumbers
      <4> QED
        BY <3>1, <4>4, NoneComplete
    <3> QED
      BY <3>4, <3>5
  <2> QED
    BY <2>1, <2>2, InNumbers
<1>4. WaitsBehindRefused'
  BY <1>1, <1>3 DEF WaitsBehindRefused, chunk
<1> QED
  BY <1>2, <1>4 DEF In

LEMMA AwaitStep ==
    ASSUME In, NEW k \in 1..Len(stream), Here(k), end # begin,
           NEW d \in Ends, d > end, Await(d), UNCHANGED <<stream, closed>>
    PROVE  In'
<1>1. /\ done' = d /\ looping' = FALSE
      /\ UNCHANGED <<stream, base, begin, end, frames, closed>>
  BY DEF Await, Leave
<1>2. d \in Nat /\ base + d = stream[k].end /\ begin < d
  BY EndsHere
<1>3. InTypes'
  <2>1. d \in Nat /\ begin <= d
    BY <1>2, InNumbers
  <2> QED
    BY <1>1, <2>1 DEF In, InTypes
<1>4. FramesAreMessages' /\ FramesInOrder' /\ FullBehindRefused'
  BY <1>1 DEF In, FramesAreMessages, FramesInOrder, FullBehindRefused, LastRefused
<1>5. Tcp'
  BY <1>1, <1>2, InNumbers DEF In, Tcp, Here, Edge, Total, Next1, LastRefused
<1>6. Udp'
  BY <1>1, <1>2 DEF Udp, Here
<1>7. base + end < stream[k].end
  BY <1>2, InNumbers
<1>8. WaitsBehindRefused' /\ Running'
  BY <1>1, <1>7, NoneComplete DEF Here, WaitsBehindRefused, Running
<1> QED
  BY <1>3, <1>4, <1>5, <1>6, <1>8 DEF In

(* The frame that is cut out is message k, whatever becomes of it. *)
LEMMA CutFrames ==
    ASSUME In, NEW k \in 1..Len(stream), Here(k),
           NEW d \in Nat, base + d = stream[k].end, d <= end,
           frames' = Append(frames, [from |-> base + begin, to |-> base + d]),
           stream' = stream
    PROVE  /\ frames' \in Seq(Frame) /\ Len(frames') = Len(frames) + 1
           /\ FramesAreMessages' /\ FramesInOrder'
           /\ ~Datagrams => Len(frames') = k
<1>1. /\ base \in Nat /\ begin \in Nat /\ frames \in Seq(Frame)
      /\ Len(frames) \in Nat /\ Len(stream) \in Nat /\ Next1 = Len(frames) + 1
      /\ stream \in Streams
  BY InNumbers
<1>2. [from |-> base + begin, to |-> base + d] \in Frame
  BY <1>1 DEF Frame
<1>3. /\ frames' \in Seq(Frame) /\ Len(frames') = Len(frames) + 1
      /\ frames'[Len(frames) + 1] = [from |-> base + begin, to |-> base + d]
      /\ \A j \in 1..Len(frames) : frames'[j] = frames[j]
  BY <1>1, <1>2
<1>4. frames'[Len(frames) + 1]
        = [from |-> stream[k].start, to |-> stream[k].end]
  BY <1>3 DEF Here
<1>5. FramesAreMessages'
  BY <1>1, <1>3, <1>4 DEF In, FramesAreMessages
<1>6. ~Datagrams => k = Len(frames) + 1
  BY <1>1 DEF Here
<1>7. FramesInOrder'
  BY <1>1, <1>3, <1>4, <1>6 DEF In, FramesInOrder
<1>8. ~Datagrams => Len(frames') = k
  BY <1>1, <1>3, <1>6
<1> QED
  BY <1>3, <1>5, <1>7, <1>8

LEMMA AcceptStep ==
    ASSUME In, NEW k \in 1..Len(stream), Here(k),
           NEW d \in Nat, base + d = stream[k].end, d <= end, begin < d,
           frames' = Append(frames, [from |-> base + begin, to |-> base + d]),
           looping, Accept(d), UNCHANGED <<stream, closed>>
    PROVE  In'
<1>1. /\ base' = base + d /\ begin' = 0 /\ done' = 0 /\ end' = end - d
      /\ looping' = TRUE /\ UNCHANGED <<stream, closed>>
  BY DEF Accept, mem_align, In, InTypes
<1>2. /\ frames' \in Seq(Frame) /\ Len(frames') = Len(frames) + 1
      /\ FramesAreMessages' /\ FramesInOrder'
      /\ ~Datagrams => Len(frames') = k
  BY CutFrames
<1>3. /\ base \in Nat /\ end \in Nat /\ end <= Length /\ Length \in Nat
      /\ stream[k].end \in Nat
  BY InNumbers, StreamFacts
<1>4. base' \in Nat /\ end' \in 0..Length /\ base' + end' = base + end
  BY <1>1, <1>3
<1>5. InTypes'
  BY <1>1, <1>2, <1>4 DEF In, InTypes
<1>6. Tcp'
  <2> SUFFICES ASSUME ~Datagrams PROVE Tcp'
    BY DEF Tcp
  <2>1. Edge(Len(frames))' = stream[k].end
    BY <1>1, <1>2 DEF Edge
  <2>2. base' + begin' = stream[k].end
    BY <1>1, <1>3
  <2>3. base' + end' <= Total'
    BY <1>1, <1>4 DEF In, Tcp, Total
  <2> QED
    BY <1>1, <2>1, <2>2, <2>3 DEF Tcp
<1>7. Udp'
  <2>1. Datagrams => base' + end' <= stream[k].end
    BY <1>4 DEF Here
  <2> QED
    BY <1>1, <1>3, <1>4, <2>1 DEF Udp
<1>8. WaitsBehindRefused' /\ FullBehindRefused' /\ Running'
  BY <1>1 DEF In, Running, WaitsBehindRefused, FullBehindRefused, Idle
<1> QED
  BY <1>2, <1>5, <1>6, <1>7, <1>8 DEF In

(* sip_execute returns -1 for the frame, with or without an answer. *)
LEMMA RefuseStep ==
    ASSUME In, NEW k \in 1..Len(stream), Here(k), stream[k].kind # "accepted",
           NEW d \in Nat, base + d = stream[k].end, d <= end, begin < d,
           frames' = Append(frames, [from |-> base + begin, to |-> base + d]),
           begin' = d, done' = d, looping, looping' = FALSE,
           UNCHANGED <<base, end, stream, closed>>
    PROVE  In'
<1>1. /\ frames' \in Seq(Frame) /\ Len(frames') = Len(frames) + 1
      /\ FramesAreMessages' /\ FramesInOrder'
      /\ ~Datagrams => Len(frames') = k
  BY CutFrames
<1>2. /\ base \in Nat /\ end \in Nat /\ Len(frames) \in Nat /\ d \in 0..end
  BY InNumbers
<1>3. InTypes'
  <2>1. /\ stream \in Streams /\ base \in Nat /\ end \in 0..Length
        /\ closed \in {"no", "peer", "full"}
    BY DEF In, InTypes
  <2>2. begin' \in 0..end' /\ done' \in Nat /\ begin' <= done'
    BY <1>2
  <2> QED
    BY <1>1, <2>1, <2>2 DEF InTypes
<1>4. ~Datagrams => LastRefused'
  BY <1>1, <1>2 DEF LastRefused
<1>5. Tcp'
  <2> SUFFICES ASSUME ~Datagrams PROVE Tcp'
    BY DEF Tcp
  <2>1. Edge(Len(frames))' = stream[k].end
    BY <1>1 DEF Edge
  <2>2. base' + end' <= Total'
    BY DEF In, Tcp, Total
  <2> QED
    BY <1>4, <2>1, <2>2 DEF Tcp
<1>6. Udp'
  <2> SUFFICES ASSUME Datagrams PROVE end' = begin'
    BY DEF Udp
  <2>1. base + end <= stream[k].end
    BY DEF Here
  <2> QED
    BY <1>2, <2>1
<1>7. WaitsBehindRefused' /\ FullBehindRefused' /\ Running'
  BY <1>4 DEF Running, WaitsBehindRefused, FullBehindRefused
<1> QED
  BY <1>1, <1>3, <1>5, <1>6, <1>7 DEF In

LEMMA CutStep ==
    ASSUME In, NEW k \in 1..Len(stream), Here(k),
           NEW d \in Nat, base + d = stream[k].end, d <= end, begin < d,
           looping, Cut(d), UNCHANGED <<stream, closed>>
    PROVE  In'
<1>1. frames' = Append(frames, [from |-> base + begin, to |-> base + d])
  BY DEF Cut
<1>2. Parses(k, d)
  BY DEF Parses, Here
<1>3. \A m \in 1..Len(stream) : Parses(m, d) => m = k
  BY FirstIsNext DEF In, Here
<1>4. stream[k].kind \in Kinds
  BY InNumbers, StreamFacts
<1>5. \/ stream[k].kind = "accepted" /\ Accept(d)
      \/ stream[k].kind = "refused" /\ Refuse(d)
      \/ stream[k].kind = "keepalive" /\ Answer(d)
  BY <1>2, <1>3, <1>4 DEF Cut, Kinds
<1>6. CASE Accept(d)
  BY <1>1, <1>6, AcceptStep
<1>7. CASE stream[k].kind # "accepted" /\ (Refuse(d) \/ Answer(d))
  <2>1. /\ begin' = d /\ done' = d /\ looping' = FALSE
        /\ UNCHANGED <<base, end>>
    BY <1>7 DEF Refuse, Answer, Leave
  <2> QED
    BY <1>1, <1>7, <2>1, RefuseStep
<1> QED
  BY <1>5, <1>6, <1>7

LEMMA ExecuteStep ==
    ASSUME In, Execute
    PROVE  In'
<1>1. looping /\ UNCHANGED <<stream, closed>>
  BY DEF Execute
<1>2. CASE Exhausted
  BY <1>1, <1>2, ExhaustedStep
<1>3. ASSUME end # begin, NEW d \in Ends, IF d > end THEN Await(d) ELSE Cut(d)
      PROVE  In'
  <2>1. PICK k \in 1..Len(stream) : Here(k)
    BY <1>3, SomewhereHere
  <2>2. d \in Nat /\ base + d = stream[k].end /\ begin < d
    BY <1>3, <2>1, EndsHere
  <2>3. CASE d > end
    BY <1>1, <1>3, <2>1, <2>3, AwaitStep
  <2>4. CASE ~(d > end)
    <3>1. d <= end
      BY <2>2, <2>4, InNumbers
    <3> QED
      BY <1>1, <1>3, <2>1, <2>2, <2>4, <3>1, CutStep
  <2> QED
    BY <2>3, <2>4
<1> QED
  BY <1>2, <1>3 DEF Execute

-----------------------------------------------------------------------------
(* Steps that write *)

LEMMA OutSame ==
    ASSUME Out, UNCHANGED <<outgoing, queued, wire>>, writing' \in BOOLEAN
    PROVE  Out'
  BY DEF Out, OutTypes, Wire, Queue, Meet, Partly, Popped, WireExact

LEMMA PushStep ==
    ASSUME Out, NEW len \in Nat, len > 0, Push(len), writing' \in BOOLEAN
    PROVE  Out'
<1> DEFINE p == [id |-> queued + 1, len |-> len, done |-> 0]
<1>1. /\ outgoing' = Append(outgoing, p) /\ queued' = queued + 1 /\ wire' = wire
      /\ writing' \in BOOLEAN
  BY DEF Push
<1>2. /\ outgoing \in Seq(Packet) /\ queued \in Nat /\ p \in Packet
      /\ Len(outgoing) \in Nat /\ Len(outgoing) <= queued
  BY DEF Out, OutTypes, Wire, Queue, Packet
<1>3. /\ outgoing' \in Seq(Packet) /\ Len(outgoing') = Len(outgoing) + 1
      /\ outgoing'[Len(outgoing) + 1] = p
      /\ \A k \in 1..Len(outgoing) : outgoing'[k] = outgoing[k]
  BY <1>1, <1>2
<1>4. Popped' = Popped
  BY <1>1, <1>2, <1>3 DEF Popped
<1>5. OutTypes'
  BY <1>1, <1>2, <1>3 DEF Out, OutTypes
<1>6. Queue'
  <2> SUFFICES ASSUME NEW k \in 1..Len(outgoing')
               PROVE  /\ outgoing'[k].id = Popped + k
                      /\ outgoing'[k].len > 0
                      /\ outgoing'[k].done <= outgoing'[k].len
                      /\ k > 1 => outgoing'[k].done = 0
    BY <1>1, <1>2, <1>3, <1>4 DEF Queue
  <2>1. CASE k \in 1..Len(outgoing)
    BY <1>3, <2>1 DEF Out, Wire, Queue
  <2>2. CASE k = Len(outgoing) + 1
    BY <1>2, <1>3, <2>2 DEF Popped
  <2> QED
    BY <1>2, <1>3, <2>1, <2>2
<1>7. Partly' <=> Partly
  <2>1. CASE outgoing = <<>>
    BY <1>3, <2>1 DEF Partly
  <2>2. CASE outgoing # <<>>
    BY <1>2, <1>3, <2>2 DEF Partly
  <2> QED
    BY <2>1, <2>2
<1>8. Meet'
  BY <1>1, <1>2, <1>3, <1>4, <1>7 DEF Meet, Out, Wire, Partly
<1>9. WireExact'
  BY <1>1 DEF Out, Wire, WireExact
<1> QED
  BY <1>5, <1>6, <1>8, <1>9 DEF Out, Wire

(* A part of the first packet is written. *)
LEMMA PartStep ==
    ASSUME Out, outgoing # <<>>,
           NEW n \in 1..(Head(outgoing).len - Head(outgoing).done),
           outgoing' = [outgoing EXCEPT ![1].done = @ + n],
           wire' = Append(wire, [id |-> Head(outgoing).id, len |-> Head(outgoing).len,
                                 from |-> Head(outgoing).done,
                                 to |-> Head(outgoing).done + n]),
           queued' = queued, writing' \in BOOLEAN
    PROVE  Out'
<1> DEFINE p == outgoing[1]
           w == [id |-> p.id, len |-> p.len, from |-> p.done, to |-> p.done + n]
<1>1. /\ outgoing \in Seq(Packet) /\ queued \in Nat /\ wire \in Seq(Part)
      /\ Len(outgoing) \in Nat /\ Len(outgoing) <= queued /\ Len(wire) \in Nat
      /\ 1 \in 1..Len(outgoing) /\ Head(outgoing) = p /\ p \in Packet
  BY DEF Out, OutTypes, Wire, Queue
<1>2. /\ p.id \in Nat /\ p.len \in Nat /\ p.done \in Nat /\ n \in Nat /\ n > 0
      /\ p.done + n <= p.len /\ p.id = Popped + 1 /\ w \in Part
  <2>1. p.id \in Nat /\ p.len \in Nat /\ p.done \in Nat
    BY <1>1 DEF Packet
  <2>2. p.done <= p.len /\ p.id = Popped + 1
    BY <1>1 DEF Out, Wire, Queue
  <2>3. n \in 1..(p.len - p.done)
    BY <1>1
  <2>4. n \in Nat /\ n > 0 /\ p.done + n <= p.len /\ p.done + n \in Nat
    BY <2>1, <2>3
  <2>5. w \in Part
    BY <2>1, <2>4 DEF Part
  <2> QED
    BY <2>1, <2>2, <2>4, <2>5
<1>3. /\ outgoing' \in Seq(Packet) /\ Len(outgoing') = Len(outgoing)
      /\ outgoing' # <<>>
      /\ outgoing'[1] = [p EXCEPT !.done = p.done + n]
      /\ \A k \in 2..Len(outgoing) : outgoing'[k] = outgoing[k]
  <2> DEFINE q == [p EXCEPT !.done = p.done + n]
  <2>1. q \in Packet
    BY <1>1, <1>2 DEF Packet
  <2>2. outgoing' = [outgoing EXCEPT ![1] = q]
    OBVIOUS
  <2> HIDE DEF q
  <2>3. outgoing' \in Seq(Packet) /\ Len(outgoing') = Len(outgoing)
    <3>1. [outgoing EXCEPT ![1] = q] \in Seq(Packet)
      BY <1>1, <2>1, ExceptSeq
    <3>2. Len([outgoing EXCEPT ![1] = q]) = Len(outgoing)
      BY <1>1, <2>1, ExceptSeq
    <3> QED
      BY <2>2, <3>1, <3>2
  <2>4. outgoing'[1] = q /\ \A k \in 2..Len(outgoing) : outgoing'[k] = outgoing[k]
    BY <1>1, <2>2
  <2> QED
    BY <1>1, <2>3, <2>4 DEF q
<1>4. /\ wire' \in Seq(Part) /\ Len(wire') = Len(wire) + 1
      /\ wire'[Len(wire) + 1] = w /\ wire' # <<>>
      /\ \A k \in 1..Len(wire) : wire'[k] = wire[k]
  <2>1. wire' = Append(wire, w)
    BY <1>1
  <2> HIDE DEF w
  <2> QED
    BY <1>1, <1>2, <2>1
<1>5. Popped' = Popped
  BY <1>3 DEF Popped
<1>6. /\ outgoing'[1].id = p.id /\ outgoing'[1].len = p.len
      /\ outgoing'[1].done = p.done + n
  BY <1>2, <1>3 DEF Packet
<1>7. OutTypes'
  BY <1>1, <1>3, <1>4 DEF OutTypes
<1>8. Queue'
  <2> SUFFICES ASSUME NEW k \in 1..Len(outgoing)
               PROVE  /\ outgoing'[k].id = Popped + k
                      /\ outgoing'[k].len > 0
                      /\ outgoing'[k].done <= outgoing'[k].len
                      /\ k > 1 => outgoing'[k].done = 0
    BY <1>1, <1>3, <1>5 DEF Queue
  <2>1. CASE k = 1
    BY <1>1, <1>2, <1>6, <2>1 DEF Out, Wire, Queue
  <2>2. CASE k # 1
    BY <1>1, <1>3, <2>2 DEF Out, Wire, Queue
  <2> QED
    BY <2>1, <2>2
<1>9. Meet'
  <2>1. Partly'
    BY <1>2, <1>3, <1>6 DEF Partly
  <2>2. /\ wire'[Len(wire')].id = Popped' + 1
        /\ wire'[Len(wire')].to = outgoing'[1].done
        /\ wire'[Len(wire')].len = outgoing'[1].len
    BY <1>2, <1>4, <1>5, <1>6
  <2> QED
    BY <1>4, <2>1, <2>2 DEF Meet
<1>10. IF wire = <<>> THEN w.id = 1 /\ w.from = 0
       ELSE \/ w.id = wire[Len(wire)].id /\ w.from = wire[Len(wire)].to
            \/ /\ w.id = wire[Len(wire)].id + 1 /\ w.from = 0
               /\ wire[Len(wire)].to = wire[Len(wire)].len
  <2>1. w.id = p.id /\ w.from = p.done
    OBVIOUS
  <2>2. CASE Partly
    BY <1>2, <2>1, <2>2 DEF Out, Wire, Meet
  <2>3. CASE ~Partly
    <3>1. p.done = 0
      BY <1>1, <1>2, <2>3 DEF Partly
    <3> QED
      BY <1>2, <2>1, <2>3, <3>1 DEF Out, Wire, Meet
  <2> QED
    BY <2>2, <2>3
<1>11. WireExact'
  <2> SUFFICES ASSUME NEW k \in 1..Len(wire')
               PROVE  IF k = 1 THEN wire'[k].id = 1 /\ wire'[k].from = 0
                      ELSE \/ /\ wire'[k].id = wire'[k - 1].id
                              /\ wire'[k].from = wire'[k - 1].to
                           \/ /\ wire'[k].id = wire'[k - 1].id + 1
                              /\ wire'[k].from = 0
                              /\ wire'[k - 1].to = wire'[k - 1].len
    BY DEF WireExact
  <2>1. CASE k \in 1..Len(wire)
    <3>1. wire'[k] = wire[k] /\ (k # 1 => wire'[k - 1] = wire[k - 1])
      BY <1>1, <1>4, <2>1
    <3> QED
      BY <2>1, <3>1 DEF Out, Wire, WireExact
  <2>2. CASE k = Len(wire) + 1
    <3>1. wire'[k] = w /\ (k = 1 <=> wire = <<>>)
      BY <1>1, <1>4, <2>2
    <3>2. k # 1 => wire'[k - 1] = wire[Len(wire)]
      BY <1>1, <1>4, <2>2
    <3> QED
      BY <1>10, <3>1, <3>2
  <2> QED
    BY <1>1, <1>4, <2>1, <2>2
<1> QED
  BY <1>7, <1>8, <1>9, <1>11 DEF Out, Wire

(* The first packet is sent whole and taken off the queue. *)
LEMMA PopStep ==
    ASSUME Out, outgoing # <<>>, Head(outgoing).done = Head(outgoing).len,
           outgoing' = Tail(outgoing), wire' = wire, queued' = queued,
           writing' \in BOOLEAN
    PROVE  Out'
<1>1. /\ outgoing \in Seq(Packet) /\ queued \in Nat /\ wire \in Seq(Part)
      /\ Len(outgoing) \in Nat /\ Len(outgoing) <= queued
      /\ 1 \in 1..Len(outgoing) /\ Head(outgoing) = outgoing[1]
      /\ outgoing[1].len > 0 /\ outgoing[1].id = Popped + 1
  BY DEF Out, OutTypes, Wire, Queue
<1>2. /\ outgoing' \in Seq(Packet) /\ Len(outgoing') = Len(outgoing) - 1
      /\ \A k \in 1..Len(outgoing') : outgoing'[k] = outgoing[k + 1]
  BY <1>1
<1>3. Popped' = Popped + 1 /\ Popped \in Nat
  BY <1>1, <1>2 DEF Popped
<1>4. OutTypes'
  BY <1>1, <1>2 DEF OutTypes
<1>5. \A k \in 1..Len(outgoing') : /\ outgoing'[k].id = Popped + 1 + k
                                   /\ outgoing'[k].len > 0
                                   /\ outgoing'[k].done = 0
                                   /\ outgoing'[k].done <= outgoing'[k].len
  <2> SUFFICES ASSUME NEW k \in 1..Len(outgoing')
               PROVE  /\ outgoing'[k].id = Popped + 1 + k
                      /\ outgoing'[k].len > 0
                      /\ outgoing'[k].done = 0
                      /\ outgoing'[k].done <= outgoing'[k].len
    OBVIOUS
  <2>1. k + 1 \in 1..Len(outgoing) /\ k + 1 > 1 /\ outgoing'[k] = outgoing[k + 1]
    BY <1>1, <1>2
  <2>2. /\ outgoing[k + 1].id = Popped + (k + 1) /\ outgoing[k + 1].len > 0
        /\ outgoing[k + 1].done = 0 /\ outgoing[k + 1].done <= outgoing[k + 1].len
    BY <2>1 DEF Out, Wire, Queue
  <2>3. Popped + (k + 1) = Popped + 1 + k
    BY <1>3
  <2> QED
    BY <2>1, <2>2, <2>3
<1>6. Queue'
  <2>1. Len(outgoing') <= queued' /\ Popped' = Popped + 1
    BY <1>1, <1>2, <1>3
  <2> QED
    BY <1>5, <2>1 DEF Queue
<1>7. ~Partly'
  BY <1>1, <1>2, <1>5 DEF Partly
<1>8. Partly
  BY <1>1 DEF Partly
<1>9. Meet'
  BY <1>1, <1>3, <1>7, <1>8 DEF Out, Wire, Meet
<1>10. WireExact'
  BY DEF Out, Wire, WireExact
<1> QED
  BY <1>4, <1>6, <1>9, <1>10 DEF Out, Wire

LEMMA WriteStep ==
    ASSUME Out, Write
    PROVE  Out'
<1> DEFINE p == Head(outgoing)
<1>1. PICK n \in 0..(p.len - p.done) :
         /\ n = 0 => p.done = p.len
         /\ Sent(n)
         /\ wire' = IF n = 0 THEN wire
                    ELSE Append(wire, [id |-> p.id, len |-> p.len,
                                       from |-> p.done, to |-> p.done + n])
  BY DEF Write
<1>2. outgoing # <<>> /\ queued' = queued /\ writing' \in BOOLEAN
  BY DEF Write, Update
<1>3. CASE n = 0
  BY <1>1, <1>2, <1>3, PopStep DEF Sent
<1>4. CASE n # 0
  <2>1. p.len \in Nat /\ p.done \in Nat
    <3>1. outgoing \in Seq(Packet)
      BY DEF Out, OutTypes
    <3>2. p \in Packet
      BY <1>2, <3>1
    <3> QED
      BY <3>2 DEF Packet
  <2>2. n \in 1..(p.len - p.done) /\ n > 0
    BY <1>1, <1>4, <2>1
  <2>3. outgoing' = [outgoing EXCEPT ![1].done = @ + n]
    BY <1>1, <2>2 DEF Sent
  <2> QED
    BY <1>1, <1>2, <1>4, <2>2, <2>3, PartStep
<1> QED
  BY <1>3, <1>4

-----------------------------------------------------------------------------
(* The invariant *)

LEMMA InitInv == Init => Inv
<1> SUFFICES ASSUME Init PROVE Inv
  OBVIOUS
<1>1. InTypes /\ OutTypes
  <2>1. Length \in Nat /\ 0 \in 0..0 /\ 0 \in 0..Length
    BY FramingAssumption
  <2>2. <<>> \in Seq(Frame) /\ <<>> \in Seq(Packet) /\ <<>> \in Seq(Part)
    OBVIOUS
  <2>3. base \in Nat /\ begin \in 0..end /\ end \in 0..Length /\ done \in Nat
        /\ begin <= done
    BY <2>1 DEF Init
  <2>4. stream \in Streams /\ looping \in BOOLEAN /\ closed \in {"no", "peer", "full"}
        /\ frames \in Seq(Frame)
    BY <2>2 DEF Init
  <2>5. InTypes
    BY <2>3, <2>4 DEF InTypes
  <2>6. OutTypes
    BY <2>2 DEF Init, OutTypes
  <2> QED
    BY <2>5, <2>6
<1>2. FramesAreMessages /\ FramesInOrder /\ FullBehindRefused /\ Running /\ Udp
  BY <1>1, StreamFacts
  DEF Init, InTypes, FramesAreMessages, FramesInOrder, FullBehindRefused, Running, Udp
<1>3. Tcp
  BY <1>1, TotalFacts DEF Init, InTypes, Tcp, Edge
<1>4. WaitsBehindRefused
  <2>1. \A m \in 1..Len(stream) : 0 < stream[m].end
    BY SMTT(60), <1>1, StreamFacts DEF InTypes
  <2> QED
    BY <2>1 DEF Init, WaitsBehindRefused
<1>5. Wire
  <2>1. outgoing = <<>> /\ queued = 0 /\ wire = <<>>
    BY DEF Init
  <2>2. Len(outgoing) = 0 /\ Len(wire) = 0 /\ 1..0 = {}
    BY <2>1
  <2>3. Queue
    BY <2>1, <2>2 DEF Queue
  <2>4. Meet
    <3>1. Popped = 0
      <4>1. Popped = 0 - 0
        BY <2>1, <2>2 DEF Popped
      <4> QED
        BY <4>1
    <3>2. ~Partly
      BY <2>1 DEF Partly
    <3> QED
      BY <2>1, <3>1, <3>2 DEF Meet
  <2>5. WireExact
    BY <2>2 DEF WireExact
  <2> QED
    BY <2>3, <2>4, <2>5 DEF Wire
<1> QED
  BY <1>1, <1>2, <1>3, <1>4, <1>5, InOut DEF In, Out

LEMMA NextInv == Inv /\ [Next]_vars => Inv'
<1> SUFFICES ASSUME In, Out, [Next]_vars PROVE In' /\ Out'
  BY InOut, InOutPrimed
<1>1. CASE tcp_read
  BY <1>1, ReadStep, OutSame DEF tcp_read, output, Out, OutTypes
<1>2. CASE tcp_read_full
  BY <1>2, FullStep, OutSame DEF tcp_read_full, Close, output, Out, OutTypes
<1>3. CASE ReadDatagram
  BY <1>3, DatagramStep, OutSame DEF ReadDatagram, output, Out, OutTypes
<1>4. CASE HangUp
  BY <1>4, HangUpStep, OutSame DEF HangUp, Close, output, Out, OutTypes
<1>5. CASE Execute
  <2>1. In'
    BY <1>5, ExecuteStep
  <2>2. \/ Push(2) /\ Update
        \/ UNCHANGED <<outgoing, queued, wire>> /\ (Update \/ writing' = writing)
    <3>1. CASE Exhausted
      BY <3>1 DEF Exhausted, Leave
    <3>2. ASSUME NEW d, Await(d) PROVE UNCHANGED <<outgoing, queued, wire>> /\ Update
      BY <3>2 DEF Await, Leave
    <3>3. ASSUME NEW d, Refuse(d) PROVE UNCHANGED <<outgoing, queued, wire>> /\ Update
      BY <3>3 DEF Refuse, Leave
    <3>4. ASSUME NEW d, Accept(d)
          PROVE  UNCHANGED <<outgoing, queued, wire>> /\ writing' = writing
      BY <3>4 DEF Accept, output
    <3>5. ASSUME NEW d, Answer(d) PROVE Push(2) /\ Update
      BY <3>5 DEF Answer
    <3>6. ASSUME NEW d, Cut(d) PROVE Accept(d) \/ Refuse(d) \/ Answer(d)
      <4>1. \A m \in 1..Len(stream) :
               stream[m].kind = "accepted" \/ stream[m].kind = "refused"
               \/ stream[m].kind = "keepalive"
        BY StreamFacts DEF In, InTypes, Kinds
      <4> QED
        BY <3>6, <4>1 DEF Cut
    <3>7. Exhausted \/ \E d \in Ends : Await(d) \/ Cut(d)
      BY <1>5 DEF Execute
    <3> QED
      BY <3>1, <3>2, <3>3, <3>4, <3>5, <3>6, <3>7
  <2>3. CASE Push(2) /\ Update
    <3>1. writing' \in BOOLEAN
      BY <2>3 DEF Update
    <3> QED
      BY <2>1, <2>3, <3>1, PushStep
  <2>4. CASE UNCHANGED <<outgoing, queued, wire>> /\ (Update \/ writing' = writing)
    <3>1. writing' \in BOOLEAN
      BY <2>4 DEF Update, Out, OutTypes
    <3> QED
      BY <2>1, <2>4, <3>1, OutSame
  <2> QED
    BY <2>1, <2>2, <2>3, <2>4
<1>6. CASE Write
  BY <1>6, InSame, WriteStep DEF Write
<1>7. CASE \E len \in 1..MaxPacket : sip_send(len)
  <2>1. PICK len \in 1..MaxPacket : sip_send(len)
    BY <1>7
  <2>2. len \in Nat /\ len > 0
    BY FramingAssumption
  <2>3. Push(len) /\ writing' \in BOOLEAN
    BY <2>1 DEF sip_send, Update, Out, OutTypes
  <2>4. Out'
    BY <2>2, <2>3, PushStep
  <2> QED
    BY <2>1, <2>4, InSame DEF sip_send
<1>8. CASE UNCHANGED vars
  BY <1>8, InSame, OutSame DEF vars, output, Out, OutTypes
<1> QED
  BY <1>1, <1>2, <1>3, <1>4, <1>5, <1>6, <1>7, <1>8 DEF Next

(* The inductive invariant holds in every reachable state.                  *)
THEOREM FramingInvariance == Spec => []Inv
  BY InitInv, NextInv, PTL DEF Spec

(* Type correctness: begin, done and end stay in order and in the buffer.   *)
THEOREM FramingTypeCorrect == Spec => []TypeOK
<1>1. Inv => TypeOK
  BY DEF Inv
<1> QED
  BY <1>1, FramingInvariance, PTL

(* What sip_read cuts out of the chunk is a message of the peer, over TCP   *)
(* and UDP.                                                                 *)
THEOREM FramesSound == Spec => []FramesAreMessages
<1>1. Inv => FramesAreMessages
  BY DEF Inv
<1> QED
  BY <1>1, FramingInvariance, PTL

(* Over TCP, sip_read cuts out every message once and in order.             *)
THEOREM FramesOrdered == Spec => []FramesInOrder
<1>1. Inv => FramesInOrder
  BY DEF Inv
<1> QED
  BY <1>1, FramingInvariance, PTL

(* The read loop of net_callback_inout leaves a complete message, and fills *)
(* its buffer up, only behind a message that was not accepted.              *)
THEOREM LeavesExplained == Spec => []LeftBehindRefused
<1>1. Inv => LeftBehindRefused
  BY DEF Inv, LeftBehindRefused
<1> QED
  BY <1>1, FramingInvariance, PTL

(* net->send and the queue write every packet whole and in order.           *)
THEOREM BytesExact == Spec => []WireExact
<1>1. Inv => WireExact
  BY DEF Inv, Wire
<1> QED
  BY <1>1, FramingInvariance, PTL
=============================================================================
