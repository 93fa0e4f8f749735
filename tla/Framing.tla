-------------------------------- MODULE Framing --------------------------------
(***************************************************************************)
(* The SIP socket of a net event: the chunk its bytes are read into, the   *)
(* messages sip_read cuts out of them, and the queue of packets that are   *)
(* written (src/src/mem.c, tcp.c, udp.c, net_callback_inout of net.c,      *)
(* sip_read and sip_execute of sip.c).                                     *)
(*                                                                         *)
(* A peer sends a stream of messages.  Positions in it are counted from    *)
(* its first byte; base is the position of the first byte of the buffer,   *)
(* so a field f of the chunk is at position base + f.  TCP delivers the    *)
(* stream in pieces of any size, UDP delivers messages in any order,       *)
(* again, or not at all.                                                   *)
(***************************************************************************)
EXTENDS Integers, Sequences

CONSTANTS
    Streams,    \* what a peer may send
    Length,     \* mem_t.length of the chunk
    Datagrams,  \* the socket is one of UDP
    MaxPacket,  \* bound: size of a packet sent
    MaxQueued,  \* bound: packets queued, answers to keep-alives not counted
    MaxFrames   \* bound: messages read

Kinds == {"accepted",   \* sip_execute returns 0
          "refused",    \* not valid, or it finds no transaction: -1
          "keepalive"}  \* CRLFCRLF: -1, and an answer

(* A message fills the bytes after start up to end, its header those up to  *)
(* head; end is where its Content-Length says.                              *)
Message == [start : Nat, head : Nat, end : Nat, kind : Kinds]

(* The messages of a stream follow each other, and each has a header.       *)
WellFormed(s) ==
    /\ s \in Seq(Message)
    /\ \A k \in 1..Len(s) :
          /\ s[k].start < s[k].head /\ s[k].head <= s[k].end
          /\ s[k].start = IF k = 1 THEN 0 ELSE s[k - 1].end

ASSUME FramingAssumption ==
    /\ \A s \in Streams : WellFormed(s)
    /\ Length \in Nat \ {0} /\ Datagrams \in BOOLEAN
    /\ MaxPacket \in Nat /\ MaxQueued \in Nat /\ MaxFrames \in Nat

VARIABLES
    stream,    \* what the peer sends
    base,      \* the position of the buffer in it
    begin, done, end,  \* of net_event_t.incoming
    looping,   \* the loop over the chunk is under way
    closed,    \* "no", or what net_event_close was called for
    frames,    \* history: what was cut out of the chunk
    outgoing,  \* net_event_t.outgoing
    writing,   \* the event waits for EV_WRITE, too
    queued,    \* packets queued so far
    wire       \* history: what was written

chunk == <<base, begin, done, end>>
output == <<outgoing, writing, queued, wire>>
vars == <<stream, chunk, looping, closed, frames, output>>

-----------------------------------------------------------------------------
(* Reading *)

Min2(a, b) == IF a < b THEN a ELSE b

(* Where the stream ends. *)
Total == IF stream = <<>> THEN 0 ELSE stream[Len(stream)].end

(* The loop has nothing to do with the event; it is open. *)
Idle == ~looping /\ closed = "no"

Close(why) ==
    /\ closed' = why /\ looping' = FALSE
    /\ UNCHANGED <<stream, chunk, frames, output>>

(* tcp_read: what recv may take. *)
Room == Length - end

(* tcp_read: some of the bytes that wait, as many as there is room for. *)
tcp_read ==
    /\ ~Datagrams /\ Idle
    /\ \E n \in 1..Min2(Room, Total - base - end) : end' = end + n
    /\ looping' = TRUE
    /\ UNCHANGED <<stream, base, begin, done, closed, frames, output>>

(* tcp_read with no room left: recv returns 0, which stands for a close. *)
tcp_read_full ==
    /\ ~Datagrams /\ Idle
    /\ Room = 0 /\ base + end < Total
    /\ Close("full")

(* Bug: what is left of the last datagram is kept. *)
udp_read_Appends(m) ==
    /\ base' = stream[m].start - end
    /\ end' = Min2(end + stream[m].end - stream[m].start, Length)
    /\ UNCHANGED <<begin, done>>

(* What is left of the last datagram is dropped; one that does not fit is   *)
(* cut.                                                                     *)
udp_read(m) ==
    /\ base' = stream[m].start
    /\ begin' = 0 /\ done' = 0
    /\ end' = Min2(stream[m].end - stream[m].start, Length)

ReadDatagram ==
    /\ Datagrams /\ Idle /\ Len(frames) < MaxFrames
    /\ \E m \in 1..Len(stream) : udp_read(m)
    /\ looping' = TRUE
    /\ UNCHANGED <<stream, closed, frames, output>>

(* The peer closed, or the socket failed. *)
HangUp == Idle /\ Close("peer")

-----------------------------------------------------------------------------
(* Writing *)

(* Bug: the event does not wait for EV_WRITE when a part is left. *)
UpdateOnce == writing' = (Len(outgoing') > Len(outgoing))

(* The end of every callback: net_event_update. *)
Update == writing' = (outgoing' # <<>>)

(* A packet is put at the end of the queue. *)
Push(len) ==
    /\ outgoing' = Append(outgoing, [id |-> queued + 1, len |-> len, done |-> 0])
    /\ queued' = queued + 1
    /\ UNCHANGED wire

(* sip_send, from the execution of a message or from a callback of another  *)
(* event; net_event_update follows at the end of that callback.             *)
sip_send(len) ==
    /\ closed = "no" /\ queued < MaxQueued
    /\ Push(len)
    /\ IF looping THEN UNCHANGED writing ELSE Update
    /\ UNCHANGED <<stream, chunk, looping, closed, frames>>

(* Bug: the packet is done with when a part of it was sent. *)
SentAtOnce(n) ==
    /\ n > 0
    /\ outgoing' = Tail(outgoing)

(* net->send took n bytes of the first packet; when it had none left, the   *)
(* packet is taken off the queue.                                           *)
Sent(n) ==
    outgoing' = IF n > 0 THEN [outgoing EXCEPT ![1].done = @ + n]
                ELSE Tail(outgoing)

(* net_callback_inout with EV_WRITE.  UDP sends a packet whole.             *)
Write ==
    /\ Idle /\ writing /\ outgoing # <<>>
    /\ LET p == Head(outgoing) IN
       \E n \in 0..(p.len - p.done) :
          /\ n = 0 => p.done = p.len
          /\ Datagrams => n = p.len - p.done
          /\ Sent(n)
          /\ wire' = IF n = 0 THEN wire
                     ELSE Append(wire, [id |-> p.id, len |-> p.len,
                                        from |-> p.done, to |-> p.done + n])
    /\ Update
    /\ UNCHANGED <<stream, chunk, looping, closed, frames, queued>>

-----------------------------------------------------------------------------
(* Cutting out messages *)

(* The end of the header of message m is the first one in the chunk. *)
FirstHead(m) ==
    /\ base + begin < stream[m].head /\ stream[m].head <= base + end
    /\ \A k \in 1..(m - 1) : stream[k].head <= base + begin

(* The value of Content-Length. *)
Body(m) == stream[m].end - stream[m].head

(* Bug: a message whose header was in an earlier read is not looked at. *)
EndsFresh ==
    IF done # begin THEN {}
    ELSE {stream[m].head - base + Body(m) :
            m \in {k \in 1..Len(stream) : FirstHead(k)}}

(* sip_read: where the first message ends, once its header is in the chunk; *)
(* done keeps that while the body is awaited.                               *)
Ends ==
    IF done # begin THEN {done}
    ELSE {stream[m].head - base + Body(m) :
            m \in {k \in 1..Len(stream) : FirstHead(k)}}

(* osip_parse and sip_loop find message m in the bytes up to d. *)
Parses(m, d) == stream[m].start = base + begin /\ stream[m].end = base + d

(* Bug: done stays behind what was accepted. *)
AlignKeepsDone(d) ==
    /\ base' = base + d
    /\ begin' = 0 /\ done' = d /\ end' = end - d

(* mem_align: what was accepted is removed from the buffer. *)
mem_align(d) ==
    /\ base' = base + d
    /\ begin' = 0 /\ done' = 0 /\ end' = end - d

(* The loop ends when sip_execute returns -1, and the callback with it. *)
Leave == looping' = FALSE /\ UNCHANGED <<outgoing, queued, wire>> /\ Update

(* Bug: one message is executed for each read. *)
AcceptOnce(d) == mem_align(d) /\ Leave

Accept(d) == mem_align(d) /\ UNCHANGED <<looping, output>>

(* sip_execute returns -1, and the chunk is left as it is. *)
Refuse(d) == begin' = d /\ done' = d /\ UNCHANGED <<base, end>> /\ Leave

(* The same for CRLFCRLF, which is answered with CRLF. *)
Answer(d) ==
    /\ begin' = d /\ done' = d /\ UNCHANGED <<base, end>>
    /\ looping' = FALSE /\ Push(2) /\ Update

(* A whole frame is in the chunk. *)
Cut(d) ==
    /\ frames' = Append(frames, [from |-> base + begin, to |-> base + d])
    /\ \/ \E m \in 1..Len(stream) :
            /\ Parses(m, d)
            /\ CASE stream[m].kind = "accepted" -> Accept(d)
                 [] stream[m].kind = "refused" -> Refuse(d)
                 [] stream[m].kind = "keepalive" -> Answer(d)
       \/ /\ \A m \in 1..Len(stream) : ~Parses(m, d)
          /\ Refuse(d)

(* The loop ends: the chunk is empty, or no header is complete. *)
Exhausted ==
    /\ end = begin \/ Ends = {}
    /\ Leave /\ UNCHANGED <<chunk, frames>>

(* The loop ends: the body is awaited. *)
Await(d) == done' = d /\ Leave /\ UNCHANGED <<base, begin, end, frames>>

(* One turn of the loop over the chunk. *)
Execute ==
    /\ looping
    /\ \/ Exhausted
       \/ /\ end # begin
          /\ \E d \in Ends : IF d > end THEN Await(d) ELSE Cut(d)
    /\ UNCHANGED <<stream, closed>>

-----------------------------------------------------------------------------
(* net_callback_accept, net_event_open: a new chunk and an empty queue. *)
Init ==
    /\ stream \in Streams
    /\ base = 0 /\ begin = 0 /\ done = 0 /\ end = 0
    /\ looping = FALSE /\ closed = "no" /\ frames = <<>>
    /\ outgoing = <<>> /\ writing = FALSE /\ queued = 0 /\ wire = <<>>

Next ==
    \/ tcp_read \/ tcp_read_full \/ ReadDatagram \/ HangUp
    \/ Execute \/ Write
    \/ \E len \in 1..MaxPacket : sip_send(len)

Spec == Init /\ [][Next]_vars

(* The loop serves a socket that can be read or written. *)
Fairness ==
    /\ WF_vars(tcp_read \/ tcp_read_full)
    /\ WF_vars(Execute) /\ WF_vars(Write)

FairSpec == Spec /\ Fairness

-----------------------------------------------------------------------------
(* Properties *)

Frame == [from : Nat, to : Nat]
Packet == [id : Nat, len : Nat, done : Nat]
Part == [id : Nat, len : Nat, from : Nat, to : Nat]

(* The variables have their types, and begin, done and end lie in the       *)
(* buffer in this order, but for done, which runs ahead of end while a      *)
(* body is awaited.                                                         *)
TypeOK ==
    /\ stream \in Streams
    /\ base \in Nat /\ begin \in 0..end /\ end \in 0..Length
    /\ done \in Nat /\ begin <= done
    /\ looping \in BOOLEAN /\ closed \in {"no", "peer", "full"}
    /\ frames \in Seq(Frame)
    /\ outgoing \in Seq(Packet) /\ writing \in BOOLEAN
    /\ queued \in Nat /\ wire \in Seq(Part)

(* Each frame is a message of the peer, wherever reads and datagrams end.   *)
FramesAreMessages ==
    \A k \in 1..Len(frames) : \E m \in 1..Len(stream) :
        frames[k] = [from |-> stream[m].start, to |-> stream[m].end]

(* TCP: the frames are the messages of the stream, in order, each once.     *)
FramesInOrder ==
    ~Datagrams =>
    /\ Len(frames) <= Len(stream)
    /\ \A k \in 1..Len(frames) :
          frames[k] = [from |-> stream[k].start, to |-> stream[k].end]

(* The last message cut out of the chunk was not accepted. *)
LastRefused == frames # <<>> /\ stream[Len(frames)].kind # "accepted"

(* TCP: a message that is complete in the chunk waits for the next read     *)
(* only behind one that was not accepted.                                   *)
WaitsBehindRefused ==
    ~Datagrams /\ Idle /\ ~LastRefused =>
    \A m \in (Len(frames) + 1)..Len(stream) : base + end < stream[m].end

(* TCP: as long as every message fits the chunk, a peer that only sends     *)
(* what is accepted is never closed for a full buffer.                      *)
FullBehindRefused ==
    /\ ~Datagrams /\ closed = "full"
    /\ \A m \in 1..Len(stream) : stream[m].end - stream[m].start <= Length
    => LastRefused

(* The read loop leaves nothing behind, neither messages nor space, unless  *)
(* a message before was not accepted.                                       *)
LeftBehindRefused == WaitsBehindRefused /\ FullBehindRefused

(* What was written is what was queued: packets in order, each whole before *)
(* the next, no byte twice and none left out.                               *)
WireExact ==
    \A k \in 1..Len(wire) :
        IF k = 1 THEN wire[k].id = 1 /\ wire[k].from = 0
        ELSE \/ wire[k].id = wire[k - 1].id /\ wire[k].from = wire[k - 1].to
             \/ /\ wire[k].id = wire[k - 1].id + 1 /\ wire[k].from = 0
                /\ wire[k - 1].to = wire[k - 1].len

(* TCP: every message of a peer that does not hang up is cut out, but for   *)
(* those that wait behind one that was not accepted.                        *)
Delivered ==
    <>[](\/ closed # "no"
         \/ Len(frames) = Len(stream)
         \/ base + end = Total /\ LastRefused)

(* Every packet queued is written, unless the event is closed.              *)
Flushed == outgoing # <<>> ~> (outgoing = <<>> \/ closed # "no")
=============================================================================
