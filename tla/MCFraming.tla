------------------------------- MODULE MCFraming -------------------------------
(***************************************************************************)
(* Instances of Framing for TLC: streams made of a few shapes of messages. *)
(***************************************************************************)
EXTENDS Framing, SequencesExt

CONSTANT MaxMessages  \* bound: messages of a stream

(* The sizes of header and body and what becomes of the message. *)
Shapes ==
    {[head |-> 2, body |-> 0, kind |-> "accepted"],
     [head |-> 2, body |-> 2, kind |-> "accepted"],
     [head |-> 2, body |-> 4, kind |-> "accepted"],
     [head |-> 1, body |-> 1, kind |-> "refused"],
     [head |-> 2, body |-> 0, kind |-> "keepalive"]}

(* The messages of these shapes one after the other. *)
Lay(shapes) ==
    LET bound[k \in 0..Len(shapes)] ==
            IF k = 0 THEN 0
            ELSE bound[k - 1] + shapes[k].head + shapes[k].body
    IN [k \in 1..Len(shapes) |->
           [start |-> bound[k - 1], head |-> bound[k - 1] + shapes[k].head,
            end |-> bound[k], kind |-> shapes[k].kind]]

MCStreams == {Lay(shapes) : shapes \in BoundedSeq(Shapes, MaxMessages)}
=============================================================================
