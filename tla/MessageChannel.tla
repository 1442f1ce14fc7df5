--------------------------- MODULE MessageChannel ---------------------------
(***************************************************************************)
(* What both ends of a worker's connection expect of it, whatever buffers  *)
(* and codecs are in between: messages are delivered whole, in the order   *)
(* in which they were sent and once each; when the connection breaks, some *)
(* of those on the way still arrive, and those sent after them are lost.   *)
(* WorkerPool takes its connections to be like this.                       *)
(***************************************************************************)
EXTENDS Integers, Sequences

CONSTANT MaxMessage     \* messages are 1 .. MaxMessage
VARIABLES sent, wire, delivered, open

Init == sent = 0 /\ wire = <<>> /\ delivered = <<>> /\ open = TRUE

Send ==
    /\ open /\ sent < MaxMessage
    /\ sent' = sent + 1
    /\ wire' = Append(wire, sent + 1)
    /\ UNCHANGED <<delivered, open>>

Deliver ==
    /\ wire # <<>>
    /\ delivered' = Append(delivered, Head(wire))
    /\ wire' = Tail(wire)
    /\ UNCHANGED <<sent, open>>

Break ==
    /\ open
    /\ open' = FALSE
    /\ \E k \in 0 .. Len(wire) : wire' = SubSeq(wire, 1, k)
    /\ UNCHANGED <<sent, delivered>>

Next == Send \/ Deliver \/ Break

Spec == Init /\ [][Next]_<<sent, wire, delivered, open>>
=============================================================================
