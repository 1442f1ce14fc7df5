------------------------------ MODULE Framing ------------------------------
(***************************************************************************)
(* One direction of a connection between the scanner and a worker, down to *)
(* its bytes: FramedWrite and FramedRead with DMessageCodec, which ends    *)
(* every message with a newline.  WorkerPool takes a connection as a queue *)
(* of whole messages; this module is why it may.                           *)
(*                                                                         *)
(* A byte is its number in all that is ever encoded, so that a byte that   *)
(* is lost, doubled or moved is seen.  Message n is the n-th one encoded.  *)
(***************************************************************************)
EXTENDS Integers, Sequences

CONSTANTS
    MaxMessage,     \* messages are 1 .. MaxMessage
    End,            \* [0 .. MaxMessage -> Nat]: the newline of each message
    Boundary,       \* a FramedWrite with as many bytes flushes first, 8 KiB
    Window,         \* bytes the socket holds
    SendMayTimeOut, \* does the sender give up a send after 3 s?
    MayBreak        \* may the connection break?

Message == 1 .. MaxMessage

\* The JSON of a message is not empty.
ASSUME FramingAssumption ==
    /\ MaxMessage \in Nat /\ Boundary \in Nat /\ Window \in Nat \ {0}
    /\ {SendMayTimeOut, MayBreak} \subseteq BOOLEAN
    /\ End \in [0 .. MaxMessage -> Nat] /\ End[0] = 0
    /\ \A n \in Message : \A m \in 0 .. n - 1 : End[m] + 1 < End[n]

VARIABLES
    sender,     \* the task that sends
    encoded,    \* messages the sink has accepted
    out,        \* the write buffer
    socket,     \* bytes on the way
    up,         \* is the connection whole?
    buffer,     \* src: what was read and not split off yet
    cursor,     \* DMessageCodec.cursor: bytes of src that decode has looked at
    reader,     \* the FramedRead and the loop around it
    received    \* messages it has returned

vars == <<sender, encoded, out, socket, up, buffer, cursor, reader,
          received>>

Newline == {End[n] : n \in Message}

\* serde_json escapes newlines, so that the only one ends the message.
Body(n) == [i \in 1 .. End[n] - End[n - 1] - 1 |-> End[n - 1] + i]
Encoding(n) == Append(Body(n), End[n])

Init ==
    /\ sender = "idle" /\ encoded = 0
    /\ out = <<>> /\ socket = <<>> /\ up = TRUE
    /\ buffer = <<>> /\ cursor = 0
    /\ reader = "reading"
    /\ received = <<>>

----------------------------------------------------------------------------
(* The sender: outbound_w.send(..) is poll_ready, an encode and a flush.    *)

\* poll_ready flushes a buffer that holds Boundary bytes before it takes more.
StartSend ==
    /\ up /\ encoded < MaxMessage
    /\ sender = "idle"
    /\ IF Len(out) < Boundary
         THEN /\ sender' = "sending"
              /\ encoded' = encoded + 1
              /\ out' = out \o Encoding(encoded + 1)
         ELSE /\ sender' = "makingRoom"
              /\ UNCHANGED <<encoded, out>>
    /\ UNCHANGED <<socket, up, buffer, cursor, reader, received>>

\* The socket takes as much as it has room for, or less.  A buffer that is
\* empty ends the send, or lets it encode its message.
Flush(k) ==
    /\ sender # "idle"
    /\ k <= Len(out)
    /\ Len(socket) + k <= Window
    /\ socket' = socket \o SubSeq(out, 1, k)
    /\ \/ /\ k < Len(out)
          /\ out' = SubSeq(out, k + 1, Len(out))
          /\ UNCHANGED <<encoded, sender>>
       \/ /\ k = Len(out) /\ sender = "sending"
          /\ out' = <<>>
          /\ sender' = "idle"
          /\ UNCHANGED encoded
       \/ /\ k = Len(out) /\ sender = "makingRoom"
          /\ out' = Encoding(encoded + 1)
          /\ sender' = "sending"
          /\ encoded' = encoded + 1
    /\ UNCHANGED <<up, buffer, cursor, reader, received>>

UnflushedDropped == <<>>            \* fault variant: the bytes go with the future
Unflushed == out

\* The future is dropped: its bytes stay, and nobody flushes them until the
\* next send; a message that waited for room is never encoded.
TimeOut ==
    /\ SendMayTimeOut
    /\ sender # "idle"
    /\ sender' = "idle"
    /\ out' = Unflushed
    /\ UNCHANGED <<encoded, socket, up, buffer, cursor, reader, received>>

\* What was on the way may still arrive, or only its beginning.
Break(k) ==
    /\ MayBreak /\ up
    /\ k <= Len(socket)
    /\ up' = FALSE
    /\ sender' = "idle" /\ out' = <<>>
    /\ socket' = SubSeq(socket, 1, k)
    /\ UNCHANGED <<encoded, buffer, cursor, reader, received>>

----------------------------------------------------------------------------
(* The reader.                                                             *)

\* A read returns what has come, in pieces of any size.
Receive(k) ==
    /\ reader = "reading"
    /\ k <= Len(socket)
    /\ buffer' = buffer \o SubSeq(socket, 1, k)
    /\ socket' = SubSeq(socket, k + 1, Len(socket))
    /\ reader' = "decoding"
    /\ UNCHANGED <<sender, encoded, out, up, cursor, received>>

ReceiveEof ==
    /\ reader = "reading"
    /\ ~ up /\ socket = <<>>
    /\ reader' = "draining"
    /\ UNCHANGED <<sender, encoded, out, socket, up, buffer, cursor, received>>

\* decode looks for a newline from the cursor on.
Newlines == {i \in cursor + 1 .. Len(buffer) : buffer[i] \in Newline}
FirstNewline == CHOOSE i \in Newlines : \A j \in Newlines : i <= j

CursorPast == Len(buffer) + 1       \* fault variant: one byte too far
CursorAtEnd == Len(buffer)

CursorKept == cursor                \* fault variant: not set back
CursorMovedBack == cursor - FirstNewline    \* fault variant: by the frame
CursorAtStart == 0

\* split_to(i + 1) takes the frame with its newline, set_len(i) removes that;
\* serde_json reads the frame as a message, or fails.
DecodeFrame ==
    /\ reader \in {"decoding", "draining"}
    /\ Newlines # {}
    /\ LET frame == SubSeq(buffer, 1, FirstNewline - 1)
       IN  \/ \E n \in Message :
                /\ frame = Body(n)
                /\ received' = Append(received, n)
                /\ reader' = reader
           \/ /\ \A n \in Message : frame # Body(n)
              /\ received' = received
              /\ reader' = "badMessage"
    /\ buffer' = SubSeq(buffer, FirstNewline + 1, Len(buffer))
    /\ cursor' = CursorAtStart
    /\ UNCHANGED <<sender, encoded, out, socket, up>>

\* No whole frame: read on, or at the end of the stream stop, with an error
\* if a part of a frame is left (decode_eof).
DecodeNothing ==
    /\ reader \in {"decoding", "draining"}
    /\ Newlines = {}
    /\ cursor' = CursorAtEnd
    /\ reader' = CASE reader = "decoding" -> "reading"
                   [] reader = "draining" -> IF buffer = <<>> THEN "ended" ELSE "cutOff"
    /\ UNCHANGED <<sender, encoded, out, socket, up, buffer, received>>

\* The loop around the FramedRead ends for a reason of its own: the timer of
\* handle_stream, a message of the wrong kind.
StopReading ==
    /\ MayBreak
    /\ reader = "reading"
    /\ reader' = "ended"
    /\ UNCHANGED <<sender, encoded, out, socket, up, buffer, cursor, received>>

Next ==
    \/ StartSend \/ TimeOut
    \/ \E k \in 1 .. Window : Flush(k)
    \/ \E k \in 0 .. Window : Break(k)
    \/ \E k \in 1 .. Window : Receive(k)
    \/ ReceiveEof \/ DecodeFrame \/ DecodeNothing \/ StopReading

Spec == Init /\ [][Next]_vars

\* The sockets make progress and the tasks run.  Nobody has to send.
Fairness ==
    /\ WF_vars(\E k \in 1 .. Window : Flush(k))
    /\ WF_vars(\E k \in 1 .. Window : Receive(k))
    /\ WF_vars(ReceiveEof) /\ WF_vars(DecodeFrame) /\ WF_vars(DecodeNothing)

FairSpec == Spec /\ Fairness

----------------------------------------------------------------------------
(* Properties.                                                             *)

\* The codec's cursor is a place of src or behind it, and a sender that waits
\* for room in the write buffer has a message to encode when there is some.
TypeOK ==
    /\ sender \in {"idle", "makingRoom", "sending"}
    /\ sender = "makingRoom" => encoded < MaxMessage
    /\ encoded \in 0 .. MaxMessage
    /\ {out, socket, buffer} \subseteq Seq(Nat)
    /\ up \in BOOLEAN
    /\ cursor \in Nat
    /\ reader \in {"reading", "decoding", "draining", "badMessage", "cutOff", "ended"}
    /\ received \in Seq(Message)

\* However the bytes are cut into pieces, and whatever times out or breaks:
\* the messages that are returned are the first ones that were encoded, each
\* one once and in order, and no piece of a message is taken for a whole one.
InOrder ==
    /\ Len(received) <= encoded
    /\ \A i \in 1 .. Len(received) : received[i] = i
    /\ reader # "badMessage"

\* The bytes that were read or will be end with this one, and the messages
\* with the newline of this one.
Reach == End[Len(received)] + Len(buffer) + Len(socket) + Len(out)
LastWhole ==
    CHOOSE n \in 0 .. MaxMessage :
        /\ End[n] <= Reach
        /\ \A m \in 0 .. MaxMessage : End[m] <= Reach => m <= n

\* To its two ends the connection is a queue of messages that loses its tail
\* when it breaks: a message is on the way from the step in which the sink
\* accepts it until decode returns it, a torn one never is, and a send that
\* timed out neither loses nor repeats one.
OnTheWay == [i \in 1 .. LastWhole - Len(received) |-> Len(received) + i]
Channel == INSTANCE MessageChannel
               WITH sent <- encoded, wire <- OnTheWay,
                    delivered <- received, open <- up
IsChannel == Channel!Spec

\* A message that was accepted arrives while the connection is up and the
\* reader goes on, unless a send timed out and left bytes in the buffer:
\* neither the window nor the cursor keeps a message back for ever.
Delivered ==
    \A n \in Message :
        encoded = n ~> \/ Len(received) >= n
                       \/ ~ up \/ reader = "ended"
                       \/ sender = "idle" /\ out # <<>>
=============================================================================
