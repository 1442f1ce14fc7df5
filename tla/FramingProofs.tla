--------------------------- MODULE FramingProofs ---------------------------
(***************************************************************************)
(* Theorems about Framing: for any messages, any window and any buffer     *)
(* limit, whole messages arrive in order.                                  *)
(***************************************************************************)
EXTENDS Framing, SequenceTheorems, WellFoundedInduction, TLAPS

\* The bytes of s are those after byte number from.
Consecutive(s, from) == \A i \in 1 .. Len(s) : s[i] = from + i

\* Everything up to this byte was split off the reader's buffer.
Taken == End[Len(received)]

\* The buffers hold the bytes after that, without a gap or a repetition, and
\* while the connection is up they reach to the end of the last message.
BytesInOrder ==
    /\ Consecutive(buffer, Taken)
    /\ Consecutive(socket, Taken + Len(buffer))
    /\ Consecutive(out, Taken + Len(buffer) + Len(socket))
    /\ up => Taken + Len(buffer) + Len(socket) + Len(out) = End[encoded]
    /\ Taken + Len(buffer) + Len(socket) + Len(out) <= End[encoded]

\* The decoder need not look again at what is before its cursor.
CursorIsScanned ==
    /\ cursor <= Len(buffer)
    /\ \A i \in 1 .. cursor : buffer[i] \notin Newline

\* A broken connection takes no message.
SenderNeedsUp == sender # "idle" => up

IInv == TypeOK /\ InOrder /\ BytesInOrder /\ CursorIsScanned /\ SenderNeedsUp

----------------------------------------------------------------------------
(* Sequences of consecutive bytes.                                         *)

\* A beginning of consecutive bytes.
LEMMA Take ==
    ASSUME NEW s \in Seq(Nat), NEW from \in Nat, Consecutive(s, from),
           NEW k \in 0 .. Len(s)
    PROVE  /\ SubSeq(s, 1, k) \in Seq(Nat)
           /\ Len(SubSeq(s, 1, k)) = k
           /\ Consecutive(SubSeq(s, 1, k), from)
  BY DEF Consecutive

\* The rest of consecutive bytes.
LEMMA Drop ==
    ASSUME NEW s \in Seq(Nat), NEW from \in Nat, Consecutive(s, from),
           NEW k \in 0 .. Len(s)
    PROVE  /\ SubSeq(s, k + 1, Len(s)) \in Seq(Nat)
           /\ Len(SubSeq(s, k + 1, Len(s))) = Len(s) - k
           /\ Consecutive(SubSeq(s, k + 1, Len(s)), from + k)
  BY DEF Consecutive

\* Bytes that go on where others end.
LEMMA Join ==
    ASSUME NEW s \in Seq(Nat), NEW t \in Seq(Nat), NEW from \in Nat,
           Consecutive(s, from), Consecutive(t, from + Len(s))
    PROVE  /\ s \o t \in Seq(Nat)
           /\ Len(s \o t) = Len(s) + Len(t)
           /\ Consecutive(s \o t, from)
  BY DEF Consecutive

\* The newlines are in the order of their messages.
LEMMA EndsGrow ==
    ASSUME NEW m \in 0 .. MaxMessage, NEW n \in 0 .. MaxMessage
    PROVE  /\ End[m] \in Nat
           /\ m < n <=> End[m] < End[n]
           /\ m < n => End[m] + 1 < End[n]
           /\ m = n <=> End[m] = End[n]
  BY FramingAssumption DEF FramingAssumption, Message

\* A message is encoded as the bytes after the one before.
LEMMA EncodingConsecutive ==
    ASSUME NEW n \in Message
    PROVE  /\ n - 1 \in 0 .. MaxMessage
           /\ Encoding(n) \in Seq(Nat)
           /\ Len(Encoding(n)) = End[n] - End[n - 1]
           /\ Consecutive(Encoding(n), End[n - 1])
  <1> DEFINE size == End[n] - End[n - 1] - 1
  <1>1. n - 1 \in 0 .. MaxMessage /\ n \in 0 .. MaxMessage
    BY FramingAssumption DEF FramingAssumption, Message
  <1>2. End[n] \in Nat /\ End[n - 1] \in Nat /\ size \in Nat
    BY <1>1, EndsGrow
  <1>3. Body(n) \in Seq(Nat) /\ Len(Body(n)) = size
    BY <1>2 DEF Body
  <1>4. \A i \in 1 .. size : Body(n)[i] = End[n - 1] + i
    BY <1>2 DEF Body
  <1> HIDE DEF size
  <1>5. Encoding(n) \in Seq(Nat) /\ Len(Encoding(n)) = size + 1
    BY <1>2, <1>3 DEF Encoding
  <1>6. \A i \in 1 .. size + 1 : Encoding(n)[i] = End[n - 1] + i
    BY <1>2, <1>3, <1>4 DEF Encoding, size
  <1> QED
    BY <1>1, <1>2, <1>5, <1>6 DEF Consecutive, size

----------------------------------------------------------------------------
(* The invariant.                                                          *)

\* Facts about the numbers of an IInv state that most steps need.
LEMMA Numbers ==
    ASSUME IInv
    PROVE  /\ Len(received) \in 0 .. MaxMessage
           /\ Taken \in Nat /\ End[encoded] \in Nat
           /\ buffer \in Seq(Nat) /\ socket \in Seq(Nat) /\ out \in Seq(Nat)
           /\ Len(buffer) \in Nat /\ Len(socket) \in Nat /\ Len(out) \in Nat
           /\ received \in Seq(Message)
  <1>1. Len(received) \in 0 .. MaxMessage /\ encoded \in 0 .. MaxMessage
    BY FramingAssumption DEF IInv, TypeOK, InOrder, FramingAssumption, Message
  <1> QED
    BY <1>1, EndsGrow DEF IInv, TypeOK, Taken

LEMMA InitInvariant == Init => IInv
  <1> SUFFICES ASSUME Init PROVE IInv
    OBVIOUS
  <1>1. TypeOK
    BY FramingAssumption DEF Init, TypeOK, FramingAssumption
  <1>2. InOrder
    BY DEF Init, InOrder
  <1>3. BytesInOrder
    BY FramingAssumption
    DEF Init, BytesInOrder, Consecutive, Taken, FramingAssumption
  <1>4. CursorIsScanned /\ SenderNeedsUp
    BY DEF Init, CursorIsScanned, SenderNeedsUp
  <1> QED
    BY <1>1, <1>2, <1>3, <1>4 DEF IInv

\* Appending the next message to a buffer that holds the bytes before it.
LEMMA EncodeKeeps ==
    ASSUME IInv, up, encoded < MaxMessage,
           encoded' = encoded + 1,
           NEW from \in Nat, NEW held \in Seq(Nat),
           Consecutive(held, from), from + Len(held) = End[encoded]
    PROVE  /\ encoded' \in 0 .. MaxMessage
           /\ held \o Encoding(encoded + 1) \in Seq(Nat)
           /\ Consecutive(held \o Encoding(encoded + 1), from)
           /\ from + Len(held \o Encoding(encoded + 1)) = End[encoded']
  <1>1. encoded + 1 \in Message /\ encoded \in 0 .. MaxMessage
    BY FramingAssumption DEF IInv, TypeOK, FramingAssumption, Message
  <1> DEFINE next == Encoding(encoded + 1)
  <1>2. /\ next \in Seq(Nat) /\ Len(next) = End[encoded + 1] - End[encoded]
        /\ Consecutive(next, End[encoded])
    BY <1>1, EncodingConsecutive
  <1>3. End[encoded + 1] \in Nat /\ End[encoded] \in Nat
    BY <1>1, EndsGrow DEF Message
  <1> HIDE DEF next
  <1>4. /\ held \o next \in Seq(Nat) /\ Len(held \o next) = Len(held) + Len(next)
        /\ Consecutive(held \o next, from)
    BY <1>2, Join
  <1> QED
    BY <1>1, <1>2, <1>3, <1>4 DEF next, Message

LEMMA StartSendKeeps == IInv /\ StartSend => IInv'
  <1> SUFFICES ASSUME IInv, StartSend PROVE IInv'
    OBVIOUS
  <1> USE DEF StartSend
  <1> DEFINE from == Taken + Len(buffer) + Len(socket)
  <1>1. from \in Nat /\ out \in Seq(Nat) /\ Consecutive(out, from)
        /\ from + Len(out) = End[encoded]
    BY Numbers DEF IInv, TypeOK, BytesInOrder
  <1>2. CASE Len(out) < Boundary
    <2>1. encoded' = encoded + 1 /\ out' = out \o Encoding(encoded + 1)
      BY <1>2
    <2>2. /\ encoded' \in 0 .. MaxMessage /\ out' \in Seq(Nat)
          /\ Consecutive(out', from) /\ from + Len(out') = End[encoded']
      BY <1>1, <2>1, EncodeKeeps
    <2>3. TypeOK'
      BY <1>2, <2>2 DEF IInv, TypeOK
    <2>4. InOrder'
      BY <1>2, <2>2 DEF IInv, InOrder, TypeOK
    <2>5. BytesInOrder'
      BY <2>2, <1>1 DEF IInv, BytesInOrder, Taken, Consecutive
    <2>6. CursorIsScanned' /\ SenderNeedsUp'
      BY DEF IInv, CursorIsScanned, SenderNeedsUp
    <2> QED
      BY <2>3, <2>4, <2>5, <2>6 DEF IInv
  <1>3. CASE ~ (Len(out) < Boundary)
    BY <1>3 DEF IInv, TypeOK, InOrder, BytesInOrder, CursorIsScanned, SenderNeedsUp,
                Taken, Consecutive
  <1> QED
    BY <1>2, <1>3

\* The bytes a flush takes go on where those of the socket end.
LEMMA FlushMoves ==
    ASSUME IInv, NEW k \in 1 .. Window, Flush(k)
    PROVE  /\ k \in 1 .. Len(out)
           /\ socket' \in Seq(Nat) /\ Len(socket') = Len(socket) + k
           /\ Consecutive(socket', Taken + Len(buffer))
           /\ SubSeq(out, k + 1, Len(out)) \in Seq(Nat)
           /\ Len(SubSeq(out, k + 1, Len(out))) = Len(out) - k
           /\ Consecutive(SubSeq(out, k + 1, Len(out)),
                          Taken + Len(buffer) + Len(socket) + k)
  <1> DEFINE base == Taken + Len(buffer)
             from == base + Len(socket)
             piece == SubSeq(out, 1, k)
  <1>1. k \in Nat /\ k \in 1 .. Len(out)
    BY FramingAssumption, Numbers DEF FramingAssumption, Flush
  <1>2. base \in Nat /\ from \in Nat
    BY Numbers
  <1>3. Consecutive(socket, base) /\ Consecutive(out, from)
    BY DEF IInv, BytesInOrder
  <1>4. socket \in Seq(Nat) /\ out \in Seq(Nat) /\ socket' = socket \o piece
    BY Numbers DEF Flush
  <1> HIDE DEF base
  <1>5. /\ piece \in Seq(Nat) /\ Len(piece) = k /\ Consecutive(piece, from)
    BY <1>1, <1>2, <1>3, <1>4, Take
  <1>6. /\ SubSeq(out, k + 1, Len(out)) \in Seq(Nat)
        /\ Len(SubSeq(out, k + 1, Len(out))) = Len(out) - k
        /\ Consecutive(SubSeq(out, k + 1, Len(out)), from + k)
    BY <1>1, <1>2, <1>3, <1>4, Drop
  <1> HIDE DEF piece
  <1>7. /\ socket \o piece \in Seq(Nat)
        /\ Len(socket \o piece) = Len(socket) + Len(piece)
        /\ Consecutive(socket \o piece, base)
    BY <1>2, <1>3, <1>4, <1>5, Join
  <1> QED
    BY <1>1, <1>4, <1>5, <1>6, <1>7 DEF base

LEMMA FlushKeeps == ASSUME IInv, NEW k \in 1 .. Window, Flush(k) PROVE IInv'
  <1> DEFINE base == Taken + Len(buffer)
             rest == SubSeq(out, k + 1, Len(out))
  <1>1. /\ sender # "idle" /\ up' = up /\ buffer' = buffer /\ cursor' = cursor
        /\ reader' = reader /\ received' = received /\ Taken' = Taken
    BY DEF Flush, Taken
  <1>2. /\ k \in 1 .. Len(out) /\ k \in Nat
        /\ socket' \in Seq(Nat) /\ Len(socket') = Len(socket) + k
        /\ Consecutive(socket', base)
        /\ rest \in Seq(Nat) /\ Len(rest) = Len(out) - k
        /\ Consecutive(rest, base + Len(socket) + k)
    <2>1. k \in Nat
      BY FramingAssumption DEF FramingAssumption
    <2> QED
      BY <2>1, FlushMoves
  <1>3. /\ base \in Nat /\ Len(socket) \in Nat /\ Len(out) \in Nat
        /\ End[encoded] \in Nat
    BY Numbers
  <1>4. /\ up /\ base + Len(socket) + Len(out) = End[encoded]
        /\ Consecutive(buffer, Taken)
    BY <1>1 DEF IInv, BytesInOrder, SenderNeedsUp
  <1> HIDE DEF rest, base
  <1>5. CASE /\ encoded' = encoded /\ sender' \in {"idle", sender}
             /\ out' \in {rest, <<>>} /\ Len(out') = Len(out) - k
    <2>0. out' \in Seq(Nat)
      BY <1>2, <1>5
    <2>1. TypeOK' /\ InOrder' /\ CursorIsScanned' /\ SenderNeedsUp'
      <3>1. TypeOK'
        BY <1>1, <1>2, <1>5, <2>0 DEF IInv, TypeOK
      <3>2. InOrder' /\ CursorIsScanned' /\ SenderNeedsUp'
        BY <1>1, <1>4, <1>5 DEF IInv, InOrder, CursorIsScanned, SenderNeedsUp
      <3> QED
        BY <3>1, <3>2
    <2>2. Consecutive(out', base + Len(socket) + k)
      BY <1>2, <1>5 DEF Consecutive
    <2>3. base + Len(socket) + k = base + Len(socket')
      BY <1>2, <1>3
    <2>4. base + Len(socket') + Len(out') = End[encoded']
      BY <1>2, <1>3, <1>4, <1>5
    <2>5. BytesInOrder'
      BY <1>1, <1>2, <1>3, <1>4, <2>2, <2>3, <2>4, <1>5
      DEF BytesInOrder, base
    <2> QED
      BY <2>1, <2>5 DEF IInv
  <1>6. CASE /\ k = Len(out) /\ sender = "makingRoom"
             /\ out' = Encoding(encoded + 1) /\ sender' = "sending"
             /\ encoded' = encoded + 1
    <2>1. encoded + 1 \in Message /\ encoded \in 0 .. MaxMessage
      BY <1>6, FramingAssumption DEF IInv, TypeOK, FramingAssumption, Message
    <2>2. /\ out' \in Seq(Nat) /\ Len(out') = End[encoded'] - End[encoded]
          /\ Consecutive(out', End[encoded])
      BY <1>6, <2>1, EncodingConsecutive
    <2>3. encoded' \in 0 .. MaxMessage /\ End[encoded'] \in Nat
      BY <1>6, <2>1, EndsGrow DEF Message
    <2>4. TypeOK' /\ InOrder' /\ CursorIsScanned' /\ SenderNeedsUp'
      BY <1>1, <1>2, <1>4, <1>6, <2>1, <2>2, <2>3
      DEF IInv, TypeOK, InOrder, CursorIsScanned, SenderNeedsUp
    <2>5. base + Len(socket') = End[encoded]
      BY <1>2, <1>3, <1>4, <1>6
    <2>6. base + Len(socket') + Len(out') = End[encoded']
      BY <1>3, <2>2, <2>3, <2>5
    <2>7. BytesInOrder'
      BY <1>1, <1>2, <1>4, <2>2, <2>3, <2>5, <2>6 DEF BytesInOrder, base
    <2> QED
      BY <2>4, <2>7 DEF IInv
  <1>7. \/ k < Len(out) /\ out' = rest /\ UNCHANGED <<encoded, sender>>
        \/ k = Len(out) /\ out' = <<>> /\ sender' = "idle" /\ UNCHANGED encoded
        \/ /\ k = Len(out) /\ sender = "makingRoom"
           /\ out' = Encoding(encoded + 1) /\ sender' = "sending"
           /\ encoded' = encoded + 1
    BY DEF Flush, rest
  <1>8. CASE k < Len(out) /\ out' = rest /\ UNCHANGED <<encoded, sender>>
    BY <1>2, <1>5, <1>8
  <1>9. CASE k = Len(out) /\ out' = <<>> /\ sender' = "idle" /\ UNCHANGED encoded
    <2>1. Len(out') = Len(out) - k
      BY <1>3, <1>9
    <2> QED
      BY <1>5, <1>9, <2>1
  <1> QED
    BY <1>6, <1>7, <1>8, <1>9

LEMMA TimeOutKeeps == ASSUME IInv, TimeOut PROVE IInv'
  BY DEF TimeOut, Unflushed, IInv, TypeOK, InOrder, BytesInOrder, CursorIsScanned,
         SenderNeedsUp, Taken, Consecutive

LEMMA BreakKeeps == ASSUME IInv, NEW k \in 0 .. Window, Break(k) PROVE IInv'
  <1>1. /\ up' = FALSE /\ sender' = "idle" /\ out' = <<>>
        /\ socket' = SubSeq(socket, 1, k) /\ k \in 0 .. Len(socket)
        /\ encoded' = encoded /\ buffer' = buffer /\ cursor' = cursor
        /\ reader' = reader /\ received' = received /\ Taken' = Taken
    BY FramingAssumption, Numbers DEF Break, Taken, FramingAssumption
  <1> DEFINE base == Taken + Len(buffer)
  <1>2. base \in Nat /\ socket \in Seq(Nat) /\ Consecutive(socket, base)
    BY Numbers DEF IInv, BytesInOrder
  <1>3. /\ socket' \in Seq(Nat) /\ Len(socket') = k
        /\ Consecutive(socket', base)
    BY <1>1, <1>2, Take
  <1>4. TypeOK' /\ InOrder' /\ CursorIsScanned' /\ SenderNeedsUp'
    <2>1. TypeOK'
      <3>1. out' \in Seq(Nat) /\ buffer' \in Seq(Nat)
        BY <1>1, Numbers
      <3> QED
        BY <3>1, <1>1, <1>3 DEF IInv, TypeOK
    <2>2. InOrder' /\ CursorIsScanned' /\ SenderNeedsUp'
      BY <1>1 DEF IInv, InOrder, CursorIsScanned, SenderNeedsUp
    <2> QED
      BY <2>1, <2>2
  <1>5. BytesInOrder'
    <2>1. Taken + Len(buffer) + Len(socket') + Len(out') <= End[encoded]
      BY <1>1, <1>3, Numbers DEF IInv, BytesInOrder
    <2>2. \A from : Consecutive(out', from)
      BY <1>1 DEF Consecutive
    <2> QED
      BY <1>1, <1>3, <2>1, <2>2 DEF IInv, BytesInOrder
  <1> QED
    BY <1>4, <1>5 DEF IInv

LEMMA ReceiveKeeps == ASSUME IInv, NEW k \in 1 .. Window, Receive(k) PROVE IInv'
  <1> DEFINE base == Taken + Len(buffer)
             piece == SubSeq(socket, 1, k)
             rest == SubSeq(socket, k + 1, Len(socket))
  <1>1. /\ up' = up /\ sender' = sender /\ out' = out /\ encoded' = encoded
        /\ cursor' = cursor /\ reader' = "decoding" /\ received' = received
        /\ Taken' = Taken
        /\ socket' = rest /\ buffer' = buffer \o piece
    BY DEF Receive, Taken
  <1>2. k \in Nat /\ k \in 0 .. Len(socket)
    BY FramingAssumption, Numbers DEF FramingAssumption, Receive
  <1>3. /\ base \in Nat /\ Taken \in Nat /\ Len(buffer) \in Nat
        /\ buffer \in Seq(Nat) /\ socket \in Seq(Nat)
        /\ Consecutive(buffer, Taken) /\ Consecutive(socket, base)
    BY Numbers DEF IInv, BytesInOrder
  <1>4. /\ piece \in Seq(Nat) /\ Len(piece) = k /\ Consecutive(piece, base)
    BY <1>2, <1>3, Take
  <1>5. /\ rest \in Seq(Nat) /\ Len(rest) = Len(socket) - k
        /\ Consecutive(rest, base + k)
    BY <1>2, <1>3, Drop
  <1> HIDE DEF piece, rest
  <1>6. /\ buffer' \in Seq(Nat) /\ Len(buffer') = Len(buffer) + k
        /\ Consecutive(buffer', Taken)
    BY <1>1, <1>3, <1>4, Join
  <1>7. TypeOK' /\ InOrder' /\ SenderNeedsUp'
    BY <1>1, <1>5, <1>6 DEF IInv, TypeOK, InOrder, SenderNeedsUp
  <1>8. CursorIsScanned'
    <2>1. \A i \in 1 .. Len(buffer) : buffer'[i] = buffer[i]
      BY <1>2, <1>3, <1>6 DEF Consecutive
    <2>2. /\ cursor \in Nat /\ cursor <= Len(buffer)
          /\ \A i \in 1 .. cursor : buffer[i] \notin Newline
      BY DEF IInv, TypeOK, CursorIsScanned
    <2>3. cursor' <= Len(buffer')
      BY <1>1, <1>2, <1>3, <1>6, <2>2
    <2>4. \A i \in 1 .. cursor : buffer'[i] \notin Newline
      BY <1>3, <2>1, <2>2
    <2> QED
      BY <1>1, <2>3, <2>4 DEF CursorIsScanned
  <1>9. BytesInOrder'
    <2>1. /\ Taken + Len(buffer') = base + k
          /\ Taken + Len(buffer') + Len(socket') = base + Len(socket)
      BY <1>1, <1>2, <1>3, <1>5, <1>6, Numbers
    <2> QED
      BY <1>1, <1>5, <1>6, <2>1 DEF IInv, BytesInOrder
  <1> QED
    BY <1>7, <1>8, <1>9 DEF IInv

LEMMA ReceiveEofKeeps == ASSUME IInv, ReceiveEof PROVE IInv'
  BY DEF ReceiveEof, IInv, TypeOK, InOrder, BytesInOrder, CursorIsScanned,
         SenderNeedsUp, Taken, Consecutive

LEMMA StopReadingKeeps == ASSUME IInv, StopReading PROVE IInv'
  BY DEF StopReading, IInv, TypeOK, InOrder, BytesInOrder, CursorIsScanned,
         SenderNeedsUp, Taken, Consecutive

LEMMA DecodeNothingKeeps == ASSUME IInv, DecodeNothing PROVE IInv'
  <1>1. /\ cursor' = Len(buffer) /\ reader' \in {"reading", "ended", "cutOff"}
        /\ Newlines = {}
        /\ UNCHANGED <<sender, encoded, out, socket, up, buffer, received>>
    BY DEF DecodeNothing, CursorAtEnd
  <1>2. TypeOK' /\ InOrder' /\ SenderNeedsUp'
    BY <1>1, Numbers DEF IInv, TypeOK, InOrder, SenderNeedsUp
  <1>3. BytesInOrder'
    BY <1>1 DEF IInv, BytesInOrder, Taken, Consecutive
  <1>4. CursorIsScanned'
    <2>1. cursor \in Nat /\ Len(buffer) \in Nat
      BY Numbers DEF IInv, TypeOK
    <2>2. \A i \in 1 .. Len(buffer) : i \in 1 .. cursor \/ i \in cursor + 1 .. Len(buffer)
      BY <2>1
    <2>3. \A i \in 1 .. Len(buffer) : buffer[i] \notin Newline
      BY <1>1, <2>2 DEF IInv, CursorIsScanned, Newlines
    <2> QED
      BY <1>1, <2>1, <2>3 DEF CursorIsScanned
  <1> QED
    BY <1>2, <1>3, <1>4 DEF IInv

\* The bytes up to the first newline of the buffer are the next message: it
\* is the first newline after what was taken, and no byte is missing.
LEMMA FrameIsNextMessage ==
    ASSUME IInv, Newlines # {}
    PROVE  LET r == Len(received)
           IN  /\ FirstNewline \in 1 .. Len(buffer)
               /\ r + 1 \in Message /\ r + 1 <= encoded
               /\ Taken + FirstNewline = End[r + 1]
               /\ SubSeq(buffer, 1, FirstNewline - 1) = Body(r + 1)
  <1> DEFINE r == Len(received)
             first == End[r + 1] - Taken
  <1>1. /\ r \in 0 .. MaxMessage /\ Taken = End[r] /\ Taken \in Nat
        /\ cursor \in Nat /\ Len(buffer) \in Nat /\ encoded \in 0 .. MaxMessage
    BY Numbers DEF IInv, TypeOK, Taken
  <1>2. \A i \in 1 .. Len(buffer) : buffer[i] = Taken + i
    BY DEF IInv, BytesInOrder, Consecutive
  <1>3. \A i \in Newlines :
            \E n \in Message : r < n /\ End[n] = Taken + i /\ i \in 1 .. Len(buffer)
    <2> SUFFICES ASSUME NEW i \in Newlines
                 PROVE  \E n \in Message :
                            r < n /\ End[n] = Taken + i /\ i \in 1 .. Len(buffer)
      OBVIOUS
    <2>1. i \in 1 .. Len(buffer) /\ buffer[i] \in Newline
      BY <1>1 DEF Newlines
    <2>2. PICK n \in Message : End[n] = Taken + i
      BY <2>1, <1>2 DEF Newline
    <2>3. n \in 0 .. MaxMessage /\ End[r] < End[n]
      BY <2>1, <2>2, <1>1, FramingAssumption DEF FramingAssumption, Message
    <2> QED
      BY <2>1, <2>2, <2>3, <1>1, EndsGrow
  <1>4. PICK i \in Newlines, n \in Message :
            r < n /\ End[n] = Taken + i /\ i \in 1 .. Len(buffer)
    BY <1>3
  <1>5. r + 1 \in Message /\ r + 1 \in 0 .. MaxMessage
    BY <1>1, <1>4, FramingAssumption DEF FramingAssumption, Message
  <1>6. \A m \in Message : r < m => End[r + 1] <= End[m] /\ End[m] \in Nat
    <2> SUFFICES ASSUME NEW m \in Message, r < m
                 PROVE  End[r + 1] <= End[m] /\ End[m] \in Nat
      OBVIOUS
    <2>1. m \in 0 .. MaxMessage /\ (m = r + 1 \/ r + 1 < m)
      BY <1>1, FramingAssumption DEF FramingAssumption, Message
    <2> QED
      BY <2>1, <1>5, EndsGrow
  <1>7. first \in 1 .. Len(buffer) /\ Taken + first = End[r + 1]
    <2>1. End[r] < End[r + 1] /\ End[r + 1] <= End[n] /\ End[r + 1] \in Nat
      BY <1>1, <1>4, <1>5, <1>6, EndsGrow
    <2>2. End[n] - Taken \in 1 .. Len(buffer) /\ End[n] \in Int
      BY <1>1, <1>4, <1>6
    <2> QED
      BY <2>1, <2>2, <1>1
  <1> HIDE DEF first
  <1>8. first \in Newlines
    <2>1. buffer[first] \in Newline
      BY <1>2, <1>5, <1>7 DEF Newline
    <2>2. ~ (first \in 1 .. cursor)
      BY <2>1 DEF IInv, CursorIsScanned
    <2> QED
      BY <2>1, <2>2, <1>1, <1>7 DEF Newlines
  <1>9. \A j \in Newlines : first <= j
    BY <1>1, <1>3, <1>5, <1>6, <1>7
  <1>10. \A j \in Newlines : j \in Nat
    BY <1>3
  <1>11. FirstNewline = first
    <2>1. FirstNewline \in Newlines /\ \A j \in Newlines : FirstNewline <= j
      BY <1>8, <1>9 DEF FirstNewline
    <2> QED
      BY <2>1, <1>8, <1>9, <1>10
  <1>12. r + 1 <= encoded
    <2>1. End[r + 1] <= End[encoded]
      <3>1. Taken + Len(buffer) + Len(socket) + Len(out) <= End[encoded]
        BY DEF IInv, BytesInOrder
      <3>2. Len(socket) \in Nat /\ Len(out) \in Nat /\ End[encoded] \in Nat
        BY Numbers
      <3>3. End[r + 1] = Taken + first /\ first \in 1 .. Len(buffer)
        BY <1>7
      <3>4. Taken \in Nat /\ Len(buffer) \in Nat
        BY <1>1
      <3>5. Taken + first <= End[encoded]
        BY <3>1, <3>2, <3>3, <3>4
      <3> QED
        BY <3>3, <3>5
    <2>2. ~ (encoded < r + 1)
      BY <2>1, <1>1, <1>5, EndsGrow
    <2> QED
      BY <2>2, <1>1
  <1>13. SubSeq(buffer, 1, first - 1) = Body(r + 1)
    <2> DEFINE frame == SubSeq(buffer, 1, first - 1)
               size == End[r + 1] - End[r] - 1
    <2>1. size = first - 1 /\ size \in Nat /\ (r + 1) - 1 = r
      BY <1>1, <1>7
    <2>2. /\ frame \in Seq(Nat) /\ Len(frame) = size
          /\ \A x \in 1 .. size : frame[x] = End[r] + x
      <3>1. first - 1 \in 0 .. Len(buffer) /\ buffer \in Seq(Nat)
        BY <1>1, <1>7, Numbers
      <3>2. /\ frame \in Seq(Nat) /\ Len(frame) = first - 1
            /\ Consecutive(frame, Taken)
        BY <3>1, <1>1, Take DEF IInv, BytesInOrder
      <3> QED
        BY <2>1, <3>2, <1>1 DEF Consecutive
    <2>3. Body(r + 1) = [x \in 1 .. size |-> End[r] + x]
      BY <2>1 DEF Body
    <2> HIDE DEF frame, size
    <2>4. frame = [x \in 1 .. size |-> frame[x]]
      BY <2>2
    <2> QED
      BY <2>2, <2>3, <2>4 DEF frame
  <1> QED
    BY <1>5, <1>7, <1>11, <1>12, <1>13

LEMMA DecodeFrameKeeps == ASSUME IInv, DecodeFrame PROVE IInv'
  <1> DEFINE r == Len(received)
             first == FirstNewline
             rest == SubSeq(buffer, first + 1, Len(buffer))
  <1>1. /\ first \in 1 .. Len(buffer) /\ r + 1 \in Message /\ r + 1 <= encoded
        /\ Taken + first = End[r + 1]
        /\ SubSeq(buffer, 1, first - 1) = Body(r + 1)
    BY FrameIsNextMessage DEF DecodeFrame
  <1>2. /\ reader \in {"decoding", "draining"}
        /\ buffer' = rest /\ cursor' = 0
        /\ UNCHANGED <<sender, encoded, out, socket, up>>
    BY DEF DecodeFrame, CursorAtStart
  <1>3. /\ received \in Seq(Message) /\ r \in 0 .. MaxMessage /\ Taken = End[r]
        /\ Taken \in Nat /\ buffer \in Seq(Nat) /\ Len(buffer) \in Nat
    BY Numbers DEF Taken
  <1>4. \A n \in Message : Body(n) = Body(r + 1) => n = r + 1
    <2> SUFFICES ASSUME NEW n \in Message, Body(n) = Body(r + 1) PROVE n = r + 1
      OBVIOUS
    <2>1. /\ n - 1 \in 0 .. MaxMessage /\ n \in 0 .. MaxMessage
          /\ n \in Int /\ r \in Int /\ r + 1 \in 0 .. MaxMessage
      BY <1>1, <1>3, FramingAssumption DEF FramingAssumption, Message
    <2>2. End[n - 1] + 1 < End[n] /\ End[r] + 1 < End[r + 1]
      BY <2>1, <1>3, EndsGrow
    <2>3. /\ End[n - 1] \in Nat /\ End[n] \in Nat
          /\ End[r] \in Nat /\ End[r + 1] \in Nat
      BY <2>1, <1>3, EndsGrow
    <2>4. Body(n)[1] = End[n - 1] + 1
      BY <2>2, <2>3 DEF Body
    <2>5. (r + 1) - 1 = r
      BY <2>1
    <2>6. Body(r + 1)[1] = End[r] + 1
      BY <2>2, <2>3, <2>5 DEF Body
    <2>7. End[n - 1] = End[r]
      BY <2>3, <2>4, <2>6
    <2>8. n - 1 = r
      BY <2>1, <2>7, <1>3, EndsGrow
    <2> QED
      BY <2>1, <2>8
  <1>5. received' = Append(received, r + 1) /\ reader' = reader
    BY <1>1, <1>4 DEF DecodeFrame
  <1>6. /\ received' \in Seq(Message) /\ Len(received') = r + 1
        /\ Taken' = End[r + 1] /\ Taken' = Taken + first
    BY <1>1, <1>3, <1>5 DEF Taken
  <1>7. /\ rest \in Seq(Nat) /\ Len(rest) = Len(buffer) - first
        /\ Consecutive(rest, Taken + first)
    <2>1. first \in 0 .. Len(buffer) /\ Consecutive(buffer, Taken)
      BY <1>1 DEF IInv, BytesInOrder
    <2> HIDE DEF first
    <2> QED
      BY <2>1, <1>3, Drop
  <1> HIDE DEF first, rest
  <1>8. TypeOK' /\ SenderNeedsUp'
    BY <1>2, <1>5, <1>6, <1>7 DEF IInv, TypeOK, SenderNeedsUp
  <1>9. InOrder'
    <2>1. \A i \in 1 .. r : received'[i] = received[i]
      BY <1>3, <1>5
    <2>2. received'[r + 1] = r + 1
      BY <1>3, <1>5
    <2>3. \A i \in 1 .. r + 1 : received'[i] = i
      BY <2>1, <2>2, <1>3 DEF IInv, InOrder
    <2> QED
      BY <2>3, <1>1, <1>2, <1>5, <1>6 DEF IInv, InOrder
  <1>10. BytesInOrder'
    <2>1. Taken' + Len(buffer') = Taken + Len(buffer)
      BY <1>1, <1>2, <1>3, <1>6, <1>7
    <2> QED
      BY <2>1, <1>2, <1>6, <1>7 DEF IInv, BytesInOrder, Consecutive
  <1>11. CursorIsScanned'
    BY <1>1, <1>2, <1>3, <1>7 DEF CursorIsScanned
  <1> QED
    BY <1>8, <1>9, <1>10, <1>11 DEF IInv

LEMMA NextInvariant == IInv /\ [Next]_vars => IInv'
  <1> SUFFICES ASSUME IInv, [Next]_vars PROVE IInv'
    OBVIOUS
  <1>1. CASE StartSend
    BY <1>1, StartSendKeeps
  <1>2. CASE TimeOut
    BY <1>2, TimeOutKeeps
  <1>3. CASE \E k \in 1 .. Window : Flush(k)
    BY <1>3, FlushKeeps
  <1>4. CASE \E k \in 0 .. Window : Break(k)
    BY <1>4, BreakKeeps
  <1>5. CASE \E k \in 1 .. Window : Receive(k)
    BY <1>5, ReceiveKeeps
  <1>6. CASE ReceiveEof
    BY <1>6, ReceiveEofKeeps
  <1>7. CASE DecodeFrame
    BY <1>7, DecodeFrameKeeps
  <1>8. CASE DecodeNothing
    BY <1>8, DecodeNothingKeeps
  <1>9. CASE StopReading
    BY <1>9, StopReadingKeeps
  <1>10. CASE UNCHANGED vars
    BY <1>10 DEF vars, IInv, TypeOK, InOrder, BytesInOrder, CursorIsScanned,
                 SenderNeedsUp, Taken, Consecutive
  <1> QED
    BY <1>1, <1>2, <1>3, <1>4, <1>5, <1>6, <1>7, <1>8, <1>9, <1>10 DEF Next

\* In every state the bytes between the two ends are those of the messages
\* that were encoded and not returned yet, and the decoder has not passed a
\* newline.
THEOREM Invariant == Spec => []IInv
  BY InitInvariant, NextInvariant, PTL DEF Spec

----------------------------------------------------------------------------
(* What follows from it.                                                   *)

\* The variables of Framing have their types; the cursor is never negative.
THEOREM TypeCorrect == Spec => []TypeOK
  <1>1. IInv => TypeOK
    BY DEF IInv
  <1> QED
    BY <1>1, Invariant, PTL

\* Whatever pieces the bytes arrive in, whichever sends time out and wherever
\* the connection breaks, the messages that DMessageCodec returns are the
\* first ones that were sent, in order, and none of them is torn.
THEOREM MessagesInOrder == Spec => []InOrder
  <1>1. IInv => InOrder
    BY DEF IInv
  <1> QED
    BY <1>1, Invariant, PTL

----------------------------------------------------------------------------
(* Framing implements MessageChannel.                                      *)

\* A set of numbers has a smallest one.
LEMMA SmallestOf ==
    ASSUME NEW T, T \subseteq Nat, T # {}
    PROVE  \E x \in T : \A y \in T : x <= y
  <1>1. PICK x \in T : \A y \in T : ~ (<<y, x>> \in OpToRel(<, Nat))
    BY NatLessThanWellFounded, WFMin
  <1>2. \A y \in T : ~ (y < x)
    BY <1>1 DEF OpToRel
  <1> QED
    BY <1>2

\* Which messages still arrive is determined by the last byte that does.
LEMMA WholeIs ==
    ASSUME NEW n \in 0 .. MaxMessage,
           End[n] <= Reach,
           \A m \in 0 .. MaxMessage : End[m] <= Reach => m <= n
    PROVE  LastWhole = n
  <1>1. \A k \in 0 .. MaxMessage :
            End[k] <= Reach /\ (\A m \in 0 .. MaxMessage : End[m] <= Reach => m <= k)
            => k = n
    BY FramingAssumption DEF FramingAssumption
  <1> QED
    BY <1>1 DEF LastWhole

\* There is such a message, and it is not before those that were returned nor
\* behind those that were encoded.
LEMMA WholeExists ==
    ASSUME IInv
    PROVE  /\ LastWhole \in Len(received) .. encoded
           /\ End[LastWhole] <= Reach
           /\ \A m \in 0 .. MaxMessage : End[m] <= Reach => m <= LastWhole
           /\ Reach \in Nat /\ Reach <= End[encoded]
  <1> DEFINE r == Len(received)
             T == {d \in 0 .. MaxMessage : End[MaxMessage - d] <= Reach}
  <1>1. /\ r \in 0 .. MaxMessage /\ encoded \in 0 .. MaxMessage
        /\ MaxMessage \in Nat
        /\ Taken = End[r] /\ Taken \in Nat
        /\ Reach = Taken + Len(buffer) + Len(socket) + Len(out)
        /\ Reach \in Nat /\ Taken <= Reach /\ Reach <= End[encoded]
    BY Numbers, FramingAssumption
    DEF IInv, TypeOK, BytesInOrder, Reach, Taken, FramingAssumption
  <1>2. MaxMessage - r \in T /\ T \subseteq Nat
    BY <1>1
  <1>3. PICK d \in T : \A e \in T : d <= e
    <2> HIDE DEF T
    <2> QED
      BY <1>2, SmallestOf
  <1>4. /\ MaxMessage - d \in 0 .. MaxMessage
        /\ End[MaxMessage - d] <= Reach
        /\ d \in Nat
    BY <1>1, <1>3
  <1>5. ASSUME NEW m \in 0 .. MaxMessage, End[m] <= Reach
        PROVE  m <= MaxMessage - d
    <2>1. MaxMessage - (MaxMessage - m) = m /\ MaxMessage - m \in 0 .. MaxMessage
      BY <1>1
    <2>2. MaxMessage - m \in T
      BY <2>1, <1>5
    <2>3. d <= MaxMessage - m
      BY <2>2, <1>3
    <2> QED
      BY <2>1, <2>3, <1>1, <1>4
  <1>6. LastWhole = MaxMessage - d
    BY <1>4, <1>5, WholeIs
  <1>7. r <= LastWhole
    BY <1>1, <1>5, <1>6
  <1> DEFINE last == MaxMessage - d
  <1>8. ~ (encoded < last)
    <2> HIDE DEF T
    <2>1. last \in 0 .. MaxMessage /\ End[last] <= Reach
      BY <1>4
    <2> HIDE DEF last
    <2>2. End[last] \in Nat /\ End[encoded] \in Nat
      BY <1>1, <2>1, EndsGrow
    <2>3. Reach \in Nat /\ Reach <= End[encoded] /\ encoded \in 0 .. MaxMessage
      BY <1>1
    <2>4. ~ (End[encoded] < End[last])
      BY <2>1, <2>2, <2>3
    <2> QED
      BY <2>1, <2>3, <2>4, EndsGrow
  <1> QED
    BY <1>1, <1>4, <1>5, <1>6, <1>7, <1>8

\* A step that moves bytes is none of the channel.
LEMMA MoveIsStutter ==
    ASSUME Reach' = Reach, UNCHANGED <<encoded, received, up>>
    PROVE  UNCHANGED <<encoded, OnTheWay, received, up>>
  <1>1. LastWhole' = LastWhole
    BY DEF LastWhole
  <1> QED
    BY <1>1 DEF OnTheWay

\* While the connection is up, all that was encoded arrives.
LEMMA AllArrive ==
    ASSUME IInv, up
    PROVE  LastWhole = encoded
  <1>1. encoded \in 0 .. MaxMessage
    BY DEF IInv, TypeOK
  <1>2. Reach = End[encoded]
    BY <1>1 DEF IInv, BytesInOrder, Reach, Taken
  <1>3. \A m \in 0 .. MaxMessage : End[m] <= Reach => m <= encoded
    BY <1>1, <1>2, WholeExists
  <1> QED
    BY <1>1, <1>2, <1>3, WholeExists

\* The messages after one up to another.
Span(from, to) == [i \in 1 .. to - from |-> from + i]

\* How a span grows at its end and shrinks at both.
LEMMA SpanIs ==
    ASSUME NEW from \in Nat, NEW to \in Nat, from <= to
    PROVE  /\ Span(from, to) \in Seq(Nat)
           /\ Len(Span(from, to)) = to - from
           /\ \A i \in 1 .. to - from : Span(from, to)[i] = from + i
  BY DEF Span

\* A sequence of the same numbers is the span.
LEMMA SameNumbers ==
    ASSUME NEW s \in Seq(Nat), NEW from \in Nat, NEW to \in Nat, from <= to,
           Len(s) = to - from,
           \A i \in 1 .. to - from : s[i] = from + i
    PROVE  Span(from, to) = s
  <1> DEFINE t == Span(from, to)
  <1>1. /\ t \in Seq(Nat) /\ Len(t) = Len(s)
        /\ \A i \in 1 .. Len(t) : t[i] = s[i]
    BY SpanIs
  <1> HIDE DEF t
  <1>2. t = s
    BY <1>1, SeqEqual
  <1> QED
    BY <1>2 DEF t

LEMMA SpanAppend ==
    ASSUME NEW from \in Nat, NEW to \in Nat, from <= to
    PROVE  Span(from, to + 1) = Append(Span(from, to), to + 1)
  <1> DEFINE old == Span(from, to)
             s == Append(old, to + 1)
  <1>1. /\ old \in Seq(Nat) /\ Len(old) = to - from
        /\ \A i \in 1 .. to - from : old[i] = from + i
    BY SpanIs
  <1> HIDE DEF old
  <1>2. /\ s \in Seq(Nat) /\ Len(s) = to + 1 - from
        /\ \A i \in 1 .. to + 1 - from : s[i] = from + i
    BY <1>1
  <1> HIDE DEF s
  <1>3. Span(from, to + 1) = s
    BY <1>2, SameNumbers
  <1> QED
    BY <1>3 DEF s, old

LEMMA SpanTail ==
    ASSUME NEW from \in Nat, NEW to \in Nat, from + 1 <= to
    PROVE  /\ Span(from, to) # <<>> /\ Head(Span(from, to)) = from + 1
           /\ Span(from + 1, to) = Tail(Span(from, to))
  <1> DEFINE old == Span(from, to)
             s == Tail(old)
  <1>1. /\ old \in Seq(Nat) /\ Len(old) = to - from
        /\ \A i \in 1 .. to - from : old[i] = from + i
    BY SpanIs
  <1> HIDE DEF old
  <1>2. old # <<>> /\ Head(old) = from + 1
    BY <1>1
  <1>3. /\ s \in Seq(Nat) /\ Len(s) = to - (from + 1)
        /\ \A i \in 1 .. to - (from + 1) : s[i] = from + 1 + i
    BY <1>1, <1>2
  <1> HIDE DEF s
  <1>4. Span(from + 1, to) = s
    BY <1>3, SameNumbers
  <1> QED
    BY <1>2, <1>4 DEF s, old

LEMMA SpanPrefix ==
    ASSUME NEW from \in Nat, NEW mid \in Nat, NEW to \in Nat, from <= mid, mid <= to
    PROVE  \E k \in 0 .. Len(Span(from, to)) :
               Span(from, mid) = SubSeq(Span(from, to), 1, k)
  <1> DEFINE old == Span(from, to)
             s == SubSeq(old, 1, mid - from)
  <1>1. /\ old \in Seq(Nat) /\ Len(old) = to - from
        /\ \A i \in 1 .. to - from : old[i] = from + i
    BY SpanIs
  <1> HIDE DEF old
  <1>2. /\ s \in Seq(Nat) /\ Len(s) = mid - from
        /\ \A i \in 1 .. mid - from : s[i] = from + i
    BY <1>1
  <1>3. mid - from \in 0 .. Len(old)
    BY <1>1
  <1> HIDE DEF s
  <1>4. Span(from, mid) = s
    BY <1>2, SameNumbers
  <1> QED
    BY <1>3, <1>4 DEF s, old

LEMMA OnTheWayIsSpan == OnTheWay = Span(Len(received), LastWhole)
  BY DEF OnTheWay, Span

\* The bounds of that span, as numbers.
LEMMA SpanBounds ==
    ASSUME IInv
    PROVE  /\ Len(received) \in Nat /\ LastWhole \in Nat /\ encoded \in Nat
           /\ Len(received) <= LastWhole /\ LastWhole <= encoded
  <1>1. encoded \in Nat /\ Len(received) \in Nat
    BY Numbers DEF IInv, TypeOK
  <1> QED
    BY <1>1, WholeExists

LEMMA InitIsChannelInit == Init => Channel!Init
  <1> SUFFICES ASSUME Init PROVE Channel!Init
    OBVIOUS
  <1>1. IInv
    BY InitInvariant
  <1>2. encoded = 0 /\ received = <<>> /\ up = TRUE
    BY DEF Init
  <1>3. LastWhole = 0
    BY <1>1, <1>2, AllArrive
  <1>4. OnTheWay = <<>>
    <2>1. Span(0, 0) \in Seq(Nat) /\ Len(Span(0, 0)) = 0
      BY SpanIs
    <2>2. Span(0, 0) = <<>>
      BY <2>1
    <2> QED
      BY <2>2, <1>2, <1>3, OnTheWayIsSpan
  <1> QED
    BY <1>2, <1>4 DEF Channel!Init

\* A step in which the sink accepts a message.
LEMMA AcceptIsSend ==
    ASSUME IInv, IInv', up, encoded < MaxMessage,
           encoded' = encoded + 1, UNCHANGED <<received, up>>
    PROVE  Channel!Send
  <1>1. LastWhole = encoded
    BY AllArrive
  <1>2. (IInv /\ up => LastWhole = encoded)'
    BY AllArrive, PTL
  <1>3. LastWhole' = encoded + 1
    BY <1>2, Zenon
  <1>4. OnTheWay' = Span(Len(received), encoded + 1)
    <2>1. (OnTheWay = Span(Len(received), LastWhole))'
      BY OnTheWayIsSpan, PTL
    <2> QED
      BY <2>1, <1>3, Zenon
  <1>5. OnTheWay = Span(Len(received), encoded)
    BY <1>1, OnTheWayIsSpan
  <1>6. Span(Len(received), encoded + 1) = Append(Span(Len(received), encoded), encoded + 1)
    BY <1>1, SpanBounds, SpanAppend
  <1>7. OnTheWay' = Append(OnTheWay, encoded + 1)
    BY <1>4, <1>5, <1>6, Zenon
  <1> QED
    BY <1>7 DEF Channel!Send

\* A step in which decode returns a message.
LEMMA DecodeIsDeliver ==
    ASSUME IInv, IInv', DecodeFrame
    PROVE  Channel!Deliver
  <1> DEFINE r == Len(received)
             first == FirstNewline
  <1>1. /\ first \in 1 .. Len(buffer) /\ r + 1 \in Message
        /\ Taken + first = End[r + 1]
    BY FrameIsNextMessage DEF DecodeFrame
  <1>2. /\ received \in Seq(Message) /\ r \in Nat
        /\ Taken \in Nat /\ Taken = End[r]
        /\ buffer \in Seq(Nat) /\ Len(buffer) \in Nat
        /\ Len(socket) \in Nat /\ Len(out) \in Nat
    BY Numbers DEF Taken
  <1>3. received' = Append(received, r + 1)
    <2>1. PICK n \in Message : received' = Append(received, n)
      BY DEF DecodeFrame, IInv, InOrder
    <2>2. received'[r + 1] = n /\ Len(received') = r + 1
      BY <2>1, <1>2
    <2>3. n = r + 1
      BY <2>2, <1>2 DEF IInv, InOrder
    <2> QED
      BY <2>1, <2>3
  <1>4. Len(received') = r + 1
    BY <1>2, <1>3
  <1>5. UNCHANGED <<encoded, up, socket, out>>
    BY DEF DecodeFrame
  <1>6. Len(buffer') = Len(buffer) - first
    BY <1>1, <1>2 DEF DecodeFrame
  <1> HIDE DEF first
  <1>7. Reach' = Reach
    BY <1>1, <1>2, <1>4, <1>5, <1>6 DEF Reach
  <1>8. LastWhole' = LastWhole
    BY <1>7 DEF LastWhole
  <1>9. r + 1 <= LastWhole
    <2>1. r + 1 \in 0 .. MaxMessage
      BY <1>1, <1>2 DEF Message
    <2>2. End[r + 1] <= Reach
      <3>1. Reach = Taken + Len(buffer) + Len(socket) + Len(out)
        BY <1>2 DEF Reach
      <3>2. /\ Taken \in Nat /\ Len(buffer) \in Nat
            /\ Len(socket) \in Nat /\ Len(out) \in Nat
        BY <1>2
      <3>3. first \in 1 .. Len(buffer)
        BY <1>1
      <3>4. Taken + first <= Reach
        BY <3>1, <3>2, <3>3
      <3> QED
        BY <3>4, <1>1
    <2> QED
      BY <2>1, <2>2, WholeExists
  <1>10. /\ Span(r, LastWhole) # <<>> /\ Head(Span(r, LastWhole)) = r + 1
         /\ Span(r + 1, LastWhole) = Tail(Span(r, LastWhole))
    BY <1>9, SpanBounds, SpanTail
  <1>11. OnTheWay' = Span(r + 1, LastWhole)
    <2>1. (OnTheWay = Span(Len(received), LastWhole))'
      BY OnTheWayIsSpan, PTL
    <2> QED
      BY <2>1, <1>4, <1>8, Zenon
  <1>12. OnTheWay = Span(r, LastWhole)
    BY OnTheWayIsSpan
  <1> HIDE DEF r
  <1>13. /\ OnTheWay # <<>> /\ received' = Append(received, Head(OnTheWay))
         /\ OnTheWay' = Tail(OnTheWay)
    BY <1>3, <1>10, <1>11, <1>12, Zenon
  <1> QED
    BY <1>5, <1>13 DEF Channel!Deliver

\* A connection that breaks: the bytes that are left hold the first messages.
LEMMA BreakIsBreak ==
    ASSUME IInv, IInv', NEW k \in 0 .. Window, Break(k)
    PROVE  Channel!Break
  <1>1. up /\ up' = FALSE /\ UNCHANGED <<encoded, received>>
    BY DEF Break
  <1>2. PICK last : last = LastWhole'
    OBVIOUS
  <1>3. (IInv => /\ Len(received) \in Nat /\ LastWhole \in Nat /\ encoded \in Nat
                 /\ Len(received) <= LastWhole /\ LastWhole <= encoded)'
    BY SpanBounds, PTL
  <1>4. /\ Len(received) \in Nat /\ last \in Nat /\ encoded \in Nat
        /\ Len(received) <= last /\ last <= encoded
    BY <1>1, <1>2, <1>3, Zenon
  <1>5. OnTheWay = Span(Len(received), encoded)
    BY <1>1, AllArrive, OnTheWayIsSpan
  <1>6. OnTheWay' = Span(Len(received), last)
    <2>1. (OnTheWay = Span(Len(received), LastWhole))'
      BY OnTheWayIsSpan, PTL
    <2> QED
      BY <2>1, <1>1, <1>2, Zenon
  <1>7. \E n \in 0 .. Len(Span(Len(received), encoded)) :
            Span(Len(received), last) = SubSeq(Span(Len(received), encoded), 1, n)
    BY <1>4, SpanPrefix
  <1>8. \E n \in 0 .. Len(OnTheWay) : OnTheWay' = SubSeq(OnTheWay, 1, n)
    BY <1>5, <1>6, <1>7, Zenon
  <1> QED
    BY <1>1, <1>8, Zenon DEF Channel!Break

\* Accepting a message is a Send, returning one a Deliver, losing the
\* connection a Break, and every other step none of the channel.
LEMMA NextIsChannelNext ==
    ASSUME IInv, IInv', [Next]_vars
    PROVE  \/ Channel!Next
           \/ UNCHANGED <<encoded, OnTheWay, received, up>>
  <1>0. /\ Len(received) \in 0 .. MaxMessage
        /\ buffer \in Seq(Nat) /\ socket \in Seq(Nat) /\ out \in Seq(Nat)
        /\ Len(buffer) \in Nat /\ Len(socket) \in Nat /\ Len(out) \in Nat
        /\ End[Len(received)] \in Nat
    BY Numbers DEF Taken
  <1>1. ASSUME StartSend PROVE Channel!Send \/ UNCHANGED <<encoded, OnTheWay, received, up>>
    <2>1. CASE Len(out) < Boundary
      <3>1. up /\ encoded < MaxMessage /\ encoded' = encoded + 1 /\ UNCHANGED <<received, up>>
        BY <1>1, <2>1 DEF StartSend
      <3> QED
        BY <3>1, AcceptIsSend
    <2>2. CASE ~ (Len(out) < Boundary)
      <3>1. UNCHANGED <<encoded, out, socket, up, buffer, received>>
        BY <1>1, <2>2 DEF StartSend
      <3>2. Reach' = Reach
        BY <3>1 DEF Reach
      <3> QED
        BY <3>1, <3>2, MoveIsStutter
    <2> QED
      BY <2>1, <2>2
  <1>2. ASSUME TimeOut PROVE UNCHANGED <<encoded, OnTheWay, received, up>>
    <2>1. UNCHANGED <<encoded, out, socket, up, buffer, received>>
      BY <1>2 DEF TimeOut, Unflushed
    <2>2. Reach' = Reach
      BY <2>1 DEF Reach
    <2> QED
      BY <2>1, <2>2, MoveIsStutter
  <1>3. ASSUME NEW k \in 1 .. Window, Flush(k)
        PROVE  Channel!Send \/ UNCHANGED <<encoded, OnTheWay, received, up>>
    <2>1. /\ k <= Len(out)
          /\ socket' = socket \o SubSeq(out, 1, k)
          /\ UNCHANGED <<up, buffer, received>>
          /\ sender # "idle"
          /\ k \in Nat
      BY <1>3, FramingAssumption DEF Flush, FramingAssumption
    <2>2. Len(socket') = Len(socket) + k
      BY <2>1, <1>0
    <2>3. CASE k < Len(out)
      <3>1. out' = SubSeq(out, k + 1, Len(out)) /\ UNCHANGED encoded
        BY <1>3, <2>3, <1>0, <2>1 DEF Flush
      <3>2. Len(out') = Len(out) - k
        BY <3>1, <2>1, <2>3, <1>0
      <3>3. Reach' = End[Len(received)] + Len(buffer) + (Len(socket) + k) + (Len(out) - k)
        BY <3>2, <2>1, <2>2 DEF Reach
      <3>4. /\ k \in Nat /\ End[Len(received)] \in Nat
            /\ Len(buffer) \in Nat /\ Len(socket) \in Nat /\ Len(out) \in Nat
        BY <2>1, <1>0
      <3>5. Reach' = Reach
        BY <3>3, <3>4 DEF Reach
      <3> QED
        BY <3>1, <3>5, <2>1, MoveIsStutter
    <2>4. CASE k = Len(out) /\ sender = "sending"
      <3>1. out' = <<>> /\ UNCHANGED encoded
        BY <1>3, <2>4 DEF Flush
      <3>2. Len(out') = 0
        BY <3>1
      <3>3. Reach' = End[Len(received)] + Len(buffer) + (Len(socket) + Len(out)) + 0
        BY <3>2, <2>1, <2>2, <2>4 DEF Reach
      <3>4. Reach' = Reach
        BY <3>3, <1>0 DEF Reach
      <3> QED
        BY <3>1, <3>4, <2>1, MoveIsStutter
    <2>5. CASE k = Len(out) /\ sender = "makingRoom"
      <3>1. encoded' = encoded + 1
        BY <1>3, <2>5 DEF Flush
      <3>2. up /\ encoded < MaxMessage
        BY <2>5 DEF IInv, TypeOK, SenderNeedsUp
      <3> QED
        BY <3>1, <3>2, <2>1, AcceptIsSend
    <2> QED
      BY <1>3, <2>3, <2>4, <2>5 DEF Flush
  <1>4. ASSUME NEW k \in 0 .. Window, Break(k) PROVE Channel!Break
    BY <1>4, BreakIsBreak
  <1>5. ASSUME NEW k \in 1 .. Window, Receive(k)
        PROVE  UNCHANGED <<encoded, OnTheWay, received, up>>
    <2>1. /\ k <= Len(socket) /\ k \in Nat
          /\ buffer' = buffer \o SubSeq(socket, 1, k)
          /\ socket' = SubSeq(socket, k + 1, Len(socket))
          /\ UNCHANGED <<encoded, out, up, received>>
      BY <1>5, FramingAssumption DEF Receive, FramingAssumption
    <2>2. Len(buffer') = Len(buffer) + k /\ Len(socket') = Len(socket) - k
      BY <2>1, <1>0
    <2>3. Reach' = End[Len(received)] + (Len(buffer) + k) + (Len(socket) - k) + Len(out)
      BY <2>1, <2>2 DEF Reach
    <2>4. Reach' = Reach
      BY <2>1, <2>3, <1>0 DEF Reach
    <2> QED
      BY <2>1, <2>4, MoveIsStutter
  <1>6. ASSUME ReceiveEof \/ DecodeNothing \/ StopReading \/ UNCHANGED vars
        PROVE  UNCHANGED <<encoded, OnTheWay, received, up>>
    <2>1. UNCHANGED <<encoded, out, socket, up, buffer, received>>
      BY <1>6 DEF ReceiveEof, DecodeNothing, StopReading, vars
    <2>2. Reach' = Reach
      BY <2>1 DEF Reach
    <2> QED
      BY <2>1, <2>2, MoveIsStutter
  <1>7. ASSUME DecodeFrame PROVE Channel!Deliver
    BY <1>7, DecodeIsDeliver
  <1> QED
    BY <1>1, <1>2, <1>3, <1>4, <1>5, <1>6, <1>7 DEF Next, Channel!Next

\* The framing of a connection implements a channel of messages: whatever the
\* sizes of its buffers and pieces, the byte stream with FramedWrite,
\* FramedRead and DMessageCodec is a queue that may lose its tail only when
\* the connection breaks.
THEOREM FramingIsChannel == Spec => IsChannel
  <1>1. IInv /\ IInv' /\ [Next]_vars
        => [Channel!Next]_<<encoded, OnTheWay, received, up>>
    BY NextIsChannelNext
  <1> QED
    BY <1>1, InitIsChannelInit, Invariant, PTL DEF Spec, IsChannel, Channel!Spec
=============================================================================
