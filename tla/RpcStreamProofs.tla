-------------------------- MODULE RpcStreamProofs --------------------------
(***************************************************************************)
(* Theorems about RpcStream: for any items, any length of the response and *)
(* any sizes of the reads, a client gets the items that were sent.         *)
(***************************************************************************)
EXTENDS RpcStream, SequenceTheorems, TLAPS

Item == 1 .. MaxData + 1

\* The bytes of s are those after byte number from.
Consecutive(s, from) == \A i \in 1 .. Len(s) : s[i] = from + i
NoFormFeed(s) == \A i \in 1 .. Len(s) : s[i] \notin FormFeed

Types ==
    /\ count \in 0 .. MaxData
    /\ last \in 0 .. End[count + 1]
    /\ at \in 0 .. last
    /\ buffer \in Seq(Nat) /\ item \in Seq(Nat)
    /\ reader \in {"read", "parse", "done", "error"}
    /\ returned \in Seq(Item)

\* The items up to this byte were returned.
Start == End[Len(returned)]

\* While an item is read, it and the buffer are the bytes that follow, up to
\* the last one that was read.
InStep ==
    /\ Consecutive(item, Start) /\ NoFormFeed(item)
    /\ Consecutive(buffer, Start + Len(item))
    /\ Start + Len(item) + Len(buffer) = at

\* Or the last item was returned although its form feed is missing.
PastEnd ==
    /\ item = <<>> /\ buffer = <<>>
    /\ at = last /\ last = Start - 1

\* An item that is parsed was ended by its form feed, or by the body.
Ended ==
    /\ Len(item) = End[Len(returned) + 1] - Start - 1
    /\ Consecutive(buffer, End[Len(returned) + 1])
    /\ End[Len(returned) + 1] + Len(buffer) = at
CutOff ==
    /\ buffer = <<>>
    /\ at = last /\ Start + Len(item) = last

BytesInOrder ==
    /\ reader = "read" => InStep \/ PastEnd
    /\ reader = "parse" =>
          /\ item # <<>> /\ Consecutive(item, Start) /\ NoFormFeed(item)
          /\ Ended \/ CutOff

IInv == Types /\ Unmangled /\ BytesInOrder /\ OkIsWhole /\ ErrorHasCause

----------------------------------------------------------------------------
(* Items and their form feeds.                                             *)

\* The form feeds are in the order of their items.
LEMMA EndsGrow ==
    ASSUME NEW m \in 0 .. MaxData + 1, NEW n \in 0 .. MaxData + 1
    PROVE  /\ End[m] \in Nat
           /\ m < n <=> End[m] < End[n]
           /\ m < n => End[m] + 1 < End[n]
           /\ m = n <=> End[m] = End[n]
  BY StreamAssumption DEF StreamAssumption

\* The beginning of consecutive bytes.
LEMMA Take ==
    ASSUME NEW s \in Seq(Nat), NEW from \in Nat, Consecutive(s, from),
           NEW k \in 0 .. Len(s)
    PROVE  /\ SubSeq(s, 1, k) \in Seq(Nat)
           /\ Len(SubSeq(s, 1, k)) = k
           /\ Consecutive(SubSeq(s, 1, k), from)
  BY DEF Consecutive

\* The rest of consecutive bytes.
LEMMA Drop ==
    ASSUME NEW s \in Seq(Nat), NEW from \in Nat, Consecutive(s, from),
           NEW k \in 0 .. Len(s)
    PROVE  /\ SubSeq(s, k + 1, Len(s)) \in Seq(Nat)
           /\ Len(SubSeq(s, k + 1, Len(s))) = Len(s) - k
           /\ Consecutive(SubSeq(s, k + 1, Len(s)), from + k)
  BY DEF Consecutive

\* Bytes that go on where others end.
LEMMA Join ==
    ASSUME NEW s \in Seq(Nat), NEW t \in Seq(Nat), NEW from \in Nat,
           Consecutive(s, from), Consecutive(t, from + Len(s))
    PROVE  /\ s \o t \in Seq(Nat)
           /\ Len(s \o t) = Len(s) + Len(t)
           /\ Consecutive(s \o t, from)
  BY DEF Consecutive

LEMMA JoinNoFormFeed ==
    ASSUME NEW s \in Seq(Nat), NEW t \in Seq(Nat), NoFormFeed(s), NoFormFeed(t)
    PROVE  NoFormFeed(s \o t)
  <1> SUFFICES ASSUME NEW i \in 1 .. Len(s) + Len(t)
               PROVE  (s \o t)[i] \notin FormFeed
    BY DEF NoFormFeed
  <1>1. i \in 1 .. Len(s) \/ i - Len(s) \in 1 .. Len(t)
    OBVIOUS
  <1>2. (s \o t)[i] = IF i <= Len(s) THEN s[i] ELSE t[i - Len(s)]
    OBVIOUS
  <1> QED
    BY <1>1, <1>2 DEF NoFormFeed

\* An item without its form feed is the consecutive bytes before that.
LEMMA ChunkIs ==
    ASSUME NEW n \in Item
    PROVE  /\ n - 1 \in 0 .. MaxData + 1 /\ n \in 0 .. MaxData + 1
           /\ Chunk(n) \in Seq(Nat)
           /\ Len(Chunk(n)) = End[n] - End[n - 1] - 1
           /\ Len(Chunk(n)) > 0
           /\ Consecutive(Chunk(n), End[n - 1])
  <1>1. n - 1 \in 0 .. MaxData + 1 /\ n \in 0 .. MaxData + 1 /\ n - 1 < n
    BY StreamAssumption DEF StreamAssumption, Item
  <1>2. End[n] \in Nat /\ End[n - 1] \in Nat /\ End[n - 1] + 1 < End[n]
    BY <1>1, EndsGrow
  <1> DEFINE size == End[n] - End[n - 1] - 1
  <1>3. size \in Nat /\ size > 0
    BY <1>2
  <1>4. Chunk(n) = [i \in 1 .. size |-> End[n - 1] + i]
    BY DEF Chunk
  <1> HIDE DEF size
  <1>5. /\ Chunk(n) \in Seq(Nat) /\ Len(Chunk(n)) = size
        /\ \A i \in 1 .. size : Chunk(n)[i] = End[n - 1] + i
    BY <1>2, <1>3, <1>4
  <1> QED
    BY <1>1, <1>3, <1>5 DEF Consecutive, size

\* Consecutive bytes of that length are the item.
LEMMA ItemIsChunk ==
    ASSUME NEW n \in Item, NEW s \in Seq(Nat),
           Consecutive(s, End[n - 1]), Len(s) = End[n] - End[n - 1] - 1
    PROVE  s = Chunk(n)
  <1> DEFINE t == Chunk(n)
  <1>1. t \in Seq(Nat) /\ Len(t) = Len(s) /\ \A i \in 1 .. Len(s) : s[i] = t[i]
    BY ChunkIs DEF Consecutive
  <1> HIDE DEF t
  <1>2. s = t
    BY <1>1, SeqEqual
  <1> QED
    BY <1>2 DEF t

\* No other item starts with the same byte.
LEMMA ChunkIsNext ==
    ASSUME NEW n \in Item, NEW r \in 0 .. MaxData,
           NEW s \in Seq(Nat), Len(s) > 0, Consecutive(s, End[r]), s = Chunk(n)
    PROVE  n = r + 1
  <1>1. s[1] = End[r] + 1 /\ s[1] = End[n - 1] + 1
    BY ChunkIs DEF Consecutive
  <1>2. n - 1 \in 0 .. MaxData + 1 /\ r \in 0 .. MaxData + 1
    BY StreamAssumption, ChunkIs DEF StreamAssumption
  <1>3. End[r] \in Nat /\ End[n - 1] \in Nat
    BY <1>2, EndsGrow
  <1>4. n - 1 = r
    BY <1>1, <1>2, <1>3, EndsGrow
  <1> QED
    BY <1>4, <1>2 DEF Item

----------------------------------------------------------------------------
(* The invariant.                                                          *)

\* Facts about the numbers of an IInv state that most steps need.
LEMMA Numbers ==
    ASSUME IInv
    PROVE  /\ count \in 0 .. MaxData /\ MaxData \in Nat
           /\ Len(returned) \in 0 .. count
           /\ Len(returned) \in 0 .. MaxData + 1 /\ count + 1 \in 0 .. MaxData + 1
           /\ Start \in Nat /\ End[count + 1] \in Nat
           /\ last \in Nat /\ last <= End[count + 1]
           /\ at \in Nat /\ at <= last
           /\ buffer \in Seq(Nat) /\ item \in Seq(Nat)
           /\ Len(buffer) \in Nat /\ Len(item) \in Nat
           /\ returned \in Seq(Item)
  <1>1. /\ count \in 0 .. MaxData /\ MaxData \in Nat
        /\ Len(returned) \in 0 .. count
        /\ Len(returned) \in 0 .. MaxData + 1 /\ count + 1 \in 0 .. MaxData + 1
    BY StreamAssumption DEF StreamAssumption, IInv, Types, Unmangled
  <1>2. Start \in Nat /\ End[count + 1] \in Nat
    BY <1>1, EndsGrow DEF Start
  <1> QED
    BY <1>1, <1>2 DEF IInv, Types

LEMMA InitInvariant == Init => IInv
  <1> SUFFICES ASSUME Init PROVE IInv
    OBVIOUS
  <1>1. count + 1 \in 0 .. MaxData + 1 /\ 0 \in 0 .. MaxData + 1
    BY StreamAssumption DEF StreamAssumption, Init
  <1>2. End[count + 1] \in Nat
    BY <1>1, EndsGrow
  <1>3. Types
    BY <1>2 DEF Init, Types
  <1>4. Unmangled /\ OkIsWhole /\ ErrorHasCause
    BY DEF Init, Unmangled, OkIsWhole, ErrorHasCause
  <1>5. BytesInOrder
    BY StreamAssumption
    DEF StreamAssumption, Init, BytesInOrder, InStep, Start, Consecutive, NoFormFeed
  <1> QED
    BY <1>3, <1>4, <1>5 DEF IInv

LEMMA FillKeeps == ASSUME IInv, NEW k \in 1 .. BufferSize, Fill(k) PROVE IInv'
  <1>1. /\ reader = "read" /\ buffer = <<>> /\ at + k <= last /\ at' = at + k
        /\ buffer' = [i \in 1 .. k |-> at + i]
        /\ UNCHANGED <<response, item, reader, broken, returned>>
        /\ k \in Nat /\ k > 0
    BY StreamAssumption DEF StreamAssumption, Fill
  <1>2. /\ buffer' \in Seq(Nat) /\ Len(buffer') = k
        /\ \A i \in 1 .. k : buffer'[i] = at + i
    BY <1>1, Numbers
  <1>3. Types' /\ Unmangled' /\ OkIsWhole' /\ ErrorHasCause'
    BY <1>1, <1>2, Numbers
    DEF IInv, Types, response, Unmangled, OkIsWhole, EndsWithItem, ErrorHasCause
  <1>4. InStep /\ Start + Len(item) = at
    BY <1>1, Numbers DEF IInv, BytesInOrder, PastEnd, InStep
  <1>5. InStep'
    BY <1>1, <1>2, <1>4, Numbers DEF InStep, Start, Consecutive, NoFormFeed
  <1> QED
    BY <1>1, <1>3, <1>5 DEF IInv, BytesInOrder

LEMMA FillEofKeeps == ASSUME IInv, FillEof PROVE IInv'
  <1>1. /\ reader = "read" /\ buffer = <<>> /\ at = last
        /\ reader' = IF item = <<>> THEN "done" ELSE "parse"
        /\ UNCHANGED <<response, at, buffer, item, broken, returned>>
    BY DEF FillEof, AtEof
  <1>2. Types' /\ Unmangled'
    BY <1>1, Numbers DEF IInv, Types, response, Unmangled
  <1>3. reader' = "done" => EndsWithItem
    <2> SUFFICES ASSUME item = <<>> PROVE EndsWithItem
      BY <1>1
    <2>1. last \in {Start - 1, Start}
      BY <1>1, Numbers DEF IInv, BytesInOrder, InStep, PastEnd
    <2> QED
      BY <2>1, Numbers DEF EndsWithItem, Start
  <1>4. OkIsWhole' /\ ErrorHasCause'
    BY <1>1, <1>3 DEF response, OkIsWhole, EndsWithItem, ErrorHasCause
  <1>5. BytesInOrder'
    <2> SUFFICES ASSUME item # <<>> PROVE BytesInOrder'
      BY <1>1 DEF BytesInOrder
    <2>1. InStep /\ Start + Len(item) = at
      BY <1>1, Numbers DEF IInv, BytesInOrder, PastEnd, InStep
    <2> QED
      BY <1>1, <2>1
      DEF BytesInOrder, InStep, CutOff, Start, Consecutive, NoFormFeed, response
  <1> QED
    BY <1>2, <1>4, <1>5 DEF IInv

LEMMA FillFailsKeeps == ASSUME IInv, FillFails PROVE IInv'
  BY DEF FillFails, IInv, Types, response, Unmangled, BytesInOrder, OkIsWhole,
         ErrorHasCause

LEMMA TakePartKeeps == ASSUME IInv, TakePart PROVE IInv'
  <1>1. /\ reader = "read" /\ buffer # <<>> /\ Delimiters = {}
        /\ item' = item \o buffer /\ buffer' = <<>> /\ reader' = "read"
        /\ UNCHANGED <<response, at, broken, returned>>
    BY DEF TakePart, AfterPart
  <1>2. InStep
    BY <1>1 DEF IInv, BytesInOrder, PastEnd
  <1>3. NoFormFeed(buffer)
    BY <1>1 DEF Delimiters, NoFormFeed
  <1>4. /\ item' \in Seq(Nat) /\ Len(item') = Len(item) + Len(buffer)
        /\ Consecutive(item', Start)
    BY <1>1, <1>2, Numbers, Join DEF InStep
  <1>5. NoFormFeed(item')
    BY <1>1, <1>2, <1>3, Numbers, JoinNoFormFeed DEF InStep
  <1>6. InStep'
    <2>1. Start' = Start /\ Len(buffer') = 0 /\ at' = at
      BY <1>1 DEF Start
    <2>2. Start + Len(item') + 0 = at
      BY <1>2, <1>4, Numbers DEF InStep
    <2>3. Consecutive(item', Start) /\ NoFormFeed(item')
      BY <1>4, <1>5
    <2>4. \A i \in 1 .. Len(buffer') : FALSE
      BY <2>1
    <2> QED
      BY <2>1, <2>2, <2>3, <2>4 DEF InStep, Consecutive, NoFormFeed
  <1>7. Types' /\ Unmangled' /\ OkIsWhole' /\ ErrorHasCause'
    BY <1>1, <1>4, Numbers
    DEF IInv, Types, response, Unmangled, OkIsWhole, EndsWithItem, ErrorHasCause
  <1> QED
    BY <1>1, <1>6, <1>7 DEF IInv, BytesInOrder

\* The first form feed of the buffer is that of the item that is read.
LEMMA FirstIsNext ==
    ASSUME IInv, InStep, Delimiters # {}
    PROVE  /\ First \in 1 .. Len(buffer)
           /\ Start + Len(item) + First = End[Len(returned) + 1]
           /\ Len(returned) + 1 \in Item
           /\ \A j \in 1 .. First - 1 : buffer[j] \notin FormFeed
  <1> DEFINE r == Len(returned)
             first == End[r + 1] - (Start + Len(item))
  <1>1. /\ r \in 0 .. MaxData /\ r + 1 \in Item /\ r + 1 \in 0 .. MaxData + 1
        /\ r \in 0 .. MaxData + 1 /\ Start = End[r] /\ Start \in Nat
        /\ Len(item) \in Nat /\ Len(buffer) \in Nat
    BY Numbers DEF Start, Item
  <1>2. End[r + 1] \in Nat /\ End[r + 1] > Start
    BY <1>1, EndsGrow
  <1>3. \A j \in 1 .. Len(buffer) : buffer[j] = Start + Len(item) + j
    BY DEF InStep, Consecutive
  <1>4. End[r + 1] > Start + Len(item)
    <2> SUFFICES ASSUME End[r + 1] - Start \in 1 .. Len(item) PROVE FALSE
      BY <1>1, <1>2
    <2>1. item[End[r + 1] - Start] = Start + (End[r + 1] - Start)
      BY DEF InStep, Consecutive
    <2>2. item[End[r + 1] - Start] = End[r + 1]
      BY <2>1, <1>1, <1>2
    <2>3. End[r + 1] \in FormFeed
      BY <1>1 DEF FormFeed, Item
    <2> QED
      BY <2>2, <2>3 DEF InStep, NoFormFeed
  <1>5. \A j \in Delimiters : j \in 1 .. Len(buffer) /\ first <= j
    <2> SUFFICES ASSUME NEW j \in Delimiters
                 PROVE  j \in 1 .. Len(buffer) /\ first <= j
      OBVIOUS
    <2>1. j \in 1 .. Len(buffer) /\ buffer[j] \in FormFeed
      BY DEF Delimiters
    <2>2. PICK n \in Item : End[n] = Start + Len(item) + j
      BY <2>1, <1>3 DEF FormFeed, Item
    <2>3. n \in 0 .. MaxData + 1 /\ End[n] \in Nat
      BY <1>1, EndsGrow, StreamAssumption DEF StreamAssumption, Item
    <2>4. End[r] < End[n]
      BY <2>1, <2>2, <1>1
    <2>5. r < n
      BY <2>3, <2>4, <1>1, EndsGrow
    <2>6. n = r + 1 \/ r + 1 < n
      BY <2>3, <2>5, <1>1
    <2>7. End[r + 1] <= End[n]
      BY <2>3, <2>6, <1>1, <1>2, EndsGrow
    <2>8. End[r + 1] <= Start + Len(item) + j
      BY <2>2, <2>7
    <2> QED
      BY <2>1, <2>8, <1>1, <1>2
  <1>6. first \in 1 .. Len(buffer)
    <2>1. PICK j \in Delimiters : TRUE
      OBVIOUS
    <2>2. j \in 1 .. Len(buffer) /\ first <= j
      BY <1>5
    <2>3. first \in Int /\ first > 0
      BY <1>1, <1>2, <1>4
    <2> HIDE DEF first
    <2> QED
      BY <2>2, <2>3, <1>1
  <1>7. Start + Len(item) + first = End[r + 1]
    BY <1>1, <1>2
  <1> HIDE DEF first
  <1>8. first \in Delimiters
    <2>1. buffer[first] = End[r + 1]
      BY <1>3, <1>6, <1>7
    <2> QED
      BY <2>1, <1>1, <1>6 DEF Delimiters, FormFeed, Item
  <1>9. First = first
    <2>1. First \in Delimiters /\ \A j \in Delimiters : First <= j
      BY <1>5, <1>8 DEF First
    <2>2. First <= first /\ first <= First /\ First \in Int /\ first \in Int
      BY <2>1, <1>5, <1>6, <1>8
    <2> QED
      BY <2>2
  <1>10. \A j \in 1 .. first - 1 : buffer[j] \notin FormFeed
    <2> SUFFICES ASSUME NEW j \in 1 .. first - 1, buffer[j] \in FormFeed
                 PROVE  FALSE
      OBVIOUS
    <2>1. j \in Delimiters /\ j < first /\ j \in Int
      BY <1>1, <1>6 DEF Delimiters
    <2> QED
      BY <2>1, <1>5, <1>6
  <1> QED
    BY <1>1, <1>6, <1>7, <1>9, <1>10

LEMMA TakeItemKeeps == ASSUME IInv, TakeItem PROVE IInv'
  <1> DEFINE r == Len(returned)
             first == First
             head == SubSeq(buffer, 1, first - 1)
             rest == SubSeq(buffer, first + 1, Len(buffer))
  <1>1. /\ reader = "read" /\ buffer # <<>> /\ Delimiters # {}
        /\ item' = item \o head /\ buffer' = rest
        /\ reader' = IF item' = <<>> THEN "done" ELSE "parse"
        /\ UNCHANGED <<response, at, broken, returned>>
    BY DEF TakeItem, Rest
  <1>2. InStep
    BY <1>1 DEF IInv, BytesInOrder, PastEnd
  <1>3. /\ first \in 1 .. Len(buffer)
        /\ Start + Len(item) + first = End[r + 1] /\ r + 1 \in Item
        /\ \A j \in 1 .. first - 1 : buffer[j] \notin FormFeed
    BY <1>1, <1>2, FirstIsNext
  <1>4. /\ Start \in Nat /\ Start = End[r] /\ r \in 0 .. MaxData
        /\ Len(item) \in Nat /\ Len(buffer) \in Nat
        /\ item \in Seq(Nat) /\ buffer \in Seq(Nat)
        /\ Start + Len(item) \in Nat
        /\ r \in 0 .. MaxData + 1 /\ r + 1 \in 0 .. MaxData + 1 /\ r < r + 1
    <2>1. /\ r \in 0 .. MaxData /\ MaxData \in Nat /\ Start = End[r]
      BY Numbers DEF Start
    <2>2. /\ Start \in Nat /\ item \in Seq(Nat) /\ buffer \in Seq(Nat)
          /\ Len(item) \in Nat /\ Len(buffer) \in Nat
      BY Numbers
    <2> QED
      BY <2>1, <2>2
  <1> HIDE DEF first, r
  <1>5. /\ head \in Seq(Nat) /\ Len(head) = first - 1
        /\ Consecutive(head, Start + Len(item))
    <2>1. first - 1 \in 0 .. Len(buffer)
      BY <1>3, <1>4
    <2> QED
      BY <2>1, <1>2, <1>4, Take DEF InStep
  <1>6. /\ rest \in Seq(Nat) /\ Len(rest) = Len(buffer) - first
        /\ Consecutive(rest, Start + Len(item) + first)
    <2>1. first \in 0 .. Len(buffer)
      BY <1>3
    <2> QED
      BY <2>1, <1>2, <1>4, Drop DEF InStep
  <1>7. NoFormFeed(head)
    <2>1. \A j \in 1 .. first - 1 : head[j] = buffer[j]
      BY <1>3, <1>4
    <2> QED
      BY <2>1, <1>3, <1>5 DEF NoFormFeed
  <1> HIDE DEF head, rest
  <1>8. /\ item' \in Seq(Nat) /\ Len(item') = Len(item) + first - 1
        /\ Consecutive(item', Start) /\ NoFormFeed(item')
    BY <1>1, <1>2, <1>3, <1>4, <1>5, <1>7, Join, JoinNoFormFeed DEF InStep
  <1>9. item' # <<>> /\ Len(item') = End[r + 1] - Start - 1
    <2>1. End[r] \in Nat /\ End[r + 1] \in Nat /\ End[r] + 1 < End[r + 1]
      <3>1. r \in 0 .. MaxData + 1 /\ r + 1 \in 0 .. MaxData + 1 /\ r < r + 1
        BY <1>4
      <3> QED
        BY <3>1, EndsGrow
    <2>2. Len(item') = Len(item) + first - 1
      BY <1>8
    <2>3. /\ Start + Len(item) + first = End[r + 1] /\ first \in Nat
          /\ Len(item) \in Nat /\ Start \in Nat /\ Start = End[r]
      BY <1>3, <1>4
    <2>4. /\ Len(item) + first - 1 = End[r + 1] - Start - 1
          /\ Len(item) + first - 1 > 0
      BY <2>1, <2>3
    <2>5. Len(item') > 0
      BY <2>2, <2>4
    <2> QED
      BY <2>2, <2>4, <2>5
  <1>10. End[r + 1] + Len(rest) = at
    <2>1. Start + Len(item) + Len(buffer) = at
      BY <1>2 DEF InStep
    <2>2. first \in Nat /\ Len(rest) = Len(buffer) - first
      BY <1>3, <1>6
    <2>3. Start + Len(item) + first + (Len(buffer) - first) = at
      BY <2>1, <2>2, <1>4
    <2> QED
      BY <2>2, <2>3, <1>3
  <1>11. BytesInOrder'
    <2>1. Start' = Start /\ Len(returned') = r /\ at' = at /\ reader' = "parse"
      BY <1>1, <1>9 DEF Start, r
    <2>2. Ended'
      BY <2>1, <1>1, <1>3, <1>6, <1>9, <1>10 DEF Ended, Consecutive
    <2> QED
      BY <2>1, <2>2, <1>8, <1>9 DEF BytesInOrder, Consecutive, NoFormFeed
  <1>12. Types' /\ Unmangled' /\ OkIsWhole' /\ ErrorHasCause'
    BY <1>1, <1>6, <1>8, <1>9, Numbers
    DEF IInv, Types, response, Unmangled, OkIsWhole, EndsWithItem, ErrorHasCause
  <1> QED
    BY <1>11, <1>12 DEF IInv

LEMMA ParseDataKeeps == ASSUME IInv, ParseData PROVE IInv'
  <1> DEFINE r == Len(returned)
  <1>1. PICK n \in 1 .. count : item = Chunk(n) /\ returned' = Append(returned, n)
    BY DEF ParseData
  <1>2. /\ reader = "parse" /\ item' = <<>> /\ reader' = "read"
        /\ UNCHANGED <<response, at, buffer, broken>>
    BY DEF ParseData
  <1>3. /\ item # <<>> /\ (Ended \/ CutOff)
        /\ Consecutive(item, Start) /\ Len(item) > 0
    BY <1>2, Numbers DEF IInv, BytesInOrder
  <1>4. /\ r \in 0 .. count /\ r \in 0 .. MaxData /\ Start = End[r]
        /\ n \in Item /\ count \in 0 .. MaxData /\ MaxData \in Nat
    BY Numbers DEF Start, Item
  <1>5. n = r + 1
    BY <1>1, <1>3, <1>4, Numbers, ChunkIsNext
  <1>6. /\ returned' = Append(returned, r + 1) /\ Len(returned') = r + 1
        /\ returned' \in Seq(Item) /\ r + 1 <= count
        /\ \A i \in 1 .. r : returned'[i] = returned[i]
        /\ returned'[r + 1] = r + 1
    BY <1>1, <1>4, <1>5, Numbers
  <1>7. Unmangled'
    <2>1. \A i \in 1 .. r + 1 : returned'[i] = i
      BY <1>4, <1>6 DEF IInv, Unmangled
    <2> QED
      BY <2>1, <1>2, <1>6 DEF Unmangled, response
  <1>8. Start' = End[r + 1]
    BY <1>6 DEF Start
  <1>9. Len(item) = End[r + 1] - Start - 1
    BY <1>1, <1>4, <1>5, ChunkIs
  <1>10. End[r + 1] \in Nat /\ Start \in Nat
    <2>1. r + 1 \in 0 .. MaxData + 1
      BY <1>4
    <2> QED
      BY <2>1, EndsGrow, Numbers
  <1>11. BytesInOrder'
    <2>1. CASE Ended
      <3>1. InStep'
        BY <2>1, <1>2, <1>6, <1>8, <1>10 DEF Ended, InStep, Consecutive, NoFormFeed
      <3> QED
        BY <3>1, <1>2 DEF BytesInOrder
    <2>2. CASE CutOff
      <3>1. Start + Len(item) = last /\ at = last
        BY <2>2 DEF CutOff
      <3>2. last = End[r + 1] - 1
        BY <3>1, <1>9, <1>10
      <3>3. PastEnd'
        BY <2>2, <3>1, <3>2, <1>2, <1>8 DEF CutOff, PastEnd, response
      <3> QED
        BY <3>3, <1>2 DEF BytesInOrder
    <2> QED
      BY <2>1, <2>2, <1>2 DEF IInv, BytesInOrder
  <1>12. Types' /\ OkIsWhole' /\ ErrorHasCause'
    BY <1>2, <1>6 DEF IInv, Types, response, OkIsWhole, ErrorHasCause
  <1> QED
    BY <1>7, <1>11, <1>12 DEF IInv

LEMMA ParseStatusKeeps == ASSUME IInv, ParseStatus PROVE IInv'
  <1> DEFINE r == Len(returned)
  <1>1. /\ reader = "parse" /\ item = Chunk(count + 1) /\ item' = <<>>
        /\ reader' = IF status = "200" THEN "done" ELSE "error"
        /\ UNCHANGED <<response, at, buffer, broken, returned>>
    BY DEF ParseStatus
  <1>2. Consecutive(item, Start) /\ Len(item) > 0
    BY <1>1, Numbers DEF IInv, BytesInOrder
  <1>3. /\ r \in 0 .. count /\ r \in 0 .. MaxData /\ Start = End[r]
        /\ count + 1 \in Item /\ count \in 0 .. MaxData /\ MaxData \in Nat
    BY Numbers DEF Start, Item
  <1>4. count + 1 = r + 1
    BY <1>1, <1>2, <1>3, Numbers, ChunkIsNext
  <1>5. r = count
    BY <1>3, <1>4
  <1> QED
    BY <1>1, <1>5
    DEF IInv, Types, response, Unmangled, BytesInOrder, OkIsWhole, ErrorHasCause

LEMMA ParseFailsKeeps == ASSUME IInv, ParseFails PROVE IInv'
  <1> DEFINE r == Len(returned)
  <1>1. /\ reader = "parse" /\ (\A n \in 1 .. count + 1 : item # Chunk(n))
        /\ item' = <<>> /\ reader' = "error"
        /\ UNCHANGED <<response, at, buffer, broken, returned>>
    BY DEF ParseFails, BadItem
  <1>2. /\ item # <<>> /\ Len(item) > 0
        /\ Consecutive(item, Start) /\ NoFormFeed(item) /\ (Ended \/ CutOff)
    BY <1>1, Numbers DEF IInv, BytesInOrder
  <1>3. /\ r \in 0 .. count /\ r \in 0 .. MaxData /\ Start = End[r] /\ Start \in Nat
        /\ r + 1 \in Item /\ r + 1 \in 1 .. count + 1 /\ (r + 1) - 1 = r
        /\ r \in 0 .. MaxData + 1 /\ r + 1 \in 0 .. MaxData + 1
        /\ count \in 0 .. MaxData /\ MaxData \in Nat
    BY Numbers DEF Start, Item
  <1>4. Len(item) # End[r + 1] - Start - 1
    <2> SUFFICES ASSUME Len(item) = End[r + 1] - Start - 1 PROVE FALSE
      OBVIOUS
    <2>1. item = Chunk(r + 1)
      BY <1>2, <1>3, Numbers, ItemIsChunk
    <2> QED
      BY <2>1, <1>1, <1>3
  <1>5. CutOff
    BY <1>2, <1>4 DEF Ended
  <1>6. End[r + 1] \in Nat /\ End[r] < End[r + 1]
    BY <1>3, EndsGrow
  <1> DEFINE place == End[r + 1] - Start
  <1>7. Start < last /\ last < End[r + 1] - 1
    <2>1. /\ last = Start + Len(item) /\ Len(item) \in Nat /\ last \in Nat
          /\ Start \in Nat /\ Len(item) > 0
      BY <1>2, <1>3, <1>5, Numbers DEF CutOff
    <2>2. ~ (place \in 1 .. Len(item))
      <3>1. Start + place = End[r + 1] /\ End[r + 1] \in FormFeed
        BY <1>3, <1>6 DEF FormFeed, Item
      <3> HIDE DEF place
      <3> SUFFICES ASSUME place \in 1 .. Len(item) PROVE FALSE
        OBVIOUS
      <3>2. item[place] = Start + place
        BY <1>2 DEF Consecutive
      <3> QED
        BY <3>1, <3>2, <1>2 DEF NoFormFeed
    <2>3. place \in Nat /\ place > 0 /\ Len(item) # place - 1
      BY <1>3, <1>4, <1>6
    <2>4. End[r + 1] = Start + place
      BY <1>3, <1>6
    <2> HIDE DEF place
    <2>5. Len(item) < place - 1
      BY <2>1, <2>2, <2>3
    <2> QED
      BY <2>1, <2>3, <2>4, <2>5
  <1>8. ~ EndsWithItem
    <2> SUFFICES ASSUME NEW n \in 0 .. count, last \in {End[n] - 1, End[n]}
                 PROVE  FALSE
      BY DEF EndsWithItem
    <2>1. n \in 0 .. MaxData + 1 /\ (n <= r \/ r + 1 <= n)
      BY <1>3
    <2>2. End[n] \in Nat /\ (End[n] <= Start \/ End[r + 1] <= End[n])
      BY <2>1, <1>3, <1>6, EndsGrow
    <2>3. last \in Nat /\ Start \in Nat /\ End[r + 1] \in Nat
      BY <1>3, <1>6, Numbers
    <2>4. last = End[n] - 1 \/ last = End[n]
      OBVIOUS
    <2> QED
      BY <2>2, <2>3, <2>4, <1>7
  <1>9. last < End[count + 1] - 1
    <2>1. End[r + 1] <= End[count + 1] /\ End[count + 1] \in Nat
      BY <1>3, <1>6, EndsGrow, Numbers
    <2> QED
      BY <2>1, <1>6, <1>7, Numbers
  <1>10. ErrorHasCause'
    BY <1>1, <1>8, <1>9 DEF ErrorHasCause, EndsWithItem, response
  <1> QED
    BY <1>1, <1>10 DEF IInv, Types, response, Unmangled, BytesInOrder, OkIsWhole

LEMMA NextInvariant == IInv /\ [Next]_vars => IInv'
  <1> SUFFICES ASSUME IInv, [Next]_vars PROVE IInv'
    OBVIOUS
  <1>1. CASE \E k \in 1 .. BufferSize : Fill(k)
    BY <1>1, FillKeeps
  <1>2. CASE FillEof
    BY <1>2, FillEofKeeps
  <1>3. CASE FillFails
    BY <1>3, FillFailsKeeps
  <1>4. CASE TakePart
    BY <1>4, TakePartKeeps
  <1>5. CASE TakeItem
    BY <1>5, TakeItemKeeps
  <1>6. CASE ParseData
    BY <1>6, ParseDataKeeps
  <1>7. CASE ParseStatus
    BY <1>7, ParseStatusKeeps
  <1>8. CASE ParseFails
    BY <1>8, ParseFailsKeeps
  <1>9. CASE UNCHANGED vars
    BY <1>9
    DEF vars, response, IInv, Types, Unmangled, BytesInOrder, InStep, PastEnd, Ended,
        CutOff, Start, Consecutive, NoFormFeed, OkIsWhole, EndsWithItem, ErrorHasCause
  <1> QED
    BY <1>1, <1>2, <1>3, <1>4, <1>5, <1>6, <1>7, <1>8, <1>9 DEF Next

\* In every state the item that is read and the buffer are the bytes after
\* the items that were returned, without a gap.
THEOREM Invariant == Spec => []IInv
  BY InitInvariant, NextInvariant, PTL DEF Spec

----------------------------------------------------------------------------
(* What follows from it.                                                   *)

\* However StreamReader's reads cut the body, the Vec of get_transactions
\* holds the first items that the node sent, once each and in order.
THEOREM ItemsAreUnmangled == Spec => []Unmangled
  <1>1. IInv => Unmangled
    BY DEF IInv
  <1> QED
    BY <1>1, Invariant, PTL

\* A client that gets its transactions gets all of them, but for a body that
\* the node ends with an item that is not the status.
THEOREM SuccessIsWhole == Spec => []OkIsWhole
  <1>1. IInv => OkIsWhole
    BY DEF IInv
  <1> QED
    BY <1>1, Invariant, PTL

\* An error of read_item or parse_item is never made by the reads themselves.
THEOREM ErrorsHaveCauses == Spec => []ErrorHasCause
  <1>1. IInv => ErrorHasCause
    BY DEF IInv
  <1> QED
    BY <1>1, Invariant, PTL
=============================================================================
