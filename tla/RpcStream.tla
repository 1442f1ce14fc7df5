----------------------------- MODULE RpcStream -----------------------------
(***************************************************************************)
(* A streamed response of the node, as get_transactions reads it: the      *)
(* node sends items, each one ended by a form feed, and a status item at   *)
(* the end; StreamReader cuts the body, and its results are collected up   *)
(* to the first error.                                                     *)
(*                                                                         *)
(* A byte is its number in the body.  Item n is the n-th one of the body.  *)
(***************************************************************************)
EXTENDS Integers, Sequences

CONSTANTS
    MaxData,        \* bound on the data items of a response
    End,            \* [0 .. MaxData + 1 -> Nat]: the form feed of each item
    BufferSize      \* of the BufReader, 8 KiB

\* The JSON of an item is not empty.
ASSUME StreamAssumption ==
    /\ MaxData \in Nat /\ BufferSize \in Nat \ {0}
    /\ End \in [0 .. MaxData + 1 -> Nat] /\ End[0] = 0
    /\ \A n \in 1 .. MaxData + 1 : \A m \in 0 .. n - 1 : End[m] + 1 < End[n]

VARIABLES
    count,      \* the node has so many data items to send, then the status,
    status,     \* which is 200 or another one,
    last,       \* and ends the body after this byte
    at,         \* bytes of the body that have been read
    buffer,     \* those of them in the BufReader
    item,       \* those moved to the item that is read
    reader,     \* the StreamReader, and the collect around it
    broken,     \* has a read failed?
    returned    \* the items in the Vec

vars == <<count, status, last, at, buffer, item, reader, broken, returned>>
response == <<count, status, last>>

FormFeed == {End[n] : n \in 1 .. MaxData + 1}
Chunk(n) == [i \in 1 .. End[n] - End[n - 1] - 1 |-> End[n - 1] + i]

\* A body can end early, also within an item.
Init ==
    /\ count \in 0 .. MaxData
    /\ status \in {"200", "other"}
    /\ last \in 0 .. End[count + 1]
    /\ at = 0
    /\ buffer = <<>> /\ item = <<>>
    /\ reader = "read" /\ broken = FALSE
    /\ returned = <<>>

----------------------------------------------------------------------------
(* read_item: read_until, until it ends at a form feed or reads nothing.   *)

\* A read returns as much of the body as there is, or less.
Fill(k) ==
    /\ reader = "read" /\ buffer = <<>>
    /\ at + k <= last
    /\ at' = at + k
    /\ buffer' = [i \in 1 .. k |-> at + i]
    /\ UNCHANGED <<response, item, reader, broken, returned>>

EofUnseen == "read"                 \* fault variant: it reads on
AtEof == IF item = <<>> THEN "done" ELSE "parse"

FillEof ==
    /\ reader = "read" /\ buffer = <<>>
    /\ at = last
    /\ reader' = AtEof
    /\ UNCHANGED <<response, at, buffer, item, broken, returned>>

\* The connection breaks, or nothing comes for 30 s.
FillFails ==
    /\ reader = "read" /\ buffer = <<>>
    /\ reader' = "error" /\ broken' = TRUE
    /\ UNCHANGED <<response, at, buffer, item, returned>>

Delimiters == {i \in 1 .. Len(buffer) : buffer[i] \in FormFeed}
First == CHOOSE i \in Delimiters : \A j \in Delimiters : i <= j

PartIsItem == "parse"               \* fault variant: a read is an item
AfterPart == "read"

TakePart ==
    /\ reader = "read" /\ buffer # <<>>
    /\ Delimiters = {}
    /\ item' = item \o buffer
    /\ buffer' = <<>>
    /\ reader' = AfterPart
    /\ UNCHANGED <<response, at, broken, returned>>

NoRest == <<>>                      \* fault variant: read too far
Rest == SubSeq(buffer, First + 1, Len(buffer))

\* The form feed is popped; an item without bytes ends the stream.
TakeItem ==
    /\ reader = "read" /\ buffer # <<>>
    /\ Delimiters # {}
    /\ item' = item \o SubSeq(buffer, 1, First - 1)
    /\ buffer' = Rest
    /\ reader' = IF item' = <<>> THEN "done" ELSE "parse"
    /\ UNCHANGED <<response, at, broken, returned>>

----------------------------------------------------------------------------
(* parse_item: data, the status 200 that ends the stream, or an error,     *)
(* with which the collect ends.                                            *)

ParseData ==
    /\ reader = "parse"
    /\ \E n \in 1 .. count :
          /\ item = Chunk(n)
          /\ returned' = Append(returned, n)
    /\ item' = <<>>
    /\ reader' = "read"
    /\ UNCHANGED <<response, at, buffer, broken>>

ParseStatus ==
    /\ reader = "parse"
    /\ item = Chunk(count + 1)
    /\ item' = <<>>
    /\ reader' = IF status = "200" THEN "done" ELSE "error"
    /\ UNCHANGED <<response, at, buffer, broken, returned>>

BadIsEnd == "done"                  \* fault variant: the error is dropped
BadItem == "error"

ParseFails ==
    /\ reader = "parse"
    /\ \A n \in 1 .. count + 1 : item # Chunk(n)
    /\ item' = <<>>
    /\ reader' = BadItem
    /\ UNCHANGED <<response, at, buffer, broken, returned>>

Next ==
    \/ \E k \in 1 .. BufferSize : Fill(k)
    \/ FillEof \/ FillFails \/ TakePart \/ TakeItem
    \/ ParseData \/ ParseStatus \/ ParseFails

Spec == Init /\ [][Next]_vars

\* A read returns with bytes, at the end, or with a failure.
FairSpec ==
    /\ Spec
    /\ WF_vars(\E k \in 1 .. BufferSize : Fill(k)) /\ WF_vars(FillEof)
    /\ WF_vars(TakePart) /\ WF_vars(TakeItem)
    /\ WF_vars(ParseData) /\ WF_vars(ParseStatus) /\ WF_vars(ParseFails)

----------------------------------------------------------------------------
(* Properties.                                                             *)

\* However the body is cut into reads, the transactions in the Vec are the
\* first ones the node sent, each one once and in order.
Unmangled ==
    /\ Len(returned) <= count
    /\ \A i \in 1 .. Len(returned) : returned[i] = i

\* The body ends with an item, or before the form feed of one.
EndsWithItem == \E n \in 0 .. count : last \in {End[n] - 1, End[n]}

\* A client that gets its transactions gets all of them, unless the node ends
\* the body with an item that is not the status: this alone passes for success.
OkIsWhole == reader = "done" => Len(returned) = count \/ EndsWithItem

\* A client gets an error only for a failed read, for a status other than
\* 200, or for a body that ends within an item: never for the way in which
\* the reads cut the body.
ErrorHasCause ==
    reader = "error" =>
        \/ broken \/ status # "200"
        \/ ~ EndsWithItem /\ last < End[count + 1] - 1

\* The handler that waits for the response goes on, whatever the node sends.
Answered == <>(reader \in {"done", "error"})
=============================================================================
