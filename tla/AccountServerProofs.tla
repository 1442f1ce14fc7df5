------------------------- MODULE AccountServerProofs -------------------------
(***************************************************************************)
(* Theorems about AccountServer: for any accounts, clients and responses,  *)
(* however their handlers interleave and whatever fails, the node never    *)
(* has an account that the server does not know, and the requests that     *)
(* tell it about a response neither overlap nor leave a block out.         *)
(***************************************************************************)
EXTENDS AccountServer, SequenceTheorems, FiniteSetTheorems, WellFoundedInduction,
        TLAPS

Calls == {"auth", "find", "insert", "delete", "mark", "unmark", "import",
          "remove", "latest", "status", "pause", "reset", "resume", "setHead",
          "submit"}

\* What a handler may have left of its calls.
Plans == {Import, Remove, Rescan, Update}
Left(plan) == {SubSeq(plan, i, Len(plan)) : i \in 1 .. Len(plan) + 1}
Todo == UNION {Left(plan) : plan \in Plans}

HandlerOK(r) ==
    /\ DOMAIN r = DOMAIN Free
    /\ r.todo \in Todo
    /\ r.account \in Address \cup {NoAddress}
    /\ r.todo # <<>> => r.account \in Address
    /\ r.tries \in 0 .. MaxTries
    /\ r.message \in Response \cup {NoMessage}
    /\ r.left \subseteq Height

HandlersOK == DOMAIN handler = Handler /\ \A h \in Handler : HandlerOK(handler[h])

StoresOK ==
    /\ db \in [rows : SUBSET Address, needScan : SUBSET Address]
    /\ node \in [accounts : SUBSET Address, scanning : SUBSET Address]
    /\ db.needScan \subseteq db.rows
    /\ node.scanning \subseteq node.accounts
    /\ scans \in [Address -> Nat]
    /\ failures \in 0 .. MaxFailures

\* Between the two stores: an import that has inserted its row, or a removal
\* that has yet to delete it.
Between(h) == At(h, "import") \/ At(h, "delete")

\* Then the row is there and the account is not, and nobody else is between
\* the two.
BetweenIsExclusive ==
    \A h \in Handler : Between(h) =>
        /\ Account(h) \in db.rows
        /\ Account(h) \notin node.accounts
        /\ \A g \in Handler : Between(g) /\ Account(g) = Account(h) => g = h

IInv == HandlersOK /\ StoresOK /\ NodeImpliesRow /\ BetweenIsExclusive

----------------------------------------------------------------------------
(* What is left of a handler's calls.                                      *)

LEMMA Linked ==
    ASSUME NEW plan \in Plans
    PROVE  /\ plan \in Seq(Calls) /\ Len(plan) \in Nat \ {0}
           /\ plan[1] \in {"find", "auth"}
           /\ plan[Len(plan)] \notin {"insert", "remove"}
           /\ \A i \in 1 .. Len(plan) - 1 :
                /\ plan[i + 1] = "import" <=> plan[i] = "insert"
                /\ plan[i + 1] = "delete" <=> plan[i] = "remove"
  <1>1. CASE plan = Import
    BY <1>1 DEF Import, Calls
  <1>2. CASE plan = Remove
    BY <1>2 DEF Remove, Calls
  <1>3. CASE plan = Rescan
    BY <1>3 DEF Rescan, Calls
  <1>4. CASE plan = Update
    BY <1>4 DEF Update, Calls
  <1> QED
    BY <1>1, <1>2, <1>3, <1>4 DEF Plans

\* The calls of a plan from the i-th one on.
LEMMA Suffix ==
    ASSUME NEW plan \in Seq(Calls), NEW i \in 1 .. Len(plan) + 1
    PROVE  /\ SubSeq(plan, i, Len(plan)) \in Seq(Calls)
           /\ Len(SubSeq(plan, i, Len(plan))) = Len(plan) + 1 - i
           /\ \A k \in 1 .. Len(plan) + 1 - i :
                SubSeq(plan, i, Len(plan))[k] = plan[i + k - 1]
  <1>1. \A k \in i .. Len(plan) : plan[k] \in Calls
    OBVIOUS
  <1> QED
    BY <1>1, SubSeqProperties, LenProperties

\* The next call of a handler comes after the one before it in the plan.
LEMMA NextCall ==
    ASSUME NEW todo \in Todo, todo # <<>>
    PROVE  /\ Tail(todo) \in Todo
           /\ Len(todo) = 1 <=> Tail(todo) = <<>>
           /\ Tail(todo) # <<>> =>
                /\ Head(Tail(todo)) = "import" <=> Head(todo) = "insert"
                /\ Head(Tail(todo)) = "delete" <=> Head(todo) = "remove"
           /\ Tail(todo) = <<>> => Head(todo) \notin {"insert", "remove"}
  <1>1. PICK plan \in Plans : todo \in Left(plan)
    BY DEF Todo
  <1> DEFINE n == Len(plan)
  <1>2. PICK i \in 1 .. n + 1 : todo = SubSeq(plan, i, n)
    BY <1>1 DEF Left
  <1>3. plan \in Seq(Calls) /\ n \in Nat \ {0}
    BY Linked
  <1>4. /\ todo \in Seq(Calls) /\ Len(todo) = n + 1 - i
        /\ \A k \in 1 .. n + 1 - i : todo[k] = plan[i + k - 1]
    BY <1>2, <1>3, Suffix
  <1>5. i \in 1 .. n /\ Head(todo) = plan[i]
    BY <1>3, <1>4, EmptySeq
  <1>6. /\ SubSeq(plan, i + 1, n) \in Seq(Calls)
        /\ Len(SubSeq(plan, i + 1, n)) = n - i
        /\ \A k \in 1 .. n - i : SubSeq(plan, i + 1, n)[k] = plan[i + k]
    <2>1. i + 1 \in 1 .. n + 1
      BY <1>3, <1>5
    <2> QED
      BY <2>1, <1>3, <1>5, Suffix
  <1>7. Tail(todo) = SubSeq(plan, i + 1, n)
    <2>1. /\ Tail(todo) \in Seq(Calls) /\ Len(Tail(todo)) = n - i
          /\ \A k \in 1 .. n - i : Tail(todo)[k] = plan[i + k]
      BY <1>3, <1>4, <1>5, HeadTailProperties
    <2> QED
      BY <2>1, <1>6, SeqEqual
  <1>8. Tail(todo) \in Todo
    <2>1. i + 1 \in 1 .. n + 1
      BY <1>3, <1>5
    <2>2. Tail(todo) \in Left(plan)
      BY <1>7, <2>1 DEF Left
    <2> QED
      BY <2>2 DEF Todo
  <1> HIDE DEF n
  <1>9. Tail(todo) = <<>> <=> i = n
    <2>1. Tail(todo) \in Seq(Calls) /\ Len(Tail(todo)) = n - i
      BY <1>6, <1>7
    <2>2. Tail(todo) = <<>> <=> Len(Tail(todo)) = 0
      BY <2>1, EmptySeq
    <2>3. n - i = 0 <=> i = n
      BY <1>3, <1>5
    <2> QED
      BY <2>1, <2>2, <2>3
  <1>10. ASSUME Tail(todo) # <<>>
         PROVE  i \in 1 .. n - 1 /\ Head(Tail(todo)) = plan[i + 1]
    <2>1. i \in 1 .. n - 1
      BY <1>3, <1>5, <1>9, <1>10
    <2>2. Tail(todo)[1] = plan[i + 1]
      BY <2>1, <1>6, <1>7
    <2>3. Head(Tail(todo)) = Tail(todo)[1]
      BY <1>6, <1>7, <1>10
    <2> QED
      BY <2>1, <2>2, <2>3
  <1>11. Len(todo) = 1 <=> Tail(todo) = <<>>
    BY <1>3, <1>4, <1>5, <1>9
  <1>12. Tail(todo) = <<>> => Head(todo) \notin {"insert", "remove"}
    BY <1>5, <1>9, Linked DEF n
  <1>13. Tail(todo) # <<>> =>
            /\ Head(Tail(todo)) = "import" <=> Head(todo) = "insert"
            /\ Head(Tail(todo)) = "delete" <=> Head(todo) = "remove"
    BY <1>5, <1>10, Linked DEF n
  <1> QED
    BY <1>8, <1>11, <1>12, <1>13

\* A whole plan, and none.
LEMMA Whole ==
    /\ <<>> \in Todo
    /\ \A plan \in Plans : plan \in Todo /\ plan # <<>> /\ Head(plan) \in {"find", "auth"}
  <1>1. \A plan \in Plans : /\ plan \in Left(plan) /\ <<>> \in Left(plan)
                            /\ plan # <<>> /\ Head(plan) = plan[1]
    <2> TAKE plan \in Plans
    <2>1. SubSeq(plan, 1, Len(plan)) = plan /\ SubSeq(plan, Len(plan) + 1, Len(plan)) = <<>>
      BY Linked
    <2> QED
      BY <2>1, Linked DEF Left
  <1> QED
    BY <1>1, Linked DEF Todo, Plans

----------------------------------------------------------------------------
(* What a step makes of its handler.                                       *)

\* Only h has changed, into a handler that is between the two stores only if
\* it is at its call of the other store now.
OnlyMoves(h) ==
    /\ HandlersOK'
    /\ \A g \in Handler \ {h} : handler'[g] = handler[g]
    /\ Between(h)' => /\ At(h, "insert") \/ At(h, "remove")
                     /\ Account(h)' = Account(h)

LEMMA FreeOK == HandlerOK(Free) /\ Free.todo = <<>>
  <1>1. Free.todo = <<>> /\ Free.account = NoAddress /\ Free.tries = 0
        /\ Free.message = NoMessage /\ Free.left = {}
    BY DEF Free
  <1> QED
    BY <1>1, Whole DEF HandlerOK, MaxTries

\* A handler that is done, or about to begin.
LEMMA AnsweredOK ==
    ASSUME NEW r, HandlerOK(r)
    PROVE  HandlerOK(Answered(r)) /\ Answered(r).todo = <<>>
  <1>1. /\ DOMAIN Answered(r) = DOMAIN Free
        /\ Answered(r).todo = Free.todo /\ Answered(r).account = r.account
        /\ Answered(r).tries = Free.tries /\ Answered(r).message = Free.message
        /\ Answered(r).left = Free.left
    BY DEF Answered, Free
  <1> QED
    BY <1>1, FreeOK DEF HandlerOK

LEMMA SubmittedOK ==
    ASSUME NEW a \in Address, NEW message \in Response \cup {NoMessage},
           NEW tries \in 0 .. MaxTries
    PROVE  /\ HandlerOK(Submitted(a, message, tries))
           /\ Submitted(a, message, tries).todo = Update
           /\ Submitted(a, message, tries).account = a
  <1> DEFINE r == Submitted(a, message, tries)
  <1>1. /\ DOMAIN r = DOMAIN Free
        /\ r.todo = Update /\ r.account = a /\ r.tries = tries
        /\ r.message = message /\ r.left = message.blocks
    BY DEF Submitted, Free
  <1>2. message.blocks \subseteq Height
    BY ServerAssumption DEF NoMessage, Height
  <1> QED
    BY <1>1, <1>2, Whole DEF HandlerOK, Plans

LEMMA FailedOK ==
    ASSUME HandlersOK, NEW h \in Handler, handler[h].todo # <<>>
    PROVE  HandlerOK(Failed(h)) /\ Failed(h).todo \in {<<>>, Update}
  <1>1. HandlerOK(handler[h])
    BY DEF HandlersOK
  <1>2. CASE h \in Call
    BY <1>1, <1>2, AnsweredOK DEF Failed
  <1>3. CASE h \notin Call /\ handler[h].tries > 1
    <2>1. handler[h].account \in Address /\ handler[h].tries - 1 \in 0 .. MaxTries
          /\ handler[h].message \in Response \cup {NoMessage}
      BY <1>1, <1>3 DEF HandlerOK, MaxTries
    <2> QED
      BY <2>1, <1>3, SubmittedOK DEF Failed
  <1>4. CASE h \notin Call /\ ~ handler[h].tries > 1
    BY <1>4, FreeOK DEF Failed
  <1> QED
    BY <1>2, <1>3, <1>4

LEMMA DoneOK ==
    ASSUME HandlersOK, NEW h \in Handler
    PROVE  HandlerOK(Done(h)) /\ Done(h).todo = <<>>
  BY AnsweredOK, FreeOK DEF HandlersOK, Done

\* A handler that goes on with any other call is not between the stores.
Elsewhere(todo) == todo = <<>> \/ Head(todo) \notin {"import", "delete"}

LEMMA Begins == Elsewhere(<<>>) /\ \A plan \in Plans : Elsewhere(plan)
  BY Whole DEF Elsewhere

LEMMA Moves ==
    ASSUME HandlersOK, NEW h \in Handler, NEW r, HandlerOK(r),
           handler' = [handler EXCEPT ![h] = r], Elsewhere(r.todo)
    PROVE  OnlyMoves(h) /\ ~ Between(h)'
  <1>1. DOMAIN handler' = Handler /\ handler'[h] = r
        /\ \A g \in Handler \ {h} : handler'[g] = handler[g]
    BY DEF HandlersOK
  <1>2. HandlersOK'
    BY <1>1 DEF HandlersOK, HandlerOK
  <1>3. ~ Between(h)'
    BY <1>1 DEF Between, At, Elsewhere
  <1> QED
    BY <1>1, <1>2, <1>3 DEF OnlyMoves

LEMMA ProceedMoves ==
    ASSUME HandlersOK, NEW h \in Handler, handler[h].todo # <<>>, Proceed(h)
    PROVE  OnlyMoves(h)
  <1>1. CASE Len(handler[h].todo) = 1
    <2>1. handler' = [handler EXCEPT ![h] = Done(h)]
      BY <1>1 DEF Proceed, HandlersOK
    <2> QED
      BY <2>1, DoneOK, Begins, Moves
  <1>2. CASE Len(handler[h].todo) # 1
    <2> DEFINE r == [handler[h] EXCEPT !.todo = Tail(handler[h].todo)]
    <2>1. handler' = [handler EXCEPT ![h] = r]
      BY <1>2 DEF Proceed, HandlersOK
    <2>2. HandlerOK(handler[h])
      BY DEF HandlersOK
    <2>3. /\ DOMAIN r = DOMAIN Free /\ r.todo = Tail(handler[h].todo)
          /\ r.account = handler[h].account /\ r.tries = handler[h].tries
          /\ r.message = handler[h].message /\ r.left = handler[h].left
      BY <2>2 DEF HandlerOK, Free
    <2>4. HandlerOK(r)
      BY <2>2, <2>3, NextCall DEF HandlerOK
    <2> HIDE DEF r
    <2>5. DOMAIN handler' = Handler /\ handler'[h] = r
          /\ \A g \in Handler \ {h} : handler'[g] = handler[g]
      BY <2>1 DEF HandlersOK
    <2>6. HandlersOK'
      BY <2>4, <2>5 DEF HandlersOK, HandlerOK
    <2>7. ASSUME Between(h)'
          PROVE  At(h, "insert") \/ At(h, "remove")
      <3> DEFINE t == handler[h].todo
      <3>1. t \in Todo /\ t # <<>> /\ handler'[h].todo = Tail(t)
        BY <2>2, <2>3, <2>5 DEF HandlerOK
      <3>2. Tail(t) # <<>> /\ Head(Tail(t)) \in {"import", "delete"}
        BY <2>7, <3>1 DEF Between, At
      <3>3. Head(t) \in {"insert", "remove"}
        BY <3>1, <3>2, NextCall
      <3> QED
        BY <3>1, <3>3 DEF At
    <2> QED
      BY <2>3, <2>5, <2>6, <2>7 DEF OnlyMoves, Account
  <1> QED
    BY <1>1, <1>2

LEMMA FailMoves ==
    ASSUME HandlersOK, NEW h \in Handler, handler[h].todo # <<>>, Fail(h)
    PROVE  OnlyMoves(h) /\ ~ Between(h)'
  <1>1. Elsewhere(Failed(h).todo)
    BY FailedOK, Begins DEF Plans
  <1> QED
    BY <1>1, FailedOK, Moves DEF Fail

\* A call of one of the stores: the other one stays as it is.
LEMMA NodeCallMoves ==
    ASSUME HandlersOK, StoresOK, NEW h \in Handler, handler[h].todo # <<>>,
           NEW accepted \in BOOLEAN, NEW new, NodeCall(h, accepted, new)
    PROVE  /\ OnlyMoves(h)
           /\ UNCHANGED <<db, scans>> /\ failures' \in 0 .. MaxFailures
           /\ node' = node \/ (accepted /\ node' = new)
           /\ Between(h)' => accepted /\ node' = new
  BY ProceedMoves, FailMoves, ServerAssumption DEF NodeCall, StoresOK

LEMMA DbCallMoves ==
    ASSUME HandlersOK, StoresOK, NEW h \in Handler, handler[h].todo # <<>>,
           NEW accepted \in BOOLEAN, NEW new, DbCall(h, accepted, new)
    PROVE  /\ OnlyMoves(h)
           /\ UNCHANGED <<node, scans>> /\ failures' \in 0 .. MaxFailures
           /\ db' = db \/ (accepted /\ db' = new)
           /\ Between(h)' => accepted /\ db' = new
  BY ProceedMoves, FailMoves, ServerAssumption DEF DbCall, StoresOK

----------------------------------------------------------------------------
(* BetweenIsExclusive is kept.                                             *)

\* Those who were between the stores still are right, and if h is between
\* them now then it is right and alone.
LEMMA StillExclusive ==
    ASSUME IInv, NEW h \in Handler, OnlyMoves(h),
           \A g \in Handler \ {h} : Between(g) =>
                Account(g) \in db'.rows /\ Account(g) \notin node'.accounts,
           Between(h)' =>
                /\ Account(h) \in db'.rows /\ Account(h) \notin node'.accounts
                /\ \A g \in Handler \ {h} : Between(g) => Account(g) # Account(h)
    PROVE  BetweenIsExclusive'
  <1>1. \A g \in Handler \ {h} : /\ Between(g)' <=> Between(g)
                                 /\ Account(g)' = Account(g)
    BY DEF OnlyMoves, Between, At, Account
  <1>2. Between(h)' => Account(h)' = Account(h)
    BY DEF OnlyMoves
  <1> QED
    BY <1>1, <1>2 DEF BetweenIsExclusive, IInv

\* Nobody has come between the stores.
LEMMA NoneComes ==
    ASSUME BetweenIsExclusive, db'.rows = db.rows, node'.accounts = node.accounts,
           \A g \in Handler : Between(g)' => Between(g) /\ Account(g)' = Account(g)
    PROVE  BetweenIsExclusive'
  BY DEF BetweenIsExclusive

----------------------------------------------------------------------------
(* The invariant is kept by the calls.                                     *)

\* A handler at a call has an account.
LEMMA HasAccount ==
    ASSUME HandlersOK, NEW h \in Handler, handler[h].todo # <<>>
    PROVE  Account(h) \in Address
  BY DEF HandlersOK, HandlerOK, Account

\* Calls that change neither the rows nor the node's accounts.
LEMMA CallStores ==
    ASSUME IInv, NEW h \in Handler, OnlyMoves(h), ~ Between(h)', StoresOK',
           db'.rows = db.rows, node'.accounts = node.accounts
    PROVE  IInv'
  <1>1. BetweenIsExclusive'
    BY StillExclusive DEF IInv, BetweenIsExclusive
  <1> QED
    BY <1>1 DEF IInv, OnlyMoves, NodeImpliesRow

LEMMA NodeCalls ==
    ASSUME IInv, NEW h \in Handler,
           \/ GetLatestBlock(h) \/ GetAccountStatus(h) \/ PauseScanning(h)
           \/ ResetAccount(h) \/ ResumeScanning(h)
    PROVE  IInv'
  <1> USE DEF IInv
  <1>1. CASE /\ GetAccountStatus(h) /\ UNCHANGED <<db, node, scans, failures>>
             /\ handler' = [handler EXCEPT ![h] = Done(h)]
    <2>1. OnlyMoves(h) /\ ~ Between(h)'
      BY <1>1, DoneOK, Begins, Moves
    <2> QED
      BY <1>1, <2>1, CallStores DEF StoresOK
  <1>2. ASSUME NEW new, NEW accepted \in BOOLEAN, handler[h].todo # <<>>,
               Head(handler[h].todo) \notin {"insert", "remove"},
               NodeCall(h, accepted, new),
               accepted => /\ new \in [accounts : SUBSET Address, scanning : SUBSET Address]
                           /\ new.accounts = node.accounts
                           /\ new.scanning \subseteq new.accounts
        PROVE  IInv'
    <2>1. OnlyMoves(h) /\ ~ Between(h)'
      BY <1>2, NodeCallMoves DEF OnlyMoves, At
    <2>2. StoresOK' /\ db'.rows = db.rows /\ node'.accounts = node.accounts
      BY <1>2, NodeCallMoves DEF StoresOK
    <2> QED
      BY <2>1, <2>2, CallStores
  <1>3. Exists(h) \in BOOLEAN
    BY DEF Exists
  <1>4. CASE GetLatestBlock(h)
    BY <1>2, <1>4, node \in [accounts : SUBSET Address, scanning : SUBSET Address]
    DEF GetLatestBlock, At, StoresOK
  <1>5. CASE GetAccountStatus(h)
    BY <1>1, <1>2, <1>3, <1>5 DEF GetAccountStatus, At, StoresOK
  <1>6. CASE PauseScanning(h)
    <2> DEFINE new == [node EXCEPT !.scanning = @ \ {Account(h)}]
    <2>1. /\ new \in [accounts : SUBSET Address, scanning : SUBSET Address]
          /\ new.accounts = node.accounts /\ new.scanning \subseteq new.accounts
      BY DEF StoresOK
    <2>2. /\ handler[h].todo # <<>> /\ Head(handler[h].todo) = "pause"
          /\ NodeCall(h, Exists(h), new)
      BY <1>6 DEF PauseScanning, At
    <2> HIDE DEF new
    <2> QED
      BY <1>2, <1>3, <2>1, <2>2
  <1>7. CASE ResetAccount(h)
    BY <1>2, <1>3, <1>7 DEF ResetAccount, At, StoresOK
  <1>8. CASE ResumeScanning(h)
    <2> DEFINE new == [node EXCEPT !.scanning = @ \cup {Account(h)}]
    <2>1. Exists(h) =>
            /\ new \in [accounts : SUBSET Address, scanning : SUBSET Address]
            /\ new.accounts = node.accounts /\ new.scanning \subseteq new.accounts
      BY DEF StoresOK, Exists
    <2>2. /\ handler[h].todo # <<>> /\ Head(handler[h].todo) = "resume"
          /\ NodeCall(h, Exists(h), new)
      BY <1>8 DEF ResumeScanning, At
    <2> HIDE DEF new
    <2> QED
      BY <1>2, <1>3, <2>1, <2>2
  <1> QED
    BY <1>4, <1>5, <1>6, <1>7, <1>8

LEMMA DbCalls ==
    ASSUME IInv, NEW h \in Handler,
           Authorize(h) \/ Find(h) \/ Mark(h) \/ Unmark(h)
    PROVE  IInv'
  <1> USE DEF IInv
  <1>0. HasRow(h) \in BOOLEAN
    BY DEF HasRow
  <1>1. ASSUME NEW new, NEW accepted \in BOOLEAN, handler[h].todo # <<>>,
               Head(handler[h].todo) \notin {"insert", "remove"},
               DbCall(h, accepted, new),
               accepted => /\ new \in [rows : SUBSET Address, needScan : SUBSET Address]
                           /\ new.rows = db.rows /\ new.needScan \subseteq new.rows
        PROVE  IInv'
    <2>1. OnlyMoves(h) /\ ~ Between(h)'
      BY <1>0, <1>1, DbCallMoves DEF OnlyMoves, At
    <2>2. StoresOK' /\ db'.rows = db.rows /\ node'.accounts = node.accounts
      BY <1>0, <1>1, DbCallMoves DEF StoresOK
    <2> QED
      BY <2>1, <2>2, CallStores
  <1>2. CASE Authorize(h)
    <2>1. /\ handler[h].todo # <<>> /\ Head(handler[h].todo) = "auth"
          /\ DbCall(h, HasRow(h), db)
      BY <1>2 DEF Authorize, At
    <2> QED
      BY <1>0, <1>1, <2>1 DEF StoresOK
  <1>3. CASE Find(h)
    <2> DEFINE accepted == HasRow(h) # IsImport(h)
    <2>1. /\ handler[h].todo # <<>> /\ Head(handler[h].todo) = "find"
          /\ DbCall(h, accepted, db)
      BY <1>3 DEF Find, At
    <2>2. accepted \in BOOLEAN
      OBVIOUS
    <2> HIDE DEF accepted
    <2> QED
      BY <1>1, <2>1, <2>2 DEF StoresOK
  <1>4. CASE Mark(h)
    <2> DEFINE new == [db EXCEPT !.needScan = @ \cup {Account(h)}]
    <2>1. HasRow(h) =>
            /\ new \in [rows : SUBSET Address, needScan : SUBSET Address]
            /\ new.rows = db.rows /\ new.needScan \subseteq new.rows
      BY DEF StoresOK, HasRow
    <2>2. /\ handler[h].todo # <<>> /\ Head(handler[h].todo) = "mark"
          /\ DbCall(h, HasRow(h), new)
      BY <1>4 DEF Mark, At
    <2> HIDE DEF new
    <2> QED
      BY <1>0, <1>1, <2>1, <2>2
  <1>5. CASE Unmark(h)
    <2> DEFINE new == [db EXCEPT !.needScan = @ \ {Account(h)}]
    <2>1. HasRow(h) =>
            /\ new \in [rows : SUBSET Address, needScan : SUBSET Address]
            /\ new.rows = db.rows /\ new.needScan \subseteq new.rows
      BY DEF StoresOK, HasRow
    <2>2. /\ handler[h].todo # <<>> /\ Head(handler[h].todo) = "unmark"
          /\ DbCall(h, HasRow(h), new)
      BY <1>5 DEF Unmark, At
    <2> HIDE DEF new
    <2> QED
      BY <1>0, <1>1, <2>1, <2>2
  <1> QED
    BY <1>2, <1>3, <1>4, <1>5

LEMMA InsertCall ==
    ASSUME IInv, NEW h \in Handler, Insert(h)
    PROVE  IInv'
  <1> USE DEF IInv
  <1>0. HasRow(h) \in BOOLEAN
    BY DEF HasRow
  <1> DEFINE a == Account(h)
             new == [db EXCEPT !.rows = @ \cup {a}]
  <1>1. /\ handler[h].todo # <<>> /\ a \in Address
        /\ DbCall(h, ~ HasRow(h), new)
    BY HasAccount DEF Insert, At
  <1>2. /\ OnlyMoves(h) /\ UNCHANGED <<node, scans>> /\ failures' \in 0 .. MaxFailures
        /\ db' = db \/ (~ HasRow(h) /\ db' = new)
        /\ Between(h)' => ~ HasRow(h) /\ db' = new
    BY <1>0, <1>1, DbCallMoves
  <1>3. /\ new.rows = db.rows \cup {a} /\ new.needScan = db.needScan
        /\ new \in [rows : SUBSET Address, needScan : SUBSET Address]
    BY <1>1 DEF StoresOK
  <1>4. StoresOK' /\ NodeImpliesRow' /\ db.rows \subseteq db'.rows
    BY <1>2, <1>3 DEF StoresOK, NodeImpliesRow
  <1>5. BetweenIsExclusive'
    BY <1>2, <1>3, <1>4, StillExclusive DEF HasRow, BetweenIsExclusive, NodeImpliesRow
  <1> QED
    BY <1>2, <1>4, <1>5 DEF OnlyMoves

LEMMA DeleteCall ==
    ASSUME IInv, NEW h \in Handler, Delete(h)
    PROVE  IInv'
  <1> USE DEF IInv
  <1>0. HasRow(h) \in BOOLEAN
    BY DEF HasRow
  <1> DEFINE a == Account(h)
             new == Without(a)
  <1>1. /\ handler[h].todo # <<>> /\ Between(h)
        /\ DbCall(h, HasRow(h), new)
    BY DEF Delete, At, Between
  <1>2. /\ OnlyMoves(h) /\ UNCHANGED <<node, scans>> /\ failures' \in 0 .. MaxFailures
        /\ db' = db \/ db' = new
    <2> HIDE DEF new
    <2> QED
      BY <1>0, <1>1, DbCallMoves
  <1>3. ~ Between(h)'
    BY <1>2 DEF OnlyMoves, Delete, At
  <1>4. /\ new.rows = db.rows \ {a} /\ new.needScan = db.needScan \ {a}
        /\ new \in [rows : SUBSET Address, needScan : SUBSET Address]
    BY DEF StoresOK, Without
  <1>5. StoresOK' /\ NodeImpliesRow'
    BY <1>1, <1>2, <1>4 DEF StoresOK, NodeImpliesRow, BetweenIsExclusive
  <1>6. BetweenIsExclusive'
    BY <1>1, <1>2, <1>3, <1>4, StillExclusive DEF HasRow, BetweenIsExclusive
  <1> QED
    BY <1>2, <1>5, <1>6 DEF OnlyMoves

LEMMA ImportCall ==
    ASSUME IInv, NEW h \in Handler, ImportAccount(h)
    PROVE  IInv'
  <1> USE DEF IInv
  <1> DEFINE a == Account(h)
             new == [accounts |-> node.accounts \cup {a},
                     scanning |-> node.scanning \cup {a}]
  <1>1. /\ handler[h].todo # <<>> /\ Between(h) /\ a \in Address
        /\ NodeCall(h, ~ Exists(h), new)
    BY HasAccount DEF ImportAccount, At, Between
  <1>2. /\ OnlyMoves(h) /\ UNCHANGED <<db, scans>> /\ failures' \in 0 .. MaxFailures
        /\ node' = node \/ node' = new
    BY <1>1, NodeCallMoves DEF Exists
  <1>3. ~ Between(h)'
    BY <1>2 DEF OnlyMoves, ImportAccount, At
  <1>4. StoresOK' /\ NodeImpliesRow'
    BY <1>1, <1>2 DEF StoresOK, NodeImpliesRow, BetweenIsExclusive
  <1>5. BetweenIsExclusive'
    BY <1>1, <1>2, <1>3, StillExclusive DEF BetweenIsExclusive
  <1> QED
    BY <1>2, <1>4, <1>5 DEF OnlyMoves

LEMMA RemoveCall ==
    ASSUME IInv, NEW h \in Handler, RemoveAccount(h)
    PROVE  IInv'
  <1> USE DEF IInv
  <1> DEFINE a == Account(h)
             new == [accounts |-> node.accounts \ {a},
                     scanning |-> node.scanning \ {a}]
  <1>1. /\ handler[h].todo # <<>>
        /\ NodeCall(h, Exists(h), new)
    BY DEF RemoveAccount, At
  <1>2. /\ OnlyMoves(h) /\ UNCHANGED <<db, scans>> /\ failures' \in 0 .. MaxFailures
        /\ node' = node \/ node' = new
        /\ Between(h)' => Exists(h) /\ node' = new
    <2>1. Exists(h) \in BOOLEAN
      BY DEF Exists
    <2> HIDE DEF new
    <2> QED
      BY <1>1, <2>1, NodeCallMoves
  <1>3. StoresOK' /\ NodeImpliesRow'
    BY <1>2 DEF StoresOK, NodeImpliesRow
  <1>4. BetweenIsExclusive'
    BY <1>2, StillExclusive DEF BetweenIsExclusive, NodeImpliesRow, Exists
  <1> QED
    BY <1>2, <1>3, <1>4 DEF OnlyMoves

LEMMA SetHeadCall ==
    ASSUME IInv, NEW h \in Handler, SetAccountHead(h)
    PROVE  IInv'
  <1> USE DEF IInv
  <1> DEFINE r == handler[h]
             request == HeadRequest(r)
             rest == r.left \ request.blocks
             more == [r EXCEPT !.left = rest, !.sent = Append(@, request),
                               !.start = StartAfter(Highest(request.blocks))]
             last == [r EXCEPT !.left = {}, !.sent = Append(@, request),
                               !.todo = Tail(@)]
  <1>1. r.todo # <<>> /\ Head(r.todo) = "setHead" /\ HandlerOK(r)
    BY DEF SetAccountHead, At, HandlersOK
  <1>2. DOMAIN r = DOMAIN Free
    BY <1>1 DEF HandlerOK
  <1>3. HandlerOK(more) /\ Elsewhere(more.todo)
    <2>1. /\ DOMAIN more = DOMAIN Free
          /\ more.todo = r.todo /\ more.account = r.account /\ more.tries = r.tries
          /\ more.message = r.message /\ more.left = rest
      BY <1>2 DEF Free
    <2> HIDE DEF more
    <2> QED
      BY <1>1, <2>1 DEF HandlerOK, Elsewhere
  <1>4. HandlerOK(last) /\ Elsewhere(last.todo)
    <2>1. /\ DOMAIN last = DOMAIN Free
          /\ last.todo = Tail(r.todo) /\ last.account = r.account
          /\ last.tries = r.tries /\ last.message = r.message /\ last.left = {}
      BY <1>2 DEF Free
    <2> HIDE DEF last
    <2> QED
      BY <1>1, <2>1, NextCall DEF HandlerOK, Elsewhere
  <1>5. \/ handler' = [handler EXCEPT ![h] = more] /\ UNCHANGED failures
        \/ handler' = [handler EXCEPT ![h] = last] /\ UNCHANGED failures
        \/ Fail(h) /\ UNCHANGED failures
        \/ Fail(h) /\ failures < MaxFailures /\ failures' = failures + 1
    BY DEF SetAccountHead
  <1> HIDE DEF more, last
  <1>6. OnlyMoves(h) /\ ~ Between(h)'
    BY <1>1, <1>3, <1>4, <1>5, Moves, FailMoves
  <1>7. StoresOK' /\ UNCHANGED <<db, node>>
    BY <1>5, ServerAssumption DEF StoresOK, SetAccountHead
  <1> QED
    BY <1>6, <1>7, CallStores

\* A scan more that is owed, or one less of those that are.
LEMMA CountedScans ==
    ASSUME StoresOK, NEW a \in Address
    PROVE  /\ Taken(a) \in [Address -> Nat]
           /\ scans[a] > 0 => Settled(a) \in [Address -> Nat]
  <1>1. scans \in [Address -> Nat]
    BY DEF StoresOK
  <1>2. Taken(a) \in [Address -> Nat]
    BY <1>1 DEF Taken
  <1>3. scans[a] > 0 => scans[a] - 1 \in Nat
    BY <1>1
  <1> QED
    BY <1>1, <1>2, <1>3 DEF Settled

LEMMA SubmitCall ==
    ASSUME IInv, NEW h \in Handler, SubmitScanRequest(h)
    PROVE  IInv'
  <1> USE DEF IInv
  <1>1. handler[h].todo # <<>> /\ Head(handler[h].todo) = "submit"
    BY DEF SubmitScanRequest, At
  <1>2. OnlyMoves(h) /\ ~ Between(h)'
    BY <1>1, ProceedMoves, FailMoves DEF SubmitScanRequest, OnlyMoves, At
  <1>3. StoresOK' /\ UNCHANGED <<db, node>>
    <2>1. /\ scans' \in {scans, Taken(Account(h))} /\ UNCHANGED <<db, node>>
          /\ failures' \in {failures, failures + 1}
          /\ failures' # failures => failures < MaxFailures
      BY DEF SubmitScanRequest
    <2>2. Taken(Account(h)) \in [Address -> Nat]
      BY <1>1, HasAccount, CountedScans
    <2>3. scans' \in [Address -> Nat]
      BY <2>1, <2>2 DEF StoresOK
    <2>4. failures' \in 0 .. MaxFailures
      BY <2>1, ServerAssumption DEF StoresOK
    <2> QED
      BY <2>1, <2>3, <2>4 DEF StoresOK
  <1> QED
    BY <1>2, <1>3, CallStores

LEMMA StepKeeps ==
    ASSUME IInv, NEW h \in Handler, Step(h)
    PROVE  IInv'
  BY NodeCalls, DbCalls, InsertCall, DeleteCall, ImportCall, RemoveCall,
     SetHeadCall, SubmitCall DEF Step

----------------------------------------------------------------------------
(* The invariant is kept by the other steps.                               *)

\* A handler begins or is given up, or keeps what it has to do.
LEMMA Replaced ==
    ASSUME IInv, StoresOK', UNCHANGED <<db, node>>, DOMAIN handler' = Handler,
           \A g \in Handler :
                /\ HandlerOK(handler'[g])
                /\ \/ Elsewhere(handler'[g].todo)
                   \/ /\ handler'[g].todo = handler[g].todo
                      /\ handler'[g].account = handler[g].account
    PROVE  IInv'
  <1>1. \A g \in Handler : Between(g)' => Between(g) /\ Account(g)' = Account(g)
    BY DEF Between, At, Account, Elsewhere
  <1>2. HandlersOK'
    BY DEF IInv, HandlersOK, HandlerOK
  <1> QED
    BY <1>1, <1>2, NoneComes DEF IInv, NodeImpliesRow

LEMMA ReceiveKeeps ==
    ASSUME IInv, NEW c \in Call, NEW a \in Address, Receive(c, a)
    PROVE  IInv'
  <1>1. PICK plan \in Plans :
            handler' = [handler EXCEPT ![c] = [Free EXCEPT !.todo = plan, !.account = a]]
    BY DEF Receive, Plans
  <1> DEFINE r == [Free EXCEPT !.todo = plan, !.account = a]
  <1>2. /\ DOMAIN r = DOMAIN Free /\ r.todo = plan /\ r.account = a
        /\ r.tries = Free.tries /\ r.message = Free.message /\ r.left = Free.left
    BY DEF Free
  <1> HIDE DEF r
  <1>3. HandlerOK(r) /\ Elsewhere(r.todo)
    BY <1>2, FreeOK, Whole, Begins DEF HandlerOK
  <1>4. /\ DOMAIN handler' = Handler
        /\ \A g \in Handler : handler'[g] = r \/ handler'[g] = handler[g]
    BY <1>1 DEF IInv, HandlersOK, Handler, r
  <1>5. StoresOK' /\ UNCHANGED <<db, node>>
    BY DEF Receive, StoresOK, IInv
  <1> QED
    BY <1>3, <1>4, <1>5, Replaced DEF IInv, HandlersOK

LEMMA FinishKeeps ==
    ASSUME IInv, NEW s \in Submission, NEW a \in Address, NEW m \in Response,
           FinishScan(s, a, m)
    PROVE  IInv'
  <1> DEFINE r == Submitted(a, m, MaxTries)
  <1>1. HandlerOK(r) /\ Elsewhere(r.todo)
    BY SubmittedOK, Begins DEF MaxTries, Plans
  <1> HIDE DEF r
  <1>2. /\ DOMAIN handler' = Handler
        /\ \A g \in Handler : handler'[g] = r \/ handler'[g] = handler[g]
    BY DEF FinishScan, IInv, HandlersOK, r
  <1>3. StoresOK' /\ UNCHANGED <<db, node>>
    BY CountedScans DEF FinishScan, StoresOK, IInv
  <1> QED
    BY <1>1, <1>2, <1>3, Replaced DEF IInv, HandlersOK

LEMMA MergeKeeps ==
    ASSUME IInv, NEW a \in Address, MergeScans(a)
    PROVE  IInv'
  <1>1. scans[a] > 0
    BY DEF MergeScans, IInv, StoresOK
  <1>2. StoresOK' /\ UNCHANGED <<db, node, handler>>
    BY <1>1, CountedScans DEF MergeScans, StoresOK, IInv
  <1> QED
    BY <1>2 DEF IInv, HandlersOK, NodeImpliesRow, BetweenIsExclusive, Between, At,
                Account

\* Only the number of tries is another one.
LEMMA TriesOK ==
    ASSUME NEW r, HandlerOK(r)
    PROVE  LET new == [r EXCEPT !.tries = 1]
           IN  /\ HandlerOK(new)
               /\ new.todo = r.todo /\ new.account = r.account
  <1> DEFINE new == [r EXCEPT !.tries = 1]
  <1>1. /\ DOMAIN new = DOMAIN Free /\ new.todo = r.todo
        /\ new.account = r.account /\ new.tries = 1
        /\ new.message = r.message /\ new.left = r.left
    BY DEF HandlerOK, Free
  <1> HIDE DEF new
  <1>2. HandlerOK(new)
    BY <1>1 DEF HandlerOK, MaxTries
  <1> QED
    BY <1>1, <1>2 DEF new

LEMMA SubmitAgainKeeps ==
    ASSUME IInv, NEW s \in Submission, NEW other \in Submission,
           SubmitAgain(s, other)
    PROVE  IInv'
  <1> DEFINE old == [handler[s] EXCEPT !.tries = 1]
             new == Submitted(Account(s), handler[s].message, handler[s].tries - 1)
  <1>1. s \in Handler /\ other \in Handler /\ s # other
        /\ HandlerOK(handler[s]) /\ DOMAIN handler = Handler
    BY FreeOK DEF SubmitAgain, IInv, HandlersOK, Handler
  <1>2. HandlerOK(old) /\ old.todo = handler[s].todo /\ old.account = handler[s].account
    BY <1>1, TriesOK
  <1>3. HandlerOK(new) /\ Elsewhere(new.todo)
    <2>1. /\ Account(s) \in Address /\ handler[s].tries - 1 \in 0 .. MaxTries
          /\ handler[s].message \in Response \cup {NoMessage}
      BY <1>1 DEF SubmitAgain, HandlerOK, Account, MaxTries
    <2> QED
      BY <2>1, SubmittedOK, Begins DEF Plans
  <1>4. handler' = [handler EXCEPT ![s] = old, ![other] = new]
    BY DEF SubmitAgain
  <1> HIDE DEF old, new
  <1>5. /\ DOMAIN handler' = Handler /\ handler'[s] = old /\ handler'[other] = new
        /\ \A g \in Handler \ {s, other} : handler'[g] = handler[g]
    BY <1>1, <1>4
  <1>6. StoresOK' /\ UNCHANGED <<db, node>>
    BY ServerAssumption DEF SubmitAgain, StoresOK, IInv
  <1> QED
    BY <1>2, <1>3, <1>5, <1>6, Replaced DEF IInv, HandlersOK

LEMMA CrashKeeps ==
    ASSUME IInv, ServerCrash \/ ScannerCrash
    PROVE  IInv'
  <1>1. StoresOK' /\ UNCHANGED <<db, node>>
    BY ServerAssumption DEF ServerCrash, ScannerCrash, StoresOK, IInv
  <1>2. \A g \in Handler : HandlerOK(handler[g])
    BY DEF IInv, HandlersOK
  <1>3. CASE ServerCrash
    <2>1. DOMAIN handler' = Handler
          /\ \A g \in Handler : handler'[g] =
                IF handler[g].todo # <<>> THEN Failed(g) ELSE handler[g]
      BY <1>3 DEF ServerCrash
    <2>2. \A g \in Handler : handler[g].todo # <<>> =>
                HandlerOK(Failed(g)) /\ Elsewhere(Failed(g).todo)
      BY FailedOK, Begins DEF IInv, Plans
    <2> QED
      BY <1>1, <1>2, <2>1, <2>2, Replaced
  <1>4. CASE ScannerCrash
    <2>1. DOMAIN handler' = Handler
          /\ \A g \in Handler : handler'[g] \in {[handler[g] EXCEPT !.tries = 1], handler[g]}
      BY <1>4 DEF ScannerCrash
    <2> QED
      BY <1>1, <1>2, <2>1, TriesOK, Replaced
  <1> QED
    BY <1>3, <1>4

----------------------------------------------------------------------------
(* The theorems.                                                           *)

LEMMA InitIInv == Init => IInv
  <1> SUFFICES ASSUME Init PROVE IInv
    OBVIOUS
  <1>1. HandlersOK /\ \A h \in Handler : ~ Between(h)
    BY FreeOK DEF Init, HandlersOK, Between, At
  <1>2. StoresOK /\ NodeImpliesRow
    BY ServerAssumption DEF Init, StoresOK, NodeImpliesRow
  <1> QED
    BY <1>1, <1>2 DEF IInv, BetweenIsExclusive

LEMMA NextIInv == IInv /\ [Next]_vars => IInv'
  <1> SUFFICES ASSUME IInv, [Next]_vars PROVE IInv'
    OBVIOUS
  <1>1. CASE UNCHANGED vars
    BY <1>1 DEF vars, IInv, HandlersOK, StoresOK, NodeImpliesRow,
                BetweenIsExclusive, Between, At, Account
  <1>2. CASE Next
    BY <1>2, ReceiveKeeps, StepKeeps, FinishKeeps, MergeKeeps, SubmitAgainKeeps,
       CrashKeeps
    DEF Next
  <1> QED
    BY <1>1, <1>2

LEMMA Invariant == Spec => []IInv
  BY InitIInv, NextIInv, PTL DEF Spec

\* The stores, the requests of the scanner and the bookkeeping of the handlers
\* stay type correct; need_scan belongs to a row, and the node scans what it has.
THEOREM TypeCorrect == Spec => []TypeOK
  <1>1. IInv => TypeOK
    BY DEF IInv, HandlersOK, HandlerOK, StoresOK, TypeOK, Account
  <1> QED
    BY <1>1, Invariant, PTL

\* The node has no account without a row: the row is inserted before the
\* account is imported and deleted after it is removed, and no two handlers
\* are between the two at once.
THEOREM NoAccountIsForgotten == Spec => []NodeImpliesRow
  <1>1. IInv => NodeImpliesRow
    BY DEF IInv
  <1> QED
    BY <1>1, Invariant, PTL

\* The node never answers an import with account-exists.
THEOREM ImportsAreNew == Spec => []ImportIsNew
  <1>1. IInv => ImportIsNew
    BY DEF IInv, BetweenIsExclusive, Between, ImportIsNew, Exists
  <1> QED
    BY <1>1, Invariant, PTL

----------------------------------------------------------------------------
(* Without failures the stores differ only for those between them.         *)

EqualOrBetween ==
    failures = 0 =>
        \A a \in db.rows \ node.accounts :
            \E h \in Handler : Between(h) /\ Account(h) = a

OnlyOne(h) == \A g \in Handler \ {h} : handler'[g] = handler[g]

\* One handler moves, and the stores change for its account only: then they
\* agree about it, or the handler is between them.
LEMMA StaysEqual ==
    ASSUME EqualOrBetween, failures' = failures, NEW h \in Handler, OnlyOne(h),
           \A a \in db'.rows \ node'.accounts :
                \/ a \in db.rows \ node.accounts /\ ~ (Between(h) /\ Account(h) = a)
                \/ Between(h)' /\ Account(h)' = a
    PROVE  EqualOrBetween'
  <1>1. \A g \in Handler \ {h} : Between(g) => Between(g)' /\ Account(g)' = Account(g)
    BY DEF OnlyOne, Between, At, Account
  <1>2. ASSUME failures' = 0, NEW a \in db'.rows \ node'.accounts
        PROVE  \E g \in Handler : Between(g)' /\ Account(g)' = a
    <2>1. CASE a \in db.rows \ node.accounts /\ ~ (Between(h) /\ Account(h) = a)
      <3>1. PICK g \in Handler : Between(g) /\ Account(g) = a
        BY <1>2, <2>1 DEF EqualOrBetween
      <3> QED
        BY <1>1, <2>1, <3>1
    <2>2. CASE Between(h)' /\ Account(h)' = a
      BY <2>2
    <2> QED
      BY <1>2, <2>1, <2>2
  <1> QED
    BY <1>2 DEF EqualOrBetween

\* What follows the call that leads between the stores.
LEMMA Comes ==
    ASSUME HandlersOK, NEW h \in Handler, At(h, "insert") \/ At(h, "remove"), Proceed(h)
    PROVE  Between(h)' /\ Account(h)' = Account(h)
  <1> DEFINE t == handler[h].todo
             r == [handler[h] EXCEPT !.todo = Tail(t)]
  <1>1. t \in Todo /\ t # <<>> /\ Head(t) \in {"insert", "remove"}
        /\ DOMAIN handler[h] = DOMAIN Free /\ DOMAIN handler = Handler
    BY DEF HandlersOK, HandlerOK, At
  <1>2. /\ Tail(t) # <<>> /\ Len(t) # 1
        /\ Head(Tail(t)) = "import" \/ Head(Tail(t)) = "delete"
    BY <1>1, NextCall
  <1>3. r.todo = Tail(t) /\ r.account = handler[h].account
    BY <1>1 DEF Free
  <1>4. handler' = [handler EXCEPT ![h] = r]
    BY <1>2 DEF Proceed
  <1> HIDE DEF r
  <1>5. handler'[h] = r
    BY <1>1, <1>4
  <1> QED
    BY <1>2, <1>3, <1>5 DEF Between, At, Account

LEMMA StepMovesOne ==
    ASSUME HandlersOK, NEW h \in Handler, Step(h)
    PROVE  OnlyOne(h) /\ handler[h].todo # <<>> /\ Account(h) \in Address
  <1>1. handler[h].todo # <<>>
    BY DEF Step, Authorize, Find, Insert, Delete, Mark, Unmark, ImportAccount,
           RemoveAccount, GetLatestBlock, GetAccountStatus, PauseScanning,
           ResetAccount, ResumeScanning, SetAccountHead, SubmitScanRequest, At
  <1>2. \E r : handler' = [handler EXCEPT ![h] = r]
    <2>1. ASSUME Proceed(h) \/ Fail(h) PROVE \E r : handler' = [handler EXCEPT ![h] = r]
      BY <2>1 DEF Proceed, Fail
    <2>2. ASSUME NEW accepted, NEW new, NodeCall(h, accepted, new) \/ DbCall(h, accepted, new)
          PROVE  Proceed(h) \/ Fail(h)
      BY <2>2 DEF NodeCall, DbCall
    <2>3. CASE \/ Authorize(h) \/ Find(h) \/ Insert(h) \/ Delete(h) \/ Mark(h)
               \/ Unmark(h) \/ ImportAccount(h) \/ RemoveAccount(h) \/ GetLatestBlock(h)
               \/ PauseScanning(h) \/ ResetAccount(h) \/ ResumeScanning(h)
      BY <2>1, <2>2, <2>3
      DEF Authorize, Find, Insert, Delete, Mark, Unmark, ImportAccount, RemoveAccount,
          GetLatestBlock, PauseScanning, ResetAccount, ResumeScanning
    <2>4. CASE GetAccountStatus(h)
      BY <2>1, <2>2, <2>4 DEF GetAccountStatus
    <2>5. CASE SetAccountHead(h)
      BY <2>1, <2>5 DEF SetAccountHead
    <2>6. CASE SubmitScanRequest(h)
      BY <2>1, <2>6 DEF SubmitScanRequest
    <2> QED
      BY <2>3, <2>4, <2>5, <2>6 DEF Step
  <1>3. OnlyOne(h)
    BY <1>2 DEF HandlersOK, OnlyOne
  <1> QED
    BY <1>1, <1>3, HasAccount

LEMMA StepEqual ==
    ASSUME IInv, EqualOrBetween, NEW h \in Handler, Step(h), failures' = failures
    PROVE  EqualOrBetween'
  <1> DEFINE a == Account(h)
  <1>1. /\ OnlyOne(h) /\ HandlersOK /\ failures \in Nat /\ failures # failures + 1
    BY StepMovesOne DEF IInv, StoresOK
  <1>2. CASE ~ Between(h) /\ db'.rows = db.rows /\ node'.accounts = node.accounts
    BY <1>1, <1>2, StaysEqual
  <1>3. CASE Insert(h)
    <2>1. At(h, "insert") /\ DbCall(h, ~ HasRow(h), [db EXCEPT !.rows = @ \cup {a}])
      BY <1>3 DEF Insert
    <2>2. CASE /\ db' = [db EXCEPT !.rows = db.rows \cup {a}] /\ Proceed(h)
               /\ UNCHANGED node
      <3>1. Between(h)' /\ Account(h)' = a /\ ~ Between(h)
        BY <1>1, <2>1, <2>2, Comes DEF Between, At
      <3>2. db'.rows = db.rows \cup {a}
        BY <2>2 DEF IInv, StoresOK
      <3> QED
        BY <1>1, <2>2, <3>1, <3>2, StaysEqual
    <2>3. CASE UNCHANGED <<db, node>>
      BY <1>2, <2>1, <2>3 DEF Between, At
    <2> QED
      BY <1>1, <2>1, <2>2, <2>3 DEF DbCall
  <1>4. CASE Delete(h)
    <2>1. Between(h) /\ HasRow(h) /\ DbCall(h, HasRow(h), Without(a))
      BY <1>4 DEF Delete, Between, IInv, BetweenIsExclusive, HasRow
    <2>2. db' = Without(a) /\ UNCHANGED node
      BY <1>1, <2>1 DEF DbCall
    <2>3. db'.rows = db.rows \ {a}
      BY <2>2 DEF Without
    <2> QED
      BY <1>1, <2>2, <2>3, StaysEqual
  <1>5. CASE ImportAccount(h)
    <2> DEFINE new == [accounts |-> node.accounts \cup {a},
                       scanning |-> node.scanning \cup {a}]
    <2>1. Between(h) /\ ~ Exists(h) /\ NodeCall(h, ~ Exists(h), new)
      BY <1>5 DEF ImportAccount, Between, IInv, BetweenIsExclusive, Exists
    <2>2. node'.accounts = node.accounts \cup {a} /\ UNCHANGED db
      BY <1>1, <2>1 DEF NodeCall
    <2> QED
      BY <1>1, <2>2, StaysEqual
  <1>6. CASE RemoveAccount(h)
    <2> DEFINE new == [accounts |-> node.accounts \ {a},
                       scanning |-> node.scanning \ {a}]
    <2>1. At(h, "remove") /\ NodeCall(h, Exists(h), new)
      BY <1>6 DEF RemoveAccount
    <2>2. CASE node' = new /\ Proceed(h) /\ UNCHANGED db
      <3>1. Between(h)' /\ Account(h)' = a /\ ~ Between(h)
        BY <1>1, <2>1, <2>2, Comes DEF Between, At
      <3>2. node'.accounts = node.accounts \ {a}
        BY <2>2
      <3> QED
        BY <1>1, <2>2, <3>1, <3>2, StaysEqual
    <2>3. CASE UNCHANGED <<db, node>>
      BY <1>2, <2>1, <2>3 DEF Between, At
    <2> HIDE DEF new
    <2> QED
      BY <1>1, <2>1, <2>2, <2>3 DEF NodeCall
  <1>7. CASE \/ Authorize(h) \/ Find(h) \/ Mark(h) \/ Unmark(h)
    <2>1. ~ Between(h) /\ db'.rows = db.rows /\ UNCHANGED node
      BY <1>7 DEF Authorize, Find, Mark, Unmark, DbCall, Between, At, IInv, StoresOK
    <2> QED
      BY <1>2, <2>1
  <1>8. CASE \/ GetLatestBlock(h) \/ GetAccountStatus(h) \/ PauseScanning(h)
             \/ ResetAccount(h) \/ ResumeScanning(h)
    <2>1. ~ Between(h) /\ node'.accounts = node.accounts /\ UNCHANGED db
      BY <1>8 DEF GetLatestBlock, GetAccountStatus, PauseScanning, ResetAccount,
                  ResumeScanning, NodeCall, Between, At, IInv, StoresOK
    <2> QED
      BY <1>2, <2>1
  <1>9. CASE SetAccountHead(h) \/ SubmitScanRequest(h)
    <2>1. ~ Between(h) /\ UNCHANGED <<db, node>>
      BY <1>9 DEF SetAccountHead, SubmitScanRequest, Between, At
    <2> QED
      BY <1>2, <2>1
  <1> QED
    BY <1>3, <1>4, <1>5, <1>6, <1>7, <1>8, <1>9 DEF Step

LEMMA FailuresCount ==
    ASSUME Next PROVE failures' \in {failures, failures + 1}
  <1>1. ASSUME NEW h \in Handler, NEW accepted, NEW new,
               NodeCall(h, accepted, new) \/ DbCall(h, accepted, new)
        PROVE  failures' \in {failures, failures + 1}
    BY <1>1 DEF NodeCall, DbCall
  <1>2. ASSUME NEW h \in Handler, Step(h) PROVE failures' \in {failures, failures + 1}
    <2>1. CASE \/ Authorize(h) \/ Find(h) \/ Insert(h) \/ Delete(h) \/ Mark(h)
               \/ Unmark(h) \/ ImportAccount(h) \/ RemoveAccount(h) \/ GetLatestBlock(h)
               \/ PauseScanning(h) \/ ResetAccount(h) \/ ResumeScanning(h)
      BY <1>1, <2>1
      DEF Authorize, Find, Insert, Delete, Mark, Unmark, ImportAccount, RemoveAccount,
          GetLatestBlock, PauseScanning, ResetAccount, ResumeScanning
    <2>2. CASE GetAccountStatus(h)
      BY <1>1, <2>2 DEF GetAccountStatus
    <2>3. CASE SetAccountHead(h) \/ SubmitScanRequest(h)
      BY <2>3 DEF SetAccountHead, SubmitScanRequest
    <2> QED
      BY <1>2, <2>1, <2>2, <2>3 DEF Step
  <1> QED
    BY <1>2 DEF Next, Receive, FinishScan, MergeScans, SubmitAgain, ServerCrash,
                ScannerCrash

LEMMA NextEqual == IInv /\ EqualOrBetween /\ [Next]_vars => EqualOrBetween'
  <1> SUFFICES ASSUME IInv, EqualOrBetween, [Next]_vars PROVE EqualOrBetween'
    OBVIOUS
  <1>1. CASE UNCHANGED <<db, node, handler, failures>>
    BY <1>1 DEF EqualOrBetween, Between, At, Account
  <1>2. CASE failures' # failures
    <2>1. failures' = failures + 1 /\ failures \in Nat
      BY <1>2, FailuresCount DEF IInv, StoresOK, vars
    <2> QED
      BY <2>1 DEF EqualOrBetween
  <1>3. ASSUME failures' = failures, NEW h \in Handler, handler[h] = Free,
               NEW r, handler' = [handler EXCEPT ![h] = r], UNCHANGED <<db, node>>
        PROVE  EqualOrBetween'
    <2>1. ~ Between(h) /\ OnlyOne(h)
      BY <1>3, FreeOK DEF Between, At, IInv, HandlersOK, OnlyOne
    <2> QED
      BY <1>3, <2>1, StaysEqual
  <1>4. CASE failures' = failures /\ Next
    <2>1. ASSUME NEW c \in Call, NEW a \in Address, Receive(c, a) PROVE EqualOrBetween'
      BY <1>3, <2>1 DEF Receive, Handler
    <2>2. ASSUME NEW s \in Submission, NEW a \in Address, NEW m \in Response,
                 FinishScan(s, a, m)
          PROVE  EqualOrBetween'
      BY <1>3, <2>2 DEF FinishScan, Handler
    <2>3. ASSUME NEW a \in Address, MergeScans(a) PROVE EqualOrBetween'
      BY <1>1, <2>3 DEF MergeScans
    <2>4. ~ ServerCrash /\ ~ ScannerCrash
          /\ \A s, other \in Submission : ~ SubmitAgain(s, other)
      BY <1>4 DEF ServerCrash, ScannerCrash, SubmitAgain, IInv, StoresOK
    <2>5. ASSUME NEW h \in Handler, Step(h) PROVE EqualOrBetween'
      BY <1>4, <2>5, StepEqual
    <2> QED
      BY <1>4, <2>1, <2>2, <2>3, <2>4, <2>5 DEF Next
  <1> QED
    BY <1>1, <1>2, <1>4 DEF vars

\* As long as nothing fails, the database and the node agree about an account
\* as soon as no handler works on it: no interleaving of imports and removals
\* leaves it in one of them only.
THEOREM StoresAgree == Spec => []QuietMeansEqual
  <1>1. Init => EqualOrBetween
    BY DEF Init, EqualOrBetween
  <1>2. Spec => []EqualOrBetween
    BY <1>1, Invariant, NextEqual, PTL DEF Spec
  <1>3. IInv /\ EqualOrBetween => QuietMeansEqual
    BY DEF IInv, EqualOrBetween, NodeImpliesRow, QuietMeansEqual, Quiet, Between, At,
           StoresOK
  <1> QED
    BY <1>2, <1>3, Invariant, PTL

----------------------------------------------------------------------------
(* The requests of update_scan_status for one response.                    *)

\* What the handler of a response may have left of its calls.
UpdateLeft == {Update, <<"setHead", "resume", "unmark">>, <<"resume", "unmark">>,
               <<"unmark">>, <<>>}

LEMMA UpdateLeftIs ==
    ASSUME NEW todo \in UpdateLeft, todo # <<>>
    PROVE  /\ Tail(todo) \in UpdateLeft
           /\ Head(todo) \in {"find", "setHead", "resume", "unmark"}
  <1>1. CASE todo = Update
    <2>1. Tail(todo) = <<"setHead", "resume", "unmark">> /\ Head(todo) = "find"
      BY <1>1 DEF Update
    <2> QED
      BY <2>1 DEF UpdateLeft
  <1>2. CASE todo = <<"setHead", "resume", "unmark">>
    <2>1. Tail(todo) = <<"resume", "unmark">> /\ Head(todo) = "setHead"
      BY <1>2
    <2> QED
      BY <2>1 DEF UpdateLeft
  <1>3. CASE todo = <<"resume", "unmark">>
    <2>1. Tail(todo) = <<"unmark">> /\ Head(todo) = "resume"
      BY <1>3
    <2> QED
      BY <2>1 DEF UpdateLeft
  <1>4. CASE todo = <<"unmark">>
    <2>1. Tail(todo) = <<>> /\ Head(todo) = "unmark"
      BY <1>4
    <2> QED
      BY <2>1 DEF UpdateLeft
  <1> QED
    BY <1>1, <1>2, <1>3, <1>4 DEF UpdateLeft

\* A handler goes on, ends or starts again.
Forward(h) ==
    Proceed(h) \/ Fail(h) \/ handler' = [handler EXCEPT ![h] = Done(h)]

LEMMA MessageIs ==
    ASSUME HandlersOK, NEW h \in Handler
    PROVE  /\ handler[h].message.from \in Nat /\ handler[h].message.to \in Nat
  BY ServerAssumption DEF HandlersOK, HandlerOK, NoMessage

LEMMA FreeIs ==
    /\ Free.todo = <<>> /\ Free.start = 0 /\ Free.account = NoAddress
    /\ DOMAIN Free = {"todo", "account", "tries", "message", "left", "start", "sent"}
  BY DEF Free

LEMMA SubmittedIs ==
    ASSUME NEW a, NEW message, NEW tries
    PROVE  LET r == Submitted(a, message, tries)
           IN  /\ r.todo = Update /\ r.account = a /\ r.message = message
               /\ r.start = message.from
  BY DEF Submitted, Free

LEMMA AnsweredIs ==
    ASSUME NEW r
    PROVE  Answered(r).todo = <<>> /\ Answered(r).start = 0
  BY DEF Answered, Free

\* All calls but set_account_head.
LEMMA CallsForward ==
    ASSUME NEW h \in Handler,
           \/ Authorize(h) \/ Find(h) \/ Insert(h) \/ Delete(h) \/ Mark(h) \/ Unmark(h)
           \/ ImportAccount(h) \/ RemoveAccount(h) \/ GetLatestBlock(h)
           \/ GetAccountStatus(h) \/ PauseScanning(h) \/ ResetAccount(h)
           \/ ResumeScanning(h) \/ SubmitScanRequest(h)
    PROVE  handler[h].todo # <<>> /\ Head(handler[h].todo) # "setHead" /\ Forward(h)
  <1>1. ASSUME NEW accepted, NEW new, NodeCall(h, accepted, new)
        PROVE  Forward(h)
    BY <1>1 DEF NodeCall, Forward
  <1>2. ASSUME NEW accepted, NEW new, DbCall(h, accepted, new)
        PROVE  Forward(h)
    BY <1>2 DEF DbCall, Forward
  <1>3. handler[h].todo # <<>> /\ Head(handler[h].todo) # "setHead"
    BY DEF Authorize, Find, Insert, Delete, Mark, Unmark, ImportAccount,
           RemoveAccount, GetLatestBlock, GetAccountStatus, PauseScanning,
           ResetAccount, ResumeScanning, SubmitScanRequest, At
  <1>4. CASE Authorize(h) \/ Find(h) \/ Insert(h) \/ Delete(h) \/ Mark(h) \/ Unmark(h)
    BY <1>3, <1>2, <1>4 DEF Authorize, Find, Insert, Delete, Mark, Unmark
  <1>5. CASE \/ ImportAccount(h) \/ RemoveAccount(h) \/ GetLatestBlock(h)
             \/ PauseScanning(h) \/ ResetAccount(h) \/ ResumeScanning(h)
    BY <1>3, <1>1, <1>5 DEF ImportAccount, RemoveAccount, GetLatestBlock, PauseScanning,
                      ResetAccount, ResumeScanning
  <1>6. CASE GetAccountStatus(h)
    BY <1>3, <1>1, <1>6 DEF GetAccountStatus, Forward
  <1>7. CASE SubmitScanRequest(h)
    BY <1>3, <1>7 DEF SubmitScanRequest, Forward
  <1> QED
    BY <1>3, <1>4, <1>5, <1>6, <1>7

LEMMA LeastOf ==
    ASSUME NEW T, T \subseteq Nat, T # {}
    PROVE  \E x \in T : \A y \in T : x <= y
  <1>1. PICK x \in T : \A y \in T : ~ (<<y, x>> \in OpToRel(<, Nat))
    BY NatLessThanWellFounded, WFMin
  <1>2. \A y \in T : ~ (y < x)
    BY <1>1 DEF OpToRel
  <1> QED
    BY <1>2

\* The blocks of a request: the lowest ones that are left, at least one and at
\* most Limit of them.
LEMMA Batch ==
    ASSUME NEW S, S \subseteq Height
    PROVE  /\ Lowest(S) \subseteq S
           /\ S = {} => Cardinality(Lowest(S)) <= Limit
           /\ S # {} =>
                /\ Highest(Lowest(S)) \in Lowest(S)
                /\ \A y \in Lowest(S) : y <= Highest(Lowest(S))
                /\ \A y \in S \ Lowest(S) : y > Highest(Lowest(S))
                /\ Cardinality(Lowest(S)) <= Limit
  <1> DEFINE Below(x) == {y \in S : y < x}
  <1>1. MaxHeight \in Nat /\ Limit \in Nat \ {0} /\ S \subseteq Nat
    BY ServerAssumption DEF Height
  <1>2. IsFiniteSet(S)
    <2>1. IsFiniteSet(1 .. MaxHeight)
      BY <1>1, FS_Interval
    <2> QED
      BY <2>1, FS_Subset DEF Height
  <1>3. Lowest(S) \subseteq S /\ \A x \in S : x \in Lowest(S) <=> Cardinality(Below(x)) < Limit
    BY DEF Lowest
  <1>4. \A x : IsFiniteSet(Below(x)) /\ Cardinality(Below(x)) \in Nat
    BY <1>2, FS_Subset, FS_CardinalityType
  <1>5. ASSUME S = {} PROVE Cardinality(Lowest(S)) <= Limit
    <2>1. Lowest(S) = {}
      BY <1>3, <1>5
    <2> QED
      BY <1>1, <2>1, FS_EmptySet
  <1>6. ASSUME S # {} PROVE Highest(Lowest(S)) \in Lowest(S)
                            /\ \A y \in Lowest(S) : y <= Highest(Lowest(S))
    <2>1. PICK x \in S : \A y \in S : x <= y
      BY <1>1, <1>6, LeastOf
    <2>2. Below(x) = {}
      <3>1. \A y \in S : ~ (y < x)
        BY <1>1, <2>1
      <3> QED
        BY <3>1
    <2>3. x \in Lowest(S)
      BY <1>1, <1>3, <2>2, FS_EmptySet
    <2> DEFINE T == {d \in Nat : MaxHeight - d \in Lowest(S)}
    <2>4. MaxHeight - x \in T
      BY <1>1, <2>3 DEF Height
    <2>5. PICK d \in T : \A e \in T : d <= e
      <3>1. T \subseteq Nat /\ T # {}
        BY <2>4
      <3> HIDE DEF T
      <3> QED
        BY <3>1, LeastOf
    <2>6. /\ MaxHeight - d \in Lowest(S)
          /\ \A y \in Lowest(S) : y <= MaxHeight - d
      <3>1. ASSUME NEW y \in Lowest(S) PROVE y <= MaxHeight - d
        <4>1. y \in 1 .. MaxHeight
          BY <1>3 DEF Height
        <4>2. MaxHeight - y \in Nat /\ MaxHeight - (MaxHeight - y) = y
          BY <1>1, <4>1
        <4>3. MaxHeight - y \in T
          BY <4>2
        <4>4. d \in Nat /\ d <= MaxHeight - y
          BY <2>5, <4>3
        <4> QED
          BY <1>1, <4>1, <4>4
      <3>2. d \in T
        BY <2>5
      <3> QED
        BY <3>1, <3>2
    <2> QED
      BY <2>6 DEF Highest
  <1> DEFINE m == Highest(Lowest(S))
  <1>7. ASSUME S # {}, NEW y \in S \ Lowest(S) PROVE y > m
    <2>1. m \in S /\ m \in Nat /\ y \in Nat
      BY <1>1, <1>3, <1>6, <1>7
    <2> HIDE DEF m
    <2>2. ASSUME y <= m PROVE FALSE
      <3>1. Below(y) \subseteq Below(m)
        <4>1. ASSUME NEW z \in S, z < y PROVE z < m
          BY <1>1, <2>1, <2>2, <4>1
        <4> QED
          BY <4>1
      <3>2. Cardinality(Below(y)) <= Cardinality(Below(m))
        BY <1>4, <3>1, FS_Subset
      <3>3. Cardinality(Below(m)) < Limit
        BY <1>3, <1>6, <1>7 DEF m
      <3>4. Cardinality(Below(y)) < Limit
        BY <1>1, <1>4, <3>2, <3>3
      <3> QED
        BY <1>3, <1>7, <3>4
    <2> QED
      BY <2>1, <2>2
  <1>8. ASSUME S # {} PROVE Cardinality(Lowest(S)) <= Limit
    <2>1. m \in S /\ m \in Nat /\ \A y \in Lowest(S) : y \in S /\ y \in Nat /\ y <= m
      BY <1>1, <1>3, <1>6, <1>8
    <2>2. Cardinality(Below(m)) < Limit
      BY <1>3, <1>6, <1>8
    <2> HIDE DEF m
    <2>3. Lowest(S) \subseteq Below(m) \cup {m}
      BY <2>1
    <2>4. /\ IsFiniteSet(Below(m) \cup {m})
          /\ Cardinality(Below(m) \cup {m}) <= Cardinality(Below(m)) + 1
      <3> DEFINE B == Below(m)
      <3>1. IsFiniteSet(B) /\ Cardinality(B) \in Nat
        BY <1>4
      <3> HIDE DEF B
      <3> QED
        BY <3>1, FS_AddElement DEF B
    <2>5. Cardinality(Lowest(S)) <= Cardinality(Below(m) \cup {m})
      BY <2>3, <2>4, FS_Subset
    <2>6. Cardinality(Lowest(S)) \in Nat /\ Cardinality(Below(m) \cup {m}) \in Nat
      BY <1>2, <1>3, <2>4, FS_Subset, FS_CardinalityType
    <2> QED
      BY <1>1, <1>4, <2>2, <2>4, <2>5, <2>6
  <1> QED
    BY <1>3, <1>5, <1>6, <1>7, <1>8

HeadRequests == [start : Nat, blocks : SUBSET Height, end : Nat]

\* The blocks that the requests sent so far carry, and the block that the next
\* one starts at.
Told(sent) == {x \in Height : \E i \in 1 .. Len(sent) : x \in sent[i].blocks}
Reached(sent, from) == IF sent = <<>> THEN from ELSE sent[Len(sent)].end + 1

\* The requests sent so far meet.
Meets(sent, from) ==
    /\ sent # <<>> => sent[1].start = from
    /\ \A i \in 1 .. Len(sent) : i + 1 <= Len(sent) => sent[i + 1].start = sent[i].end + 1
    /\ \A i \in 1 .. Len(sent) :
          /\ \A x \in sent[i].blocks : sent[i].start <= x /\ x <= sent[i].end
          /\ Cardinality(sent[i].blocks) <= Limit

\* Up to the last request, what is left begins where the last one ended.
ResponseOK(r) ==
    /\ r.todo \in UpdateLeft
    /\ r.sent \in Seq(HeadRequests)
    /\ r.todo \in {<<>>, Update} => r.sent = <<>>
    /\ Meets(r.sent, r.message.from)
    /\ r.todo \in {Update, <<"setHead", "resume", "unmark">>} =>
         /\ r.start = Reached(r.sent, r.message.from)
         /\ \A x \in r.left : r.start <= x /\ x <= r.message.to
         /\ Told(r.sent) \cup r.left = r.message.blocks
    /\ r.todo \in {<<"resume", "unmark">>, <<"unmark">>} =>
         /\ r.sent # <<>> /\ r.sent[Len(r.sent)].end = r.message.to
         /\ Told(r.sent) = r.message.blocks

ResponsesOK == \A s \in Submission : ResponseOK(handler[s])

\* The four lists of calls that are left differ in their lengths.
LEMMA Lengths ==
    /\ Len(Update) = 4 /\ Len(<<"setHead", "resume", "unmark">>) = 3
    /\ Len(<<"resume", "unmark">>) = 2 /\ Len(<<"unmark">>) = 1 /\ Len(<<>>) = 0
    /\ Head(Update) = "find" /\ Head(<<"setHead", "resume", "unmark">>) = "setHead"
    /\ Head(<<"resume", "unmark">>) = "resume" /\ Head(<<"unmark">>) = "unmark"
    /\ Tail(Update) = <<"setHead", "resume", "unmark">>
    /\ Tail(<<"setHead", "resume", "unmark">>) = <<"resume", "unmark">>
    /\ Tail(<<"resume", "unmark">>) = <<"unmark">>
  BY DEF Update

LEMMA NothingSent ==
    ASSUME NEW from PROVE Meets(<<>>, from) /\ Told(<<>>) = {} /\ <<>> \in Seq(HeadRequests)
                          /\ Reached(<<>>, from) = from
  BY DEF Meets, Told, Reached

LEMMA FreeResponse == ResponseOK(Free)
  <1>1. Free.todo = <<>> /\ Free.sent = <<>>
    BY DEF Free
  <1> QED
    BY <1>1, NothingSent, Lengths DEF ResponseOK, UpdateLeft

LEMMA NewResponse ==
    ASSUME NEW a, NEW m \in Response \cup {NoMessage}, NEW n
    PROVE  ResponseOK(Submitted(a, m, n))
  <1> DEFINE r == Submitted(a, m, n)
  <1>1. /\ r.todo = Update /\ r.sent = <<>> /\ r.message = m
        /\ r.start = m.from /\ r.left = m.blocks
    BY DEF Submitted, Free
  <1>2. \A x \in m.blocks : m.from <= x /\ x <= m.to
    BY ServerAssumption DEF NoMessage
  <1> HIDE DEF r
  <1>3. ResponseOK(r)
    BY <1>1, <1>2, NothingSent, Lengths DEF ResponseOK, UpdateLeft
  <1> QED
    BY <1>3 DEF r

LEMMA FailedResponse ==
    ASSUME HandlersOK, NEW s \in Submission, handler[s].todo # <<>>
    PROVE  ResponseOK(Failed(s))
  <1>1. handler[s].message \in Response \cup {NoMessage} /\ s \notin Call
    BY ServerAssumption DEF HandlersOK, HandlerOK, Handler
  <1> QED
    BY <1>1, FreeResponse, NewResponse DEF Failed

\* A response that makes another call, none of them set_account_head.
LEMMA NextResponse ==
    ASSUME NEW r, HandlerOK(r), ResponseOK(r), r.todo # <<>>, Head(r.todo) # "setHead",
           Len(r.todo) # 1
    PROVE  ResponseOK([r EXCEPT !.todo = Tail(r.todo)])
  <1> DEFINE new == [r EXCEPT !.todo = Tail(r.todo)]
  <1>1. /\ new.todo = Tail(r.todo) /\ new.sent = r.sent /\ new.message = r.message
        /\ new.start = r.start /\ new.left = r.left
    BY FreeIs DEF HandlerOK
  <1> HIDE DEF new
  <1>2. ASSUME r.todo = Update PROVE ResponseOK(new)
    <2>1. new.todo = <<"setHead", "resume", "unmark">> /\ new.todo # Update
      BY <1>1, <1>2, Lengths
    <2>2. /\ new.todo \in UpdateLeft
          /\ new.todo \notin {<<>>, <<"resume", "unmark">>, <<"unmark">>}
      BY <2>1, Lengths DEF UpdateLeft
    <2> QED
      BY <1>1, <1>2, <2>1, <2>2 DEF ResponseOK
  <1>3. ASSUME r.todo = <<"resume", "unmark">> PROVE ResponseOK(new)
    <2>1. new.todo = <<"unmark">>
      BY <1>1, <1>3, Lengths
    <2>2. /\ new.todo \in UpdateLeft
          /\ new.todo \notin {<<>>, Update, <<"setHead", "resume", "unmark">>}
      BY <2>1, Lengths DEF UpdateLeft
    <2> QED
      BY <1>1, <1>3, <2>1, <2>2 DEF ResponseOK
  <1>4. r.todo = Update \/ r.todo = <<"resume", "unmark">>
    BY Lengths DEF ResponseOK, UpdateLeft
  <1>5. ResponseOK(new)
    BY <1>2, <1>3, <1>4
  <1> QED
    BY <1>5 DEF new

\* One request more.
LEMMA OneMore ==
    ASSUME NEW sent \in Seq(HeadRequests), NEW q \in HeadRequests, NEW from,
           Meets(sent, from), q.start = Reached(sent, from),
           \A x \in q.blocks : q.start <= x /\ x <= q.end,
           Cardinality(q.blocks) <= Limit
    PROVE  LET new == Append(sent, q)
           IN  /\ new \in Seq(HeadRequests) /\ new # <<>> /\ new[Len(new)] = q
               /\ Meets(new, from)
               /\ Told(new) = Told(sent) \cup q.blocks
               /\ Reached(new, from) = q.end + 1
  <1> DEFINE new == Append(sent, q)
             n == Len(sent)
  <1>1. /\ n \in Nat /\ Len(new) = n + 1 /\ new \in Seq(HeadRequests) /\ new # <<>>
        /\ new[n + 1] = q /\ \A i \in 1 .. n : new[i] = sent[i]
    BY LenProperties, AppendProperties
  <1>2. sent = <<>> <=> n = 0
    BY EmptySeq
  <1> HIDE DEF new, n
  <1>3. Told(new) = Told(sent) \cup q.blocks
    <2>1. q.blocks \subseteq Height
      BY DEF HeadRequests
    <2>2. ASSUME NEW x \in Height
          PROVE  (\E i \in 1 .. n + 1 : x \in new[i].blocks)
                    <=> (\E i \in 1 .. n : x \in sent[i].blocks) \/ x \in q.blocks
      <3>1. \A i : i \in 1 .. n + 1 <=> i \in 1 .. n \/ i = n + 1
        BY <1>1
      <3> QED
        BY <1>1, <3>1
    <2>3. Told(new) = {x \in Height : \E i \in 1 .. n + 1 : x \in new[i].blocks}
      BY <1>1 DEF Told
    <2>4. Told(sent) = {x \in Height : \E i \in 1 .. n : x \in sent[i].blocks}
      BY DEF Told, n
    <2> QED
      BY <2>1, <2>2, <2>3, <2>4
  <1>4. Reached(new, from) = q.end + 1
    BY <1>1 DEF Reached
  <1>5. Meets(new, from)
    <2>1. new[1].start = from
      <3>1. CASE n = 0
        BY <1>1, <1>2, <3>1 DEF Reached
      <3>2. CASE n # 0
        <4>1. new[1] = sent[1]
          BY <1>1, <3>2
        <4> QED
          BY <1>2, <3>2, <4>1 DEF Meets
      <3> QED
        BY <3>1, <3>2
    <2>2. ASSUME NEW i \in 1 .. n + 1, i + 1 <= n + 1
          PROVE  new[i + 1].start = new[i].end + 1
      <3>1. CASE i = n
        <4>1. n # 0 /\ new[i] = sent[n] /\ new[i + 1] = q
          BY <1>1, <3>1
        <4> QED
          BY <1>2, <4>1 DEF Reached, n
      <3>2. CASE i # n
        <4>1. i \in 1 .. n /\ i + 1 \in 1 .. n /\ i + 1 <= n
          BY <1>1, <2>2, <3>2
        <4>2. new[i] = sent[i] /\ new[i + 1] = sent[i + 1]
          BY <1>1, <4>1
        <4> QED
          BY <4>1, <4>2 DEF Meets, n
      <3> QED
        BY <3>1, <3>2
    <2>3. ASSUME NEW i \in 1 .. n + 1
          PROVE  /\ \A x \in new[i].blocks : new[i].start <= x /\ x <= new[i].end
                 /\ Cardinality(new[i].blocks) <= Limit
      <3>1. CASE i = n + 1
        BY <1>1, <3>1
      <3>2. CASE i # n + 1
        <4>1. i \in 1 .. n /\ new[i] = sent[i]
          BY <1>1, <3>2
        <4> QED
          BY <4>1 DEF Meets, n
      <3> QED
        BY <3>1, <3>2
    <2> QED
      BY <1>1, <2>1, <2>2, <2>3 DEF Meets
  <1> QED
    BY <1>1, <1>3, <1>4, <1>5 DEF new

\* set_account_head: the request takes the lowest blocks, and starts where the
\* one before it has ended.
LEMMA AskedResponse ==
    ASSUME NEW r, HandlerOK(r), ResponseOK(r), r.todo # <<>>, Head(r.todo) = "setHead"
    PROVE  LET request == HeadRequest(r)
               rest == r.left \ request.blocks
           IN  /\ rest # {} => ResponseOK(
                    [r EXCEPT !.left = rest, !.sent = Append(@, request),
                              !.start = StartAfter(Highest(request.blocks))])
               /\ rest = {} => ResponseOK(
                    [r EXCEPT !.left = {}, !.sent = Append(@, request), !.todo = Tail(@)])
  <1> DEFINE q == HeadRequest(r)
             rest == r.left \ q.blocks
             sent == Append(r.sent, q)
             more == [r EXCEPT !.left = rest, !.sent = sent,
                               !.start = StartAfter(Highest(q.blocks))]
             last == [r EXCEPT !.left = {}, !.sent = sent, !.todo = Tail(r.todo)]
             from == r.message.from
             to == r.message.to
  <1>1. /\ r.todo = <<"setHead", "resume", "unmark">> /\ Tail(r.todo) = <<"resume", "unmark">>
        /\ Tail(r.todo) \in UpdateLeft
        /\ Tail(r.todo) \notin {<<>>, Update, <<"setHead", "resume", "unmark">>}
        /\ r.todo \notin {<<>>, Update, <<"resume", "unmark">>, <<"unmark">>}
    <2>1. r.todo = <<"setHead", "resume", "unmark">>
      <3>1. \/ r.todo = Update \/ r.todo = <<"setHead", "resume", "unmark">>
            \/ r.todo = <<"resume", "unmark">> \/ r.todo = <<"unmark">>
        BY DEF ResponseOK, UpdateLeft
      <3> QED
        BY <3>1, Lengths
    <2>2. Tail(r.todo) = <<"resume", "unmark">>
      BY <2>1, Lengths
    <2>3. Tail(r.todo) \in UpdateLeft
      BY <2>2 DEF UpdateLeft
    <2>4. Len(r.todo) = 3 /\ Len(Tail(r.todo)) = 2
      BY <2>1, <2>2, Lengths
    <2>5. r.todo # Update /\ Tail(r.todo) # Update
      BY <2>4, Lengths
    <2>6. /\ r.todo # <<>> /\ r.todo # <<"resume", "unmark">> /\ r.todo # <<"unmark">>
          /\ Tail(r.todo) # <<>> /\ Tail(r.todo) # <<"setHead", "resume", "unmark">>
      BY <2>1, <2>2
    <2> QED
      BY <2>1, <2>2, <2>3, <2>5, <2>6
  <1>2. /\ r.sent \in Seq(HeadRequests) /\ Meets(r.sent, from)
        /\ r.start = Reached(r.sent, from)
        /\ \A x \in r.left : r.start <= x /\ x <= to
        /\ Told(r.sent) \cup r.left = r.message.blocks
    BY <1>1 DEF ResponseOK
  <1>3. from \in Nat /\ to \in Nat /\ r.left \subseteq Height /\ Height \subseteq Nat
    BY ServerAssumption DEF HandlerOK, NoMessage, Height
  <1>4. r.start \in Nat
    <2>1. CASE r.sent = <<>>
      BY <1>2, <1>3, <2>1 DEF Reached
    <2>2. CASE r.sent # <<>>
      <3>1. r.sent[Len(r.sent)] \in HeadRequests
        BY <1>2, <2>2, LenProperties, EmptySeq
      <3> QED
        BY <1>2, <2>2, <3>1 DEF Reached, HeadRequests
    <2> QED
      BY <2>1, <2>2
  <1>5. /\ q.start = r.start /\ q.blocks = Lowest(r.left)
        /\ q.end = IF rest # {} THEN Highest(q.blocks) ELSE to
        /\ q = [start |-> q.start, blocks |-> q.blocks, end |-> q.end]
    BY DEF HeadRequest
  <1>6. /\ q.blocks \subseteq r.left
        /\ rest # {} => /\ Highest(q.blocks) \in q.blocks
                        /\ \A x \in q.blocks : x <= Highest(q.blocks)
                        /\ \A x \in rest : x > Highest(q.blocks)
        /\ Cardinality(q.blocks) <= Limit
    BY <1>3, <1>5, Batch
  <1>7. \A x \in q.blocks : q.start <= x /\ x <= q.end
    BY <1>2, <1>5, <1>6
  <1>8. q \in HeadRequests
    <2>1. q.end \in Nat /\ q.start \in Nat /\ q.blocks \in SUBSET Height
      BY <1>3, <1>4, <1>5, <1>6
    <2> QED
      BY <1>5, <2>1 DEF HeadRequests
  <1> HIDE DEF q
  <1>9. /\ sent \in Seq(HeadRequests) /\ sent # <<>> /\ sent[Len(sent)] = q
        /\ Meets(sent, from) /\ Told(sent) = Told(r.sent) \cup q.blocks
        /\ Reached(sent, from) = q.end + 1
    BY <1>2, <1>5, <1>6, <1>7, <1>8, OneMore
  <1> HIDE DEF sent
  <1>10. ASSUME rest # {} PROVE ResponseOK(more)
    <2>1. /\ more.todo = r.todo /\ more.sent = sent /\ more.message = r.message
          /\ more.left = rest /\ more.start = q.end + 1
      BY <1>5, <1>10, FreeIs DEF HandlerOK, StartAfter
    <2>2. \A x \in rest : q.end + 1 <= x /\ x <= to
      <3>1. ASSUME NEW x \in rest PROVE q.end + 1 <= x /\ x <= to
        <4>1. x \in Nat /\ q.end \in Nat /\ x > q.end /\ x <= to
          BY <1>2, <1>3, <1>5, <1>6, <1>8, <1>10 DEF HeadRequests
        <4> QED
          BY <4>1
      <3> QED
        BY <3>1
    <2>3. Told(sent) \cup rest = r.message.blocks
      BY <1>2, <1>6, <1>9
    <2> HIDE DEF more
    <2> QED
      BY <1>1, <1>2, <1>9, <2>1, <2>2, <2>3 DEF ResponseOK, UpdateLeft
  <1>11. ASSUME rest = {} PROVE ResponseOK(last)
    <2>1. /\ last.todo = <<"resume", "unmark">> /\ last.sent = sent
          /\ last.message = r.message /\ last.left = {}
      BY <1>1, FreeIs DEF HandlerOK
    <2>2. Told(sent) = r.message.blocks /\ q.end = to
      BY <1>2, <1>5, <1>6, <1>9, <1>11
    <2> HIDE DEF last
    <2> QED
      BY <1>1, <1>9, <2>1, <2>2 DEF ResponseOK
  <1> QED
    BY <1>10, <1>11 DEF more, last, sent, q

----------------------------------------------------------------------------
(* The requests meet, whatever else happens.                               *)

\* Only h moves.
LEMMA OneResponse ==
    ASSUME ResponsesOK, NEW h \in Handler, OnlyOne(h),
           h \in Submission => ResponseOK(handler'[h])
    PROVE  ResponsesOK'
  <1> SUFFICES ASSUME NEW s \in Submission PROVE ResponseOK(handler'[s])
    BY DEF ResponsesOK, ResponseOK, Meets, Told, Reached
  <1>1. CASE s = h
    BY <1>1
  <1>2. CASE s # h
    BY <1>2 DEF ResponsesOK, OnlyOne, Handler
  <1> QED
    BY <1>1, <1>2

LEMMA StepResponses ==
    ASSUME IInv, ResponsesOK, NEW h \in Handler, Step(h)
    PROVE  ResponsesOK'
  <1> DEFINE r == handler[h]
  <1>1. /\ HandlersOK /\ DOMAIN handler = Handler /\ OnlyOne(h)
        /\ r.todo # <<>> /\ HandlerOK(r)
    BY StepMovesOne DEF IInv, HandlersOK
  <1> SUFFICES ASSUME h \in Submission PROVE ResponseOK(handler'[h])
    BY <1>1, OneResponse
  <1>2. ResponseOK(r) /\ h \notin Call
    BY ServerAssumption DEF ResponsesOK
  <1>3. ASSUME Fail(h) PROVE ResponseOK(handler'[h])
    <2>1. handler'[h] = Failed(h)
      BY <1>1, <1>3 DEF Fail
    <2> QED
      BY <1>1, <2>1, FailedResponse
  <1>4. ASSUME handler' = [handler EXCEPT ![h] = Done(h)] PROVE ResponseOK(handler'[h])
    <2>1. handler'[h] = Free
      BY <1>1, <1>2, <1>4 DEF Done
    <2> QED
      BY <2>1, FreeResponse
  <1>5. CASE SetAccountHead(h)
    <2> DEFINE q == HeadRequest(r)
               rest == r.left \ q.blocks
               more == [r EXCEPT !.left = rest, !.sent = Append(@, q),
                                 !.start = StartAfter(Highest(q.blocks))]
               last == [r EXCEPT !.left = {}, !.sent = Append(@, q), !.todo = Tail(@)]
    <2>1. /\ Head(r.todo) = "setHead"
          /\ \/ rest # {} /\ handler' = [handler EXCEPT ![h] = more]
             \/ rest = {} /\ handler' = [handler EXCEPT ![h] = last]
             \/ Fail(h)
      BY <1>5 DEF SetAccountHead, At
    <2>2. /\ rest # {} => ResponseOK(more)
          /\ rest = {} => ResponseOK(last)
      BY <1>1, <1>2, <2>1, AskedResponse
    <2> HIDE DEF more, last, rest
    <2>3. ASSUME NEW new, handler' = [handler EXCEPT ![h] = new] PROVE handler'[h] = new
      BY <1>1, <2>3
    <2> QED
      BY <1>3, <2>1, <2>2, <2>3
  <1>6. CASE ~ SetAccountHead(h)
    <2>1. Head(r.todo) # "setHead" /\ Forward(h)
      BY <1>6, CallsForward DEF Step
    <2>2. ASSUME Proceed(h), Len(r.todo) # 1 PROVE ResponseOK(handler'[h])
      <3>1. handler'[h] = [r EXCEPT !.todo = Tail(r.todo)]
        BY <1>1, <2>2 DEF Proceed
      <3> QED
        BY <1>1, <1>2, <2>1, <2>2, <3>1, NextResponse
    <2>3. ASSUME Proceed(h), Len(r.todo) = 1 PROVE ResponseOK(handler'[h])
      BY <1>4, <2>3 DEF Proceed
    <2> QED
      BY <1>3, <1>4, <2>1, <2>2, <2>3 DEF Forward
  <1> QED
    BY <1>5, <1>6

\* Only the number of tries is another one.
LEMMA TriesResponse ==
    ASSUME NEW r, HandlerOK(r), ResponseOK(r)
    PROVE  ResponseOK([r EXCEPT !.tries = 1])
  <1> DEFINE new == [r EXCEPT !.tries = 1]
  <1>1. /\ new.todo = r.todo /\ new.sent = r.sent /\ new.message = r.message
        /\ new.start = r.start /\ new.left = r.left
    BY FreeIs DEF HandlerOK
  <1> HIDE DEF new
  <1>2. ResponseOK(new)
    BY <1>1 DEF ResponseOK
  <1> QED
    BY <1>2 DEF new

LEMMA NextResponses == IInv /\ ResponsesOK /\ [Next]_vars => ResponsesOK'
  <1> SUFFICES ASSUME IInv, ResponsesOK, [Next]_vars PROVE ResponsesOK'
    OBVIOUS
  <1>1. /\ HandlersOK /\ DOMAIN handler = Handler
        /\ \A s \in Submission : /\ s \in Handler /\ s \notin Call
                                 /\ HandlerOK(handler[s]) /\ ResponseOK(handler[s])
    BY ServerAssumption DEF IInv, HandlersOK, ResponsesOK, Handler
  <1>2. ASSUME \A s \in Submission : ResponseOK(handler'[s]) PROVE ResponsesOK'
    BY <1>2 DEF ResponsesOK, ResponseOK, Meets, Told, Reached
  <1>3. CASE UNCHANGED handler
    BY <1>1, <1>2, <1>3
  <1>4. ASSUME NEW c \in Call, NEW a \in Address, Receive(c, a) PROVE ResponsesOK'
    <2>1. \A s \in Submission : handler'[s] = handler[s]
      BY <1>1, <1>4 DEF Receive
    <2> QED
      BY <1>1, <1>2, <2>1
  <1>5. ASSUME NEW s \in Submission, NEW a \in Address, NEW m \in Response,
               FinishScan(s, a, m)
        PROVE  ResponsesOK'
    <2>1. \A g \in Submission : handler'[g] \in {handler[g], Submitted(a, m, MaxTries)}
      BY <1>1, <1>5 DEF FinishScan
    <2> QED
      BY <1>1, <1>2, <2>1, NewResponse
  <1>6. ASSUME NEW s \in Submission, NEW other \in Submission, SubmitAgain(s, other)
        PROVE  ResponsesOK'
    <2> DEFINE old == [handler[s] EXCEPT !.tries = 1]
               new == Submitted(Account(s), handler[s].message, handler[s].tries - 1)
    <2>1. handler' = [handler EXCEPT ![s] = old, ![other] = new]
      BY <1>6 DEF SubmitAgain
    <2>2. ResponseOK(old) /\ ResponseOK(new)
      <3>1. handler[s].message \in Response \cup {NoMessage}
        BY <1>1 DEF HandlerOK
      <3> QED
        BY <1>1, <3>1, TriesResponse, NewResponse
    <2> HIDE DEF old, new
    <2>3. \A g \in Submission : handler'[g] \in {handler[g], old, new}
      BY <1>1, <2>1
    <2> QED
      BY <1>1, <1>2, <2>2, <2>3
  <1>7. CASE ServerCrash
    <2>1. \A g \in Submission : handler'[g] =
                IF handler[g].todo # <<>> THEN Failed(g) ELSE handler[g]
      BY <1>1, <1>7 DEF ServerCrash
    <2> QED
      BY <1>1, <1>2, <2>1, FailedResponse
  <1>8. CASE ScannerCrash
    <2>1. \A g \in Submission : handler'[g] \in {[handler[g] EXCEPT !.tries = 1], handler[g]}
      BY <1>1, <1>8 DEF ScannerCrash
    <2> QED
      BY <1>1, <1>2, <2>1, TriesResponse
  <1>9. ASSUME NEW h \in Handler, Step(h) PROVE ResponsesOK'
    BY <1>9, StepResponses
  <1> QED
    BY <1>3, <1>4, <1>5, <1>6, <1>7, <1>8, <1>9 DEF Next, MergeScans, vars

LEMMA ResponseMeets ==
    ASSUME HandlersOK, ResponsesOK
    PROVE  HeadsMeet
  <1> SUFFICES ASSUME NEW s \in Submission, handler[s].sent # <<>>
               PROVE  LET sent == handler[s].sent
                      IN  /\ sent[1].start = handler[s].message.from
                          /\ \A i \in 1 .. Len(sent) - 1 :
                                sent[i + 1].start = sent[i].end + 1
                          /\ \A i \in DOMAIN sent :
                                /\ sent[i].blocks \subseteq (sent[i].start .. sent[i].end)
                                /\ Cardinality(sent[i].blocks) <= Limit
                          /\ ~ At(s, "setHead") =>
                                /\ sent[Len(sent)].end = handler[s].message.to
                                /\ UNION {sent[i].blocks : i \in DOMAIN sent}
                                      = handler[s].message.blocks
    BY DEF HeadsMeet
  <1> DEFINE r == handler[s]
             sent == r.sent
             n == Len(sent)
  <1>1. /\ ResponseOK(r) /\ sent \in Seq(HeadRequests) /\ n \in Nat
        /\ DOMAIN sent = 1 .. n
    BY LenProperties DEF ResponsesOK, ResponseOK
  <1>2. Meets(sent, r.message.from)
    BY <1>1 DEF ResponseOK
  <1>3. sent[1].start = r.message.from
    BY <1>2 DEF Meets
  <1> HIDE DEF n
  <1>4. ASSUME NEW i \in 1 .. n - 1 PROVE sent[i + 1].start = sent[i].end + 1
    <2>1. i \in 1 .. n /\ i + 1 <= n
      BY <1>1
    <2> QED
      BY <1>2, <2>1 DEF Meets, n
  <1>5. ASSUME NEW i \in 1 .. n
        PROVE  /\ sent[i].blocks \subseteq (sent[i].start .. sent[i].end)
               /\ Cardinality(sent[i].blocks) <= Limit
    <2>1. sent[i] \in HeadRequests
      BY <1>1
    <2>2. sent[i].blocks \subseteq Nat /\ sent[i].start \in Nat /\ sent[i].end \in Nat
      BY <2>1, ServerAssumption DEF HeadRequests, Height
    <2>3. /\ \A x \in sent[i].blocks : sent[i].start <= x /\ x <= sent[i].end
          /\ Cardinality(sent[i].blocks) <= Limit
      BY <1>2 DEF Meets, n
    <2> QED
      BY <2>2, <2>3
  <1>6. ASSUME ~ At(s, "setHead")
        PROVE  /\ sent[n].end = r.message.to
               /\ UNION {sent[i].blocks : i \in 1 .. n} = r.message.blocks
    <2>1. r.todo \in {<<"resume", "unmark">>, <<"unmark">>}
      <3>1. r.todo \notin {<<>>, Update}
        BY <1>1 DEF ResponseOK
      <3>2. r.todo # <<"setHead", "resume", "unmark">>
        BY <1>6, <3>1, Lengths DEF At
      <3> QED
        BY <1>1, <3>1, <3>2 DEF ResponseOK, UpdateLeft
    <2>2. sent[n].end = r.message.to /\ Told(sent) = r.message.blocks
      BY <1>1, <2>1 DEF ResponseOK, n
    <2>3. UNION {sent[i].blocks : i \in 1 .. n} = Told(sent)
      <3>1. \A i \in 1 .. n : sent[i].blocks \subseteq Height
        <4>1. \A i \in 1 .. n : sent[i] \in HeadRequests
          BY <1>1
        <4> QED
          BY <4>1 DEF HeadRequests
      <3>2. Told(sent) = {x \in Height : \E i \in 1 .. n : x \in sent[i].blocks}
        BY DEF Told, n
      <3> QED
        BY <3>1, <3>2
    <2> QED
      BY <2>2, <2>3
  <1> QED
    BY <1>1, <1>3, <1>4, <1>5, <1>6 DEF n

LEMMA Responses == Spec => []ResponsesOK
  <1>1. Init => ResponsesOK
    BY FreeResponse DEF Init, ResponsesOK, Handler
  <1> QED
    BY <1>1, Invariant, NextResponses, PTL DEF Spec

\* The requests that set the head for one response start at its first block,
\* follow each other without a gap or an overlap, hold at most Limit blocks
\* each, and together tell the node every block of it.
THEOREM RequestsMeet == Spec => []HeadsMeet
  <1>1. IInv /\ ResponsesOK => HeadsMeet
    BY ResponseMeets DEF IInv
  <1> QED
    BY <1>1, Responses, Invariant, PTL
=============================================================================
