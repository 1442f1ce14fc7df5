-------------------------- MODULE AccountHeadProofs --------------------------
(***************************************************************************)
(* Theorems about AccountHead: for any accounts, clients, submissions and  *)
(* length of the chain, every behaviour is one of AccountServer, no block  *)
(* below an account's head is left out, except one that a scan itself has  *)
(* passed over and after a head that was read before a reset has been set, *)
(* and no height passes the chain.                                         *)
(***************************************************************************)
EXTENDS AccountHead, AccountServerProofs

\* What a handler that has read the head may have left.
AfterStatus == {<<"pause", "reset", "submit">>, <<"reset", "submit">>, <<"submit">>}
Requests == [by : Handler, head : Nat, fresh : BOOLEAN]

HeightsOK ==
    /\ chain \in Nat
    /\ head \in [Address -> Nat] /\ seen \in [Address -> SUBSET Nat]
    /\ missed \in [Address -> SUBSET Nat]
    /\ local \in [Handler -> [latest : Nat, head : Nat]]
    /\ request \in [Address -> SUBSET Requests]
    /\ fresh \subseteq Handler

PlansOK ==
    /\ \A h \in Handler : handler[h].start \in Nat
    /\ \A s \in Submission : handler[s].todo \in UpdateLeft

\* The blocks up to n were looked at or passed over by a scan, if the account has
\* not gone astray.
Looked(a, n) == a \in astray \/ 1 .. n \subseteq seen[a] \cup missed[a]

\* What a fresh handler or request knows of an account is true: the head it
\* has read, the block its response starts at, the chunks it has set.
FreshOK(h) ==
    /\ handler[h].todo # <<>>
    /\ h \in Call => /\ handler[h].todo \in AfterStatus
                     /\ Looked(Account(h), local[h].head)
    /\ h \in Submission => /\ Looked(Account(h), handler[h].message.from)
                           /\ Looked(Account(h), handler[h].start - 1)

FreshIsLooked ==
    /\ \A h \in fresh : FreshOK(h)
    /\ \A a \in Address : \A r \in request[a] : r.fresh => Looked(a, r.head)

HInv == IInv /\ HeightsOK /\ PlansOK /\ FreshIsLooked /\ HeadIsCovered

----------------------------------------------------------------------------
(* The order of the calls.                                                 *)

LEMMA AfterStatusIs ==
    ASSUME NEW todo \in AfterStatus
    PROVE  /\ todo # <<>>
           /\ Tail(todo) = <<>> \/ Tail(todo) \in AfterStatus
           /\ Len(todo) # 1 => Tail(todo) # <<>>
           /\ Head(todo) \in {"pause", "reset", "submit"}
           /\ Head(todo) = "reset" => todo = <<"reset", "submit">>
  <1>1. CASE todo = <<"pause", "reset", "submit">>
    <2>1. Tail(todo) = <<"reset", "submit">> /\ Head(todo) = "pause"
      BY <1>1
    <2> QED
      BY <1>1, <2>1 DEF AfterStatus
  <1>2. CASE todo = <<"reset", "submit">>
    <2>1. Tail(todo) = <<"submit">> /\ Head(todo) = "reset"
      BY <1>2
    <2> QED
      BY <1>2, <2>1 DEF AfterStatus
  <1>3. CASE todo = <<"submit">>
    <2>1. Tail(todo) = <<>> /\ Head(todo) = "submit" /\ Len(todo) = 1
      BY <1>3
    <2> QED
      BY <1>3, <2>1
  <1> QED
    BY <1>1, <1>2, <1>3 DEF AfterStatus

\* Sequences of one and three calls.
LEMMA OfOne ==
    ASSUME NEW S, NEW s \in Seq(S), Len(s) = 1 PROVE s = <<s[1]>>
  OBVIOUS
LEMMA OfThree ==
    ASSUME NEW S, NEW s \in Seq(S), Len(s) = 3 PROVE s = <<s[1], s[2], s[3]>>
  OBVIOUS

\* What comes after the call that reads the head.
LEMMA StatusIsBefore ==
    ASSUME NEW todo \in Todo, todo # <<>>, Head(todo) = "status"
    PROVE  Tail(todo) \in AfterStatus
  <1>1. PICK plan \in Plans : todo \in Left(plan)
    BY DEF Todo
  <1> DEFINE n == Len(plan)
  <1>2. PICK i \in 1 .. n + 1 : todo = SubSeq(plan, i, n)
    BY <1>1 DEF Left
  <1>3. plan \in Seq(Calls) /\ n \in Nat \ {0}
    BY Linked
  <1>4. /\ todo \in Seq(Calls) /\ Len(todo) = n + 1 - i
        /\ \A k \in 1 .. n + 1 - i : todo[k] = plan[i + k - 1]
    BY <1>2, <1>3, Suffix
  <1>5. i \in 1 .. n /\ plan[i] = "status"
    BY <1>3, <1>4, EmptySeq
  <1>6. /\ Tail(todo) \in Seq(Calls) /\ Len(Tail(todo)) = n - i
        /\ \A k \in 1 .. n - i : Tail(todo)[k] = plan[i + k]
    BY <1>3, <1>4, <1>5, HeadTailProperties
  <1> HIDE DEF n
  <1>7. CASE plan = Import
    <2>1. n = 8 /\ i = 5 /\ plan[6] = "pause" /\ plan[7] = "reset" /\ plan[8] = "submit"
      BY <1>5, <1>7 DEF Import, n
    <2>2. Len(Tail(todo)) = 3 /\ 1 \in 1 .. n - i /\ 2 \in 1 .. n - i /\ 3 \in 1 .. n - i
      BY <2>1, <1>6
    <2>3. /\ Tail(todo)[1] = plan[i + 1] /\ Tail(todo)[2] = plan[i + 2]
          /\ Tail(todo)[3] = plan[i + 3]
      BY <2>2, <1>6
    <2>4. plan[i + 1] = "pause" /\ plan[i + 2] = "reset" /\ plan[i + 3] = "submit"
      BY <2>1
    <2>5. Tail(todo) = <<Tail(todo)[1], Tail(todo)[2], Tail(todo)[3]>>
      BY <2>2, <1>6, OfThree
    <2>6. Tail(todo) = <<"pause", "reset", "submit">>
      BY <2>3, <2>4, <2>5, Zenon
    <2> QED
      BY <2>6 DEF AfterStatus
  <1>8. CASE plan = Rescan
    <2>1. n = 7 /\ i = 6 /\ plan[7] = "submit"
      BY <1>5, <1>8 DEF Rescan, n
    <2>2. Len(Tail(todo)) = 1 /\ 1 \in 1 .. n - i
      BY <2>1, <1>6
    <2>3. Tail(todo)[1] = plan[i + 1]
      BY <2>2, <1>6
    <2>4. plan[i + 1] = "submit"
      BY <2>1
    <2>5. Tail(todo) = <<Tail(todo)[1]>>
      BY <2>2, <1>6, OfOne
    <2>6. Tail(todo) = <<"submit">>
      BY <2>3, <2>4, <2>5, Zenon
    <2> QED
      BY <2>6 DEF AfterStatus
  <1>9. CASE plan \in {Remove, Update}
    BY <1>5, <1>9 DEF Remove, Update, n
  <1> QED
    BY <1>7, <1>8, <1>9 DEF Plans

----------------------------------------------------------------------------
(* What a step makes of a fresh handler.                                   *)

Continues(g) ==
    /\ handler'[g].todo # <<>>
    /\ handler'[g].account = handler[g].account
    /\ handler'[g].message = handler[g].message
    /\ handler'[g].start \in {handler[g].start, handler[g].message.from}
    /\ g \in Call => handler'[g].todo \in AfterStatus

\* A handler that fails.
LEMMA FailedIs ==
    ASSUME HandlersOK, NEW h \in Handler, handler[h].todo # <<>>
    PROVE  /\ Failed(h).start \in Nat
           /\ h \in Submission => Failed(h).todo \in UpdateLeft
           /\ h \in Call => Failed(h).todo = <<>>
           /\ Failed(h).todo # <<>> =>
                /\ h \notin Call
                /\ Failed(h).account = handler[h].account
                /\ Failed(h).message = handler[h].message
                /\ Failed(h).start = handler[h].message.from
  <1>1. h \in Submission => h \notin Call
    BY ServerAssumption
  <1>2. CASE h \in Call
    BY <1>1, <1>2, AnsweredIs DEF Failed
  <1>3. CASE h \notin Call /\ handler[h].tries > 1
    BY <1>3, SubmittedIs, MessageIs DEF Failed, UpdateLeft
  <1>4. CASE h \notin Call /\ ~ handler[h].tries > 1
    BY <1>4, FreeIs DEF Failed, UpdateLeft
  <1> QED
    BY <1>2, <1>3, <1>4

LEMMA ForwardKeeps ==
    ASSUME IInv, PlansOK, NEW h \in Handler, handler[h].todo # <<>>, Forward(h)
    PROVE  /\ PlansOK'
           /\ \A g \in Handler : FreshOK(g) /\ handler'[g].todo # <<>> => Continues(g)
  <1> DEFINE r == handler[h]
  <1>1. /\ HandlersOK /\ DOMAIN handler = Handler /\ HandlerOK(r)
        /\ h \in Call \/ h \in Submission
        /\ \A s \in Submission : s \in Handler /\ s \notin Call
    BY ServerAssumption DEF IInv, HandlersOK, Handler
  <1>2. ASSUME NEW new, handler' = [handler EXCEPT ![h] = new], new.start \in Nat,
               h \in Submission => new.todo \in UpdateLeft,
               FreshOK(h) /\ new.todo # <<>> =>
                    /\ new.account = r.account /\ new.message = r.message
                    /\ new.start \in {r.start, r.message.from}
                    /\ h \in Call => new.todo \in AfterStatus
        PROVE  /\ PlansOK'
               /\ \A g \in Handler : FreshOK(g) /\ handler'[g].todo # <<>> => Continues(g)
    <2>1. handler'[h] = new /\ \A g \in Handler \ {h} : handler'[g] = handler[g]
      BY <1>1, <1>2
    <2>2. PlansOK'
      BY <1>1, <1>2, <2>1 DEF PlansOK
    <2>3. \A g \in Handler \ {h} : FreshOK(g) => Continues(g)
      BY <2>1 DEF FreshOK, Continues
    <2>4. FreshOK(h) /\ handler'[h].todo # <<>> => Continues(h)
      BY <1>2, <2>1 DEF Continues
    <2> QED
      BY <2>2, <2>3, <2>4
  <1>3. Done(h).start \in Nat /\ Done(h).todo = <<>>
    BY AnsweredIs, FreeIs DEF Done
  <1>4. CASE handler' = [handler EXCEPT ![h] = Done(h)]
    BY <1>2, <1>3, <1>4 DEF UpdateLeft
  <1>5. CASE Fail(h)
    <2>1. handler' = [handler EXCEPT ![h] = Failed(h)]
      BY <1>5 DEF Fail
    <2> QED
      BY <1>1, <1>2, <2>1, FailedIs
  <1>6. CASE Proceed(h) /\ Len(r.todo) # 1
    <2> DEFINE new == [r EXCEPT !.todo = Tail(r.todo)]
    <2>1. handler' = [handler EXCEPT ![h] = new]
      BY <1>6 DEF Proceed
    <2>2. /\ new.todo = Tail(r.todo) /\ new.account = r.account
          /\ new.message = r.message /\ new.start = r.start
      BY <1>1, FreeIs DEF HandlerOK
    <2> HIDE DEF new
    <2>3. h \in Submission => new.todo \in UpdateLeft
      BY <2>2, UpdateLeftIs DEF PlansOK
    <2>4. FreshOK(h) /\ h \in Call => new.todo \in AfterStatus
      BY <1>6, <2>2, AfterStatusIs DEF FreshOK
    <2>5. new.start \in Nat
      BY <2>2 DEF PlansOK
    <2> QED
      BY <1>2, <2>1, <2>2, <2>3, <2>4, <2>5
  <1>7. CASE Proceed(h) /\ Len(r.todo) = 1
    BY <1>4, <1>7 DEF Proceed
  <1> QED
    BY <1>4, <1>5, <1>6, <1>7 DEF Forward

----------------------------------------------------------------------------
(* What a step makes of what the fresh ones know.                          *)

\* No block is forgotten.
Widens(a) ==
    /\ a \in astray => a \in astray'
    /\ seen[a] \cup missed[a] \subseteq seen'[a] \cup missed'[a]

LEMMA StillLooked ==
    ASSUME NEW a \in Address, NEW n, Looked(a, n), Widens(a)
    PROVE  a \in astray' \/ 1 .. n \subseteq seen'[a] \cup missed'[a]
  BY DEF Looked, Widens

\* The fresh handlers that go on.
LEMMA FreshStays ==
    ASSUME IInv, PlansOK, NEW h \in Handler, FreshOK(h), Continues(h),
           Widens(Account(h)), local'[h].head = local[h].head
    PROVE  FreshOK(h)'
  <1> DEFINE r == handler[h]
             a == Account(h)
             from == r.message.from
  <1>1. a \in Address /\ from \in Nat /\ r.start \in Nat
    BY HasAccount, MessageIs DEF IInv, FreshOK, PlansOK
  <1>2. /\ handler'[h].account = a /\ handler'[h].message = r.message
        /\ handler'[h].start \in {r.start, from}
        /\ handler'[h].todo # <<>>
        /\ h \in Call => handler'[h].todo \in AfterStatus
    BY DEF Continues, Account
  <1>3. ASSUME h \in Call
        PROVE  a \in astray' \/ 1 .. local'[h].head \subseteq seen'[a] \cup missed'[a]
    <2>1. Looked(a, local[h].head)
      BY <1>3 DEF FreshOK
    <2> QED
      BY <1>1, <2>1, StillLooked
  <1>4. ASSUME h \in Submission
        PROVE  /\ a \in astray' \/ 1 .. from \subseteq seen'[a] \cup missed'[a]
               /\ a \in astray' \/ 1 .. handler'[h].start - 1 \subseteq seen'[a] \cup missed'[a]
    <2>1. Looked(a, from) /\ Looked(a, r.start - 1)
      BY <1>4 DEF FreshOK
    <2>2. /\ a \in astray' \/ 1 .. from \subseteq seen'[a] \cup missed'[a]
          /\ a \in astray' \/ 1 .. r.start - 1 \subseteq seen'[a] \cup missed'[a]
      BY <1>1, <2>1, StillLooked
    <2>3. 1 .. from - 1 \subseteq 1 .. from
      BY <1>1
    <2> QED
      BY <1>2, <2>2, <2>3
  <1> QED
    BY <1>2, <1>3, <1>4 DEF FreshOK, Looked, Account

\* The handlers after a step.
LEMMA LocalsAre ==
    ASSUME NEW new \in [Handler -> [latest : Nat, head : Nat]],
           NEW read \in SUBSET Handler, Locals(new, read)
    PROVE  /\ local' \in [Handler -> [latest : Nat, head : Nat]]
           /\ fresh' \subseteq read
           /\ \A h \in fresh' : local'[h] = new[h] /\ handler'[h].todo # <<>>
  <1>1. NoLocal \in [latest : Nat, head : Nat]
    BY DEF NoLocal
  <1> QED
    BY <1>1 DEF Locals

----------------------------------------------------------------------------
(* The invariant is kept.                                                  *)

\* Steps that leave heads and blocks alone, and add nothing fresh.
LEMMA QuietStep ==
    ASSUME HInv, IInv', PlansOK', HeightsOK', UNCHANGED <<head, seen, missed, astray>>,
           node'.accounts \subseteq node.accounts, fresh' \subseteq fresh,
           \A h \in fresh' : Continues(h) /\ local'[h].head = local[h].head,
           \A a \in Address : request'[a] \subseteq request[a]
    PROVE  HInv'
  <1>1. \A a \in Address : Widens(a)
    BY DEF Widens
  <1>2. ASSUME NEW h \in fresh' PROVE FreshOK(h)'
    <2>1. h \in Handler /\ h \in fresh /\ FreshOK(h)
      BY <1>2 DEF HInv, HeightsOK, FreshIsLooked
    <2>2. Account(h) \in Address
      BY <2>1, HasAccount DEF HInv, IInv, FreshOK
    <2> QED
      BY <1>1, <1>2, <2>1, <2>2, FreshStays DEF HInv
  <1>3. \A a \in Address : \A r \in request'[a] : r.fresh => Looked(a, r.head)'
    BY DEF HInv, FreshIsLooked, Looked
  <1>4. HeadIsCovered'
    BY DEF HInv, HeadIsCovered
  <1> QED
    BY <1>2, <1>3, <1>4 DEF HInv, FreshIsLooked

LEMMA StaleIs ==
    ASSUME NEW S, S \subseteq Requests
    PROVE  /\ Stale(S) \subseteq Requests
           /\ \A r \in Stale(S) : ~ r.fresh
  <1>1. ASSUME NEW r \in Requests
        PROVE  /\ [r EXCEPT !.fresh = FALSE] \in Requests
               /\ ~ [r EXCEPT !.fresh = FALSE].fresh
    BY DEF Requests
  <1> QED
    BY <1>1 DEF Stale

\* An account starts again.
LEMMA RestartStep ==
    ASSUME HInv, IInv', PlansOK', UNCHANGED chain, NEW h \in Handler,
           handler[h].todo # <<>>, h \in fresh => ImportResets(h),
           node'.accounts \subseteq node.accounts \cup {Account(h)},
           \A g \in Handler : FreshOK(g) /\ handler'[g].todo # <<>> => Continues(g),
           Restart(Account(h), h)
    PROVE  HInv'
  <1> DEFINE a == Account(h)
             read == fresh \ (Of(a) \ IF ImportResets(h) THEN {} ELSE {h})
  <1>1. a \in Address
    BY HasAccount DEF HInv, IInv
  <1>2. /\ head' = [head EXCEPT ![a] = 1] /\ seen' = [seen EXCEPT ![a] = {1}]
        /\ missed' = [missed EXCEPT ![a] = {}]
        /\ request' = [request EXCEPT ![a] = Stale(request[a])]
        /\ astray' = astray \ {a} /\ Locals(local, read)
    BY DEF Restart
  <1>3. read \in SUBSET Handler /\ read \subseteq fresh
        /\ \A g \in read : Account(g) # a
    BY DEF Of, HInv, HeightsOK
  <1> HIDE DEF read
  <1>4. /\ local' \in [Handler -> [latest : Nat, head : Nat]]
        /\ fresh' \subseteq read
        /\ \A g \in fresh' : local'[g] = local[g] /\ handler'[g].todo # <<>>
    BY <1>2, <1>3, LocalsAre DEF HInv, HeightsOK
  <1>5. /\ head'[a] = 1 /\ seen'[a] = {1}
        /\ \A b \in Address \ {a} :
                head'[b] = head[b] /\ seen'[b] = seen[b] /\ missed'[b] = missed[b] /\ Widens(b)
    BY <1>1, <1>2 DEF HInv, HeightsOK, Widens
  <1>6. /\ Stale(request[a]) \in SUBSET Requests
        /\ \A r \in Stale(request[a]) : ~ r.fresh
    BY <1>1, StaleIs DEF HInv, HeightsOK
  <1>7. HeightsOK'
    BY <1>1, <1>2, <1>3, <1>4, <1>6 DEF HInv, HeightsOK
  <1>8. ASSUME NEW g \in fresh' PROVE FreshOK(g)'
    <2>1. g \in Handler /\ FreshOK(g) /\ Account(g) # a /\ Continues(g)
          /\ local'[g].head = local[g].head
      BY <1>3, <1>4, <1>8 DEF HInv, HeightsOK, FreshIsLooked
    <2>2. Account(g) \in Address \ {a}
      BY <2>1, HasAccount DEF HInv, IInv, FreshOK
    <2> QED
      BY <1>5, <2>1, <2>2, FreshStays DEF HInv
  <1>9. ASSUME NEW b \in Address, NEW r \in request'[b], r.fresh
        PROVE  Looked(b, r.head)'
    <2>1. b # a /\ r \in request[b]
      BY <1>1, <1>2, <1>6, <1>9 DEF HInv, HeightsOK
    <2>2. Looked(b, r.head)
      BY <2>1, <1>9 DEF HInv, FreshIsLooked
    <2> QED
      BY <1>2, <1>5, <2>1, <2>2 DEF Looked
  <1>10. HeadIsCovered'
    <2>1. 1 .. 1 \subseteq {1}
      OBVIOUS
    <2> QED
      BY <1>1, <1>2, <1>5, <2>1 DEF HInv, IInv, StoresOK, HeadIsCovered
  <1> QED
    BY <1>7, <1>8, <1>9, <1>10 DEF HInv, FreshIsLooked

\* Where a handler is that is fresh, and where those of the scanner are.
LEMMA SubmissionAt ==
    ASSUME PlansOK, NEW h \in Submission, handler[h].todo # <<>>
    PROVE  Head(handler[h].todo) \in {"find", "setHead", "resume", "unmark"}
  BY UpdateLeftIs DEF PlansOK

LEMMA FreshAt ==
    ASSUME HInv, NEW h \in fresh
    PROVE  /\ h \in Handler /\ FreshOK(h)
           /\ ~ At(h, "import")
           /\ At(h, "reset") => ImportResets(h)
           /\ h \in Call => ~ At(h, "setHead")
  <1>1. h \in Handler /\ FreshOK(h) /\ PlansOK
    BY DEF HInv, HeightsOK, FreshIsLooked
  <1>2. CASE h \in Call
    BY <1>1, <1>2, AfterStatusIs DEF FreshOK, At, ImportResets
  <1>3. CASE h \in Submission
    BY <1>1, <1>3, SubmissionAt, ServerAssumption DEF FreshOK, At
  <1> QED
    BY <1>1, <1>2, <1>3 DEF Handler

\* Steps that do nothing to heights.
LEMMA UnmovedStep ==
    ASSUME HInv, IInv', PlansOK', UNCHANGED chain, Unmoved,
           node'.accounts \subseteq node.accounts,
           \A g \in Handler : FreshOK(g) /\ handler'[g].todo # <<>> => Continues(g)
    PROVE  HInv'
  <1>1. local \in [Handler -> [latest : Nat, head : Nat]] /\ fresh \in SUBSET Handler
    BY DEF HInv, HeightsOK
  <1>2. Locals(local, fresh) /\ UNCHANGED <<head, seen, missed, request, astray>>
    BY DEF Unmoved
  <1>3. /\ local' \in [Handler -> [latest : Nat, head : Nat]]
        /\ fresh' \subseteq fresh
        /\ \A g \in fresh' : local'[g] = local[g] /\ handler'[g].todo # <<>>
    BY <1>1, <1>2, LocalsAre
  <1>4. HeightsOK'
    BY <1>1, <1>2, <1>3 DEF HInv, HeightsOK
  <1>5. \A g \in fresh' : Continues(g) /\ local'[g].head = local[g].head
    BY <1>3, FreshAt
  <1> QED
    BY <1>2, <1>3, <1>4, <1>5, QuietStep

\* What a call of AccountServer makes of handlers.
LEMMA CallKeeps ==
    ASSUME HInv, NEW h \in Handler,
           \/ Authorize(h) \/ Find(h) \/ Insert(h) \/ Delete(h) \/ Mark(h) \/ Unmark(h)
           \/ ImportAccount(h) \/ RemoveAccount(h) \/ GetLatestBlock(h)
           \/ GetAccountStatus(h) \/ PauseScanning(h) \/ ResetAccount(h)
           \/ ResumeScanning(h) \/ SubmitScanRequest(h)
    PROVE  /\ IInv' /\ PlansOK' /\ handler[h].todo # <<>>
           /\ \A g \in Handler : FreshOK(g) /\ handler'[g].todo # <<>> => Continues(g)
  <1>1. handler[h].todo # <<>> /\ Forward(h)
    BY CallsForward
  <1>2. Step(h)
    BY DEF Step
  <1>3. IInv'
    BY <1>2, StepKeeps DEF HInv
  <1> QED
    BY <1>1, <1>3, ForwardKeeps DEF HInv

LEMMA OtherKeeps ==
    ASSUME HInv, NEW h \in Handler, HeadOther(h)
    PROVE  HInv'
  <1>1. \/ Authorize(h) \/ Find(h) \/ Insert(h) \/ Delete(h) \/ Mark(h) \/ Unmark(h)
        \/ RemoveAccount(h) \/ PauseScanning(h) \/ ResumeScanning(h)
    BY DEF HeadOther
  <1>2. node'.accounts \subseteq node.accounts
    BY <1>1 DEF Authorize, Find, Insert, Delete, Mark, Unmark, RemoveAccount,
                PauseScanning, ResumeScanning, NodeCall, DbCall, HInv, IInv, StoresOK
  <1>3. Unmoved /\ UNCHANGED chain
    BY DEF HeadOther
  <1> QED
    BY <1>1, <1>2, <1>3, CallKeeps, UnmovedStep

LEMMA ImportKeeps ==
    ASSUME HInv, NEW h \in Handler, HeadImport(h)
    PROVE  HInv'
  <1>1. ImportAccount(h) /\ At(h, "import") /\ UNCHANGED chain
        /\ (IF Account(h) \in node'.accounts \ node.accounts THEN Restart(Account(h), h)
            ELSE Unmoved)
    BY DEF HeadImport, ImportAccount
  <1>2. h \notin fresh
    BY <1>1, FreshAt
  <1>3. node'.accounts \subseteq node.accounts \cup {Account(h)}
    BY <1>1 DEF ImportAccount, NodeCall, HInv, IInv, StoresOK
  <1>4. CASE Account(h) \in node'.accounts \ node.accounts
    BY <1>1, <1>2, <1>3, <1>4, CallKeeps, RestartStep
  <1>5. CASE Account(h) \notin node'.accounts \ node.accounts
    <2>1. node'.accounts \subseteq node.accounts
      BY <1>3, <1>5
    <2> QED
      BY <1>1, <1>5, <2>1, CallKeeps, UnmovedStep
  <1> QED
    BY <1>4, <1>5

LEMMA ResetKeeps ==
    ASSUME HInv, NEW h \in Handler, HeadReset(h)
    PROVE  HInv'
  <1>1. ResetAccount(h) /\ At(h, "reset") /\ UNCHANGED chain
        /\ (Restart(Account(h), h) \/ Unmoved)
    BY DEF HeadReset, ResetAccount
  <1>2. h \in fresh => ImportResets(h)
    BY <1>1, FreshAt
  <1>3. node'.accounts \subseteq node.accounts \cup {Account(h)}
        /\ node'.accounts \subseteq node.accounts
    BY <1>1 DEF ResetAccount, NodeCall
  <1> QED
    BY <1>1, <1>2, <1>3, CallKeeps, RestartStep, UnmovedStep

LEMMA LatestKeeps ==
    ASSUME HInv, NEW h \in Handler, ReadLatest(h)
    PROVE  HInv'
  <1> DEFINE new == [local EXCEPT ![h].latest = chain]
  <1>1. /\ GetLatestBlock(h) /\ Locals(new, fresh)
        /\ UNCHANGED <<chain, head, seen, missed, request, astray>>
    BY DEF ReadLatest
  <1>2. /\ new \in [Handler -> [latest : Nat, head : Nat]]
        /\ \A g \in Handler : new[g].head = local[g].head
    BY DEF HInv, HeightsOK
  <1> HIDE DEF new
  <1>3. /\ local' \in [Handler -> [latest : Nat, head : Nat]]
        /\ fresh' \subseteq fresh /\ fresh \subseteq Handler
        /\ \A g \in fresh' : local'[g] = new[g] /\ handler'[g].todo # <<>>
    BY <1>1, <1>2, LocalsAre DEF HInv, HeightsOK
  <1>4. HeightsOK'
    BY <1>1, <1>3 DEF HInv, HeightsOK
  <1>5. node' = node
    BY <1>1 DEF GetLatestBlock, NodeCall
  <1>6. \A g \in fresh' : Continues(g) /\ local'[g].head = local[g].head
    BY <1>1, <1>2, <1>3, FreshAt, CallKeeps
  <1> QED
    BY <1>1, <1>4, <1>5, <1>3, <1>6, CallKeeps, QuietStep

\* The one who reads it learns the head.
LEMMA HeadKeeps ==
    ASSUME HInv, NEW h \in Handler, ReadHead(h)
    PROVE  HInv'
  <1> DEFINE a == Account(h)
             new == [local EXCEPT ![h].head = head[a]]
  <1>1. /\ GetAccountStatus(h) /\ Locals(new, fresh \cup {h})
        /\ UNCHANGED <<chain, head, seen, missed, request, astray>>
    BY DEF ReadHead
  <1>2. /\ IInv' /\ PlansOK' /\ handler[h].todo # <<>> /\ a \in Address
        /\ \A g \in Handler : FreshOK(g) /\ handler'[g].todo # <<>> => Continues(g)
    BY <1>1, CallKeeps, HasAccount DEF HInv, IInv
  <1>3. /\ new \in [Handler -> [latest : Nat, head : Nat]] /\ new[h].head = head[a]
        /\ \A g \in Handler \ {h} : new[g] = local[g]
    BY <1>2 DEF HInv, HeightsOK
  <1> HIDE DEF new
  <1>4. /\ local' \in [Handler -> [latest : Nat, head : Nat]]
        /\ fresh' \subseteq fresh \cup {h} /\ fresh \cup {h} \subseteq Handler
        /\ \A g \in fresh' : local'[g] = new[g] /\ handler'[g].todo # <<>>
    BY <1>1, <1>3, LocalsAre DEF HInv, HeightsOK
  <1>5. HeightsOK'
    BY <1>1, <1>4 DEF HInv, HeightsOK
  <1>6. node' = node
    BY <1>1 DEF GetAccountStatus, NodeCall
  <1>7. \A b \in Address : Widens(b)
    BY <1>1 DEF Widens
  <1>8. ASSUME NEW g \in fresh', g # h PROVE FreshOK(g)'
    <2>1. g \in Handler /\ FreshOK(g) /\ Continues(g) /\ local'[g].head = local[g].head
      BY <1>2, <1>3, <1>4, <1>8, FreshAt
    <2>2. Account(g) \in Address
      BY <2>1, HasAccount DEF HInv, IInv, FreshOK
    <2> QED
      BY <1>7, <2>1, <2>2, FreshStays DEF HInv
  <1>9. ASSUME h \in fresh' PROVE FreshOK(h)'
    <2>1. handler'[h].todo # <<>> /\ local'[h].head = head[a]
      BY <1>3, <1>4, <1>9
    <2>2. At(h, "status") /\ h \in Call /\ h \notin Submission
      BY <1>1, <1>2, SubmissionAt, ServerAssumption DEF GetAccountStatus, At, HInv, Handler
    <2>3. Failed(h).todo = <<>> /\ Done(h).todo = <<>>
      BY <1>2, <2>2, FailedIs, AnsweredIs DEF HInv, IInv, Done
    <2>4. h \in DOMAIN handler /\ handler[h].todo \in Todo /\ HandlerOK(handler[h])
      BY DEF HInv, IInv, HandlersOK, HandlerOK
    <2>5. Proceed(h) /\ Exists(h) /\ Len(handler[h].todo) # 1
      BY <1>1, <2>1, <2>3, <2>4 DEF GetAccountStatus, NodeCall, Fail, Proceed
    <2>6. /\ handler'[h].todo = Tail(handler[h].todo)
          /\ handler'[h].account = handler[h].account
      BY <2>4, <2>5, FreeIs DEF Proceed, HandlerOK
    <2>7. handler'[h].todo \in AfterStatus
      BY <1>2, <2>2, <2>4, <2>6, StatusIsBefore DEF At
    <2>8. a \in astray' \/ 1 .. head[a] \subseteq seen'[a] \cup missed'[a]
      BY <1>1, <1>2, <2>5 DEF HInv, HeadIsCovered, Exists
    <2> QED
      BY <2>1, <2>2, <2>6, <2>7, <2>8 DEF FreshOK, Looked, Account
  <1>10. \A b \in Address : \A r \in request'[b] : r.fresh => Looked(b, r.head)'
    BY <1>1 DEF HInv, FreshIsLooked, Looked
  <1>11. HeadIsCovered'
    BY <1>1, <1>6 DEF HInv, HeadIsCovered
  <1> QED
    BY <1>2, <1>5, <1>8, <1>9, <1>10, <1>11 DEF HInv, FreshIsLooked

LEMMA RequestIs ==
    ASSUME NEW h \in Handler, NEW n \in Nat, NEW f \in BOOLEAN
    PROVE  LET new == [by |-> h, head |-> n, fresh |-> f]
           IN  /\ new \in Requests
               /\ new.head = n /\ new.fresh = f
  BY DEF Requests

\* The request has the head that the handler has read.
LEMMA RequestKeeps ==
    ASSUME HInv, NEW h \in Handler, HeadSubmit(h)
    PROVE  HInv'
  <1> DEFINE a == Account(h)
             new == [by |-> h, head |-> local[h].head, fresh |-> h \in fresh]
  <1>1. /\ SubmitScanRequest(h) /\ Locals(local, fresh)
        /\ UNCHANGED <<chain, head, seen, missed, astray>>
        /\ \/ request' = request
           \/ request' = [request EXCEPT ![a] = request[a] \cup {new}]
    BY DEF HeadSubmit
  <1>2. /\ IInv' /\ PlansOK' /\ handler[h].todo # <<>> /\ a \in Address
        /\ \A g \in Handler : FreshOK(g) /\ handler'[g].todo # <<>> => Continues(g)
    BY <1>1, CallKeeps, HasAccount DEF HInv, IInv
  <1>3. /\ local' \in [Handler -> [latest : Nat, head : Nat]]
        /\ fresh' \subseteq fresh /\ fresh \subseteq Handler
        /\ \A g \in fresh' : local'[g] = local[g] /\ handler'[g].todo # <<>>
    BY <1>1, LocalsAre DEF HInv, HeightsOK
  <1>4. /\ new \in Requests
        /\ new.head = local[h].head /\ new.fresh = (h \in fresh)
    <2>1. local[h].head \in Nat
      BY DEF HInv, HeightsOK
    <2>2. (h \in fresh) \in BOOLEAN
      OBVIOUS
    <2> QED
      BY <2>1, <2>2, RequestIs, Zenon
  <1> HIDE DEF new
  <1>5. /\ request' \in [Address -> SUBSET Requests]
        /\ \A b \in Address : \A r \in request'[b] :
                r \in request[b] \/ (b = a /\ r = new)
    BY <1>1, <1>2, <1>4 DEF HInv, HeightsOK
  <1>6. HeightsOK'
    BY <1>1, <1>3, <1>5 DEF HInv, HeightsOK
  <1>7. \A b \in Address : Widens(b)
    BY <1>1 DEF Widens
  <1>8. ASSUME NEW g \in fresh' PROVE FreshOK(g)'
    <2>1. g \in Handler /\ FreshOK(g) /\ Continues(g) /\ local'[g].head = local[g].head
      BY <1>2, <1>3, <1>8, FreshAt
    <2>2. Account(g) \in Address
      BY <2>1, HasAccount DEF HInv, IInv, FreshOK
    <2> QED
      BY <1>7, <2>1, <2>2, FreshStays DEF HInv
  <1>9. h \in fresh => Looked(a, local[h].head)
    <2>1. h \notin Submission
      BY <1>1, <1>2, SubmissionAt DEF SubmitScanRequest, At, HInv
    <2> QED
      BY <2>1, FreshAt DEF FreshOK, Handler
  <1>10. \A b \in Address : \A r \in request'[b] : r.fresh => Looked(b, r.head)'
    BY <1>1, <1>4, <1>5, <1>9 DEF HInv, FreshIsLooked, Looked
  <1>11. HeadIsCovered'
    BY <1>1 DEF HInv, HeadIsCovered, SubmitScanRequest
  <1> QED
    BY <1>2, <1>6, <1>8, <1>10, <1>11 DEF HInv, FreshIsLooked

\* A response starts at the head of its request, or below.
LEMMA FinishHeadKeeps ==
    ASSUME HInv, NEW s \in Submission, NEW a \in Address, NEW m \in Response,
           HeadFinish(s, a, m)
    PROVE  HInv'
  <1> DEFINE new == Submitted(a, m, MaxTries)
  <1>1. PICK r \in request[a] :
            /\ m.from = IF r.head >= m.to THEN m.to ELSE r.head
            /\ request' = [request EXCEPT ![a] = request[a] \ {r}]
            /\ Locals(local, IF r.fresh THEN fresh \cup {s} ELSE fresh)
    BY DEF HeadFinish
  <1>2. /\ FinishScan(s, a, m) /\ UNCHANGED <<chain, head, seen, missed, astray>>
        /\ handler[s] = Free /\ handler' = [handler EXCEPT ![s] = new] /\ node' = node
    BY DEF HeadFinish, FinishScan
  <1>3. s \in Handler /\ s \notin Call /\ DOMAIN handler = Handler
    BY ServerAssumption DEF Handler, HInv, IInv, HandlersOK
  <1>4. /\ new.todo = Update /\ new.account = a /\ new.message = m
        /\ new.start = m.from /\ Update # <<>>
        /\ m.from \in Nat /\ m.to \in Nat
    BY SubmittedIs, ServerAssumption DEF Update
  <1> HIDE DEF new
  <1>5. handler'[s] = new /\ \A g \in Handler \ {s} : handler'[g] = handler[g]
    BY <1>2, <1>3
  <1>6. IInv'
    BY <1>2, FinishKeeps DEF HInv
  <1>7. PlansOK'
    BY <1>3, <1>4, <1>5 DEF HInv, PlansOK, UpdateLeft, Handler
  <1>8. /\ local' \in [Handler -> [latest : Nat, head : Nat]]
        /\ fresh' \subseteq (IF r.fresh THEN fresh \cup {s} ELSE fresh)
        /\ \A g \in fresh' : local'[g] = local[g] /\ handler'[g].todo # <<>>
        /\ fresh \subseteq Handler
    BY <1>1, <1>3, LocalsAre DEF HInv, HeightsOK
  <1>9. HeightsOK'
    BY <1>1, <1>2, <1>3, <1>8 DEF HInv, HeightsOK
  <1>10. \A b \in Address : Widens(b)
    BY <1>2 DEF Widens
  <1>11. ASSUME NEW g \in fresh', g # s PROVE FreshOK(g)'
    <2>1. g \in Handler /\ FreshOK(g) /\ local'[g].head = local[g].head
      BY <1>8, <1>11, FreshAt
    <2>2. Continues(g)
      BY <1>5, <1>11, <2>1 DEF Continues, FreshOK
    <2>3. Account(g) \in Address
      BY <2>1, HasAccount DEF HInv, IInv, FreshOK
    <2> QED
      BY <1>10, <2>1, <2>2, <2>3, FreshStays DEF HInv
  <1>12. ASSUME s \in fresh' PROVE FreshOK(s)'
    <2>1. s \notin fresh
      BY <1>2, FreshAt, FreeIs DEF FreshOK
    <2>2. r.fresh
      BY <1>8, <1>12, <2>1
    <2>3. Looked(a, r.head) /\ r.head \in Nat
      BY <1>1, <2>2 DEF HInv, HeightsOK, FreshIsLooked, Requests
    <2>4. 1 .. m.from \subseteq 1 .. r.head /\ 1 .. m.from - 1 \subseteq 1 .. r.head
      BY <1>1, <1>4, <2>3
    <2>5. /\ a \in astray' \/ 1 .. m.from \subseteq seen'[a] \cup missed'[a]
          /\ a \in astray' \/ 1 .. m.from - 1 \subseteq seen'[a] \cup missed'[a]
      BY <1>2, <2>3, <2>4 DEF Looked
    <2> QED
      BY <1>3, <1>4, <1>5, <2>5 DEF FreshOK, Looked, Account
  <1>13. \A b \in Address : \A q \in request'[b] : q.fresh => Looked(b, q.head)'
    <2>1. \A b \in Address : request'[b] \subseteq request[b]
      BY <1>1 DEF HInv, HeightsOK
    <2> QED
      BY <1>2, <2>1 DEF HInv, FreshIsLooked, Looked
  <1>14. HeadIsCovered'
    BY <1>2 DEF HInv, HeadIsCovered
  <1> QED
    BY <1>6, <1>7, <1>9, <1>11, <1>12, <1>13, <1>14 DEF HInv, FreshIsLooked

LEMMA MergeHeadKeeps ==
    ASSUME HInv, NEW a \in Address, HeadMerge(a)
    PROVE  HInv'
  <1>1. /\ MergeScans(a) /\ UNCHANGED <<node, handler>>
        /\ UNCHANGED <<chain, head, seen, missed, local, fresh, astray>>
        /\ \E r \in request[a] : request' = [request EXCEPT ![a] = request[a] \ {r}]
    BY DEF HeadMerge, MergeScans
  <1>2. IInv' /\ PlansOK'
    BY <1>1, MergeKeeps DEF HInv, PlansOK
  <1>3. HeightsOK' /\ \A b \in Address : request'[b] \subseteq request[b]
    BY <1>1 DEF HInv, HeightsOK
  <1>4. \A g \in fresh' : Continues(g)
    BY <1>1, FreshAt DEF Continues, FreshOK
  <1> QED
    BY <1>1, <1>2, <1>3, <1>4, QuietStep

\* Both handlers of a response have the same message.
LEMMA AgainKeeps ==
    ASSUME HInv, NEW s \in Submission, NEW other \in Submission,
           HeadSubmitAgain(s, other)
    PROVE  HInv'
  <1> DEFINE r == handler[s]
             old == [r EXCEPT !.tries = 1]
             new == Submitted(Account(s), r.message, r.tries - 1)
  <1>1. /\ SubmitAgain(s, other) /\ UNCHANGED <<chain, head, seen, missed, request, astray, node>>
        /\ Locals(local, IF s \in fresh THEN fresh \cup {other} ELSE fresh)
        /\ r.todo # <<>> /\ handler[other] = Free
        /\ handler' = [handler EXCEPT ![s] = old, ![other] = new]
    BY DEF HeadSubmitAgain, SubmitAgain
  <1>2. /\ s \in Handler /\ other \in Handler /\ s # other
        /\ s \notin Call /\ other \notin Call
        /\ DOMAIN handler = Handler /\ HandlerOK(r)
    BY <1>1, FreeIs, ServerAssumption DEF Handler, HInv, IInv, HandlersOK
  <1>3. /\ new.todo = Update /\ new.account = Account(s) /\ new.message = r.message
        /\ new.start = r.message.from /\ r.message.from \in Nat /\ Update # <<>>
    BY <1>2, SubmittedIs, MessageIs DEF Update, HInv, IInv
  <1>4. old.todo = r.todo /\ old.account = r.account /\ old.message = r.message
        /\ old.start = r.start
    BY <1>2, FreeIs DEF HandlerOK
  <1> HIDE DEF old, new
  <1>5. /\ handler'[s] = old /\ handler'[other] = new
        /\ \A g \in Handler \ {s, other} : handler'[g] = handler[g]
    BY <1>1, <1>2
  <1>6. IInv'
    BY <1>1, SubmitAgainKeeps DEF HInv
  <1>7. PlansOK'
    BY <1>2, <1>3, <1>4, <1>5 DEF HInv, PlansOK, UpdateLeft, Handler
  <1>8. /\ local' \in [Handler -> [latest : Nat, head : Nat]]
        /\ fresh' \subseteq (IF s \in fresh THEN fresh \cup {other} ELSE fresh)
        /\ \A g \in fresh' : local'[g] = local[g] /\ handler'[g].todo # <<>>
        /\ fresh \subseteq Handler
    <2> DEFINE read == IF s \in fresh THEN fresh \cup {other} ELSE fresh
    <2>1. local \in [Handler -> [latest : Nat, head : Nat]] /\ fresh \subseteq Handler
      BY DEF HInv, HeightsOK
    <2>2. read \in SUBSET Handler
      BY <1>2, <2>1
    <2>3. Locals(local, read)
      BY <1>1
    <2> HIDE DEF read
    <2>4. /\ local' \in [Handler -> [latest : Nat, head : Nat]] /\ fresh' \subseteq read
          /\ \A g \in fresh' : local'[g] = local[g] /\ handler'[g].todo # <<>>
      BY <2>1, <2>2, <2>3, LocalsAre
    <2> QED
      BY <2>1, <2>4 DEF read
  <1>9. HeightsOK'
    BY <1>1, <1>2, <1>8 DEF HInv, HeightsOK
  <1>10. \A b \in Address : Widens(b)
    BY <1>1 DEF Widens
  <1>11. ASSUME NEW g \in fresh', g # other PROVE FreshOK(g)'
    <2>1. g \in Handler /\ FreshOK(g) /\ local'[g].head = local[g].head
      BY <1>8, <1>11, FreshAt
    <2>2. Continues(g)
      BY <1>2, <1>4, <1>5, <1>11, <2>1 DEF Continues, FreshOK
    <2>3. Account(g) \in Address
      BY <2>1, HasAccount DEF HInv, IInv, FreshOK
    <2> QED
      BY <1>10, <2>1, <2>2, <2>3, FreshStays DEF HInv
  <1>12. ASSUME other \in fresh' PROVE FreshOK(other)'
    <2>1. other \notin fresh
      BY <1>1, FreshAt, FreeIs DEF FreshOK
    <2>2. s \in fresh
      BY <1>8, <1>12, <2>1
    <2>3. Looked(Account(s), r.message.from) /\ Account(s) \in Address
      BY <1>1, <1>2, <2>2, FreshAt, HasAccount DEF FreshOK, HInv, IInv
    <2>4. 1 .. r.message.from - 1 \subseteq 1 .. r.message.from
      BY <1>3
    <2>5. ASSUME NEW n, Looked(Account(s), n)
          PROVE  \/ Account(s) \in astray'
                 \/ 1 .. n \subseteq seen'[Account(s)] \cup missed'[Account(s)]
      BY <1>1, <2>5 DEF Looked
    <2>6. Looked(Account(s), r.message.from - 1)
      BY <2>3, <2>4 DEF Looked
    <2> QED
      BY <1>2, <1>3, <1>5, <2>3, <2>5, <2>6 DEF FreshOK, Looked, Account
  <1>13. \A b \in Address : \A q \in request'[b] : q.fresh => Looked(b, q.head)'
    BY <1>1 DEF HInv, FreshIsLooked, Looked
  <1>14. HeadIsCovered'
    BY <1>1 DEF HInv, HeadIsCovered
  <1> QED
    BY <1>6, <1>7, <1>9, <1>11, <1>12, <1>13, <1>14 DEF HInv, FreshIsLooked

----------------------------------------------------------------------------
(* set_account_head.                                                       *)

\* Where a request ends.
LEMMA EndIs ==
    ASSUME HandlersOK, PlansOK, NEW h \in Handler
    PROVE  LET r == handler[h]
               asked == HeadRequest(r)
           IN  /\ asked.start = r.start /\ r.start \in Nat
               /\ asked.end \in Nat
               /\ r.left \ asked.blocks # {} =>
                    StartAfter(Highest(asked.blocks)) = asked.end + 1
  <1> DEFINE r == handler[h]
             blocks == Lowest(r.left)
             rest == r.left \ blocks
             end == IF rest # {} THEN Highest(blocks) ELSE r.message.to
  <1>1. /\ HeadRequest(r).start = r.start /\ HeadRequest(r).blocks = blocks
        /\ HeadRequest(r).end = end
    BY DEF HeadRequest
  <1>2. r.start \in Nat /\ r.message.to \in Nat /\ r.left \subseteq Height
    BY MessageIs DEF PlansOK, HandlersOK, HandlerOK
  <1>3. rest # {} => Highest(blocks) \in Nat
    <2>1. Height \subseteq Nat
      BY ServerAssumption DEF Height
    <2>2. Lowest(r.left) \subseteq r.left
          /\ (r.left # {} => Highest(Lowest(r.left)) \in Lowest(r.left))
      BY <1>2, Batch
    <2>3. rest # {} => r.left # {}
      OBVIOUS
    <2> QED
      BY <1>2, <2>1, <2>2, <2>3
  <1> HIDE DEF blocks
  <1>4. r.left \ HeadRequest(r).blocks # {} =>
            StartAfter(Highest(HeadRequest(r).blocks)) = HeadRequest(r).end + 1
    BY <1>1 DEF StartAfter
  <1>5. HeadRequest(r).end \in Nat
    BY <1>1, <1>2, <1>3
  <1> QED
    BY <1>1, <1>2, <1>4, <1>5

LEMMA SetHeadKeeps ==
    ASSUME HInv, NEW h \in Handler, HeadSet(h)
    PROVE  HInv'
  <1> DEFINE a == Account(h)
             r == handler[h]
             asked == HeadRequest(r)
             rest == r.left \ asked.blocks
             more == [r EXCEPT !.left = rest, !.sent = Append(@, asked),
                               !.start = StartAfter(Highest(asked.blocks))]
             last == [r EXCEPT !.left = {}, !.sent = Append(@, asked),
                               !.todo = Tail(@)]
             end == asked.end
  <1> DEFINE Set == /\ head' = [head EXCEPT ![a] = end]
                    /\ \E passed \in SUBSET (r.start .. end) :
                          /\ seen' = [seen EXCEPT ![a] = seen[a] \cup ((r.start .. end) \ passed)]
                          /\ missed' = [missed EXCEPT ![a] =
                                           (missed[a] \ (r.start .. end)) \cup passed]
                    /\ astray' = IF h \in fresh \/ r.start = 1 THEN astray
                                 ELSE astray \cup {a}
             Lost == UNCHANGED <<head, seen, missed, astray>>
  <1>1. /\ IInv /\ HandlersOK /\ PlansOK /\ HeightsOK /\ HandlerOK(r)
        /\ DOMAIN handler = Handler
        /\ r.todo # <<>> /\ Head(r.todo) = "setHead" /\ a \in Address
    BY HasAccount DEF HInv, IInv, HandlersOK, HeadSet, SetAccountHead, At
  <1>2. /\ r.start \in Nat /\ end \in Nat /\ asked.start = r.start
        /\ rest # {} => StartAfter(Highest(asked.blocks)) = end + 1
    BY <1>1, EndIs
  <1>3. /\ SetAccountHead(h) /\ Locals(local, fresh) /\ UNCHANGED <<chain, request, node>>
        /\ \/ Exists(h) /\ UNCHANGED failures /\ rest # {}
              /\ handler' = [handler EXCEPT ![h] = more]
           \/ Exists(h) /\ UNCHANGED failures /\ rest = {}
              /\ handler' = [handler EXCEPT ![h] = last]
           \/ Fail(h)
        /\ Set \/ Lost
        /\ Exists(h) /\ UNCHANGED failures => Set
    <2>1. SetAccountHead(h) /\ Locals(local, fresh) /\ UNCHANGED <<chain, request, node>>
      BY DEF HeadSet, SetAccountHead
    <2>2. \E done \in Outcome(h) : IF done THEN Set ELSE Lost
      BY <1>2 DEF HeadSet
    <2>3. \/ Exists(h) /\ UNCHANGED failures /\ rest # {}
             /\ handler' = [handler EXCEPT ![h] = more]
          \/ Exists(h) /\ UNCHANGED failures /\ rest = {}
             /\ handler' = [handler EXCEPT ![h] = last]
          \/ Fail(h)
      <3>1. CASE rest # {}
        BY <2>1, <3>1 DEF SetAccountHead
      <3>2. CASE rest = {}
        BY <2>1, <3>2 DEF SetAccountHead
      <3> QED
        BY <3>1, <3>2
    <2> HIDE DEF Set, Lost, rest, more, last
    <2>4. Set \/ Lost
      BY <2>2
    <2>5. ASSUME Exists(h), UNCHANGED failures PROVE Set
      <3>1. Outcome(h) = {TRUE}
        BY <2>5 DEF Outcome, Exists
      <3> QED
        BY <2>2, <3>1
    <2> QED
      BY <2>1, <2>3, <2>4, <2>5
  <1>4. IInv'
    BY <1>1, <1>3, StepKeeps DEF Step
  <1>5. /\ local' \in [Handler -> [latest : Nat, head : Nat]]
        /\ fresh' \subseteq fresh /\ fresh \subseteq Handler
        /\ \A g \in fresh' : local'[g] = local[g] /\ handler'[g].todo # <<>>
    BY <1>1, <1>3, LocalsAre DEF HeightsOK
  <1>6. HeightsOK' /\ \A b \in Address : Widens(b)
    <2>1. r.start .. end \subseteq Nat
      BY <1>2
    <2>2. CASE Set
      BY <1>1, <1>2, <1>3, <1>5, <2>1, <2>2 DEF HeightsOK, Widens
    <2>3. CASE Lost
      BY <1>1, <1>3, <1>5, <2>3 DEF HeightsOK, Widens
    <2> QED
      BY <1>3, <2>2, <2>3
  \* What is below the new head was looked at.
  <1>7. ASSUME Set
        PROVE  /\ a \in astray' \/ 1 .. end \subseteq seen'[a] \cup missed'[a]
               /\ head'[a] = end
               /\ \A b \in Address \ {a} :
                    head'[b] = head[b] /\ seen'[b] = seen[b] /\ missed'[b] = missed[b]
               /\ astray \subseteq astray'
    <2>1. /\ seen'[a] \cup missed'[a] = seen[a] \cup missed[a] \cup r.start .. end
          /\ head'[a] = end
          /\ \A b \in Address \ {a} :
                head'[b] = head[b] /\ seen'[b] = seen[b] /\ missed'[b] = missed[b]
          /\ astray \subseteq astray'
      BY <1>1, <1>7 DEF HeightsOK
    <2>2. CASE h \in fresh
      <3>1. h \in Submission /\ FreshOK(h)
        BY <1>1, <2>2, FreshAt DEF At, Handler
      <3>2. a \in astray \/ 1 .. r.start - 1 \subseteq seen[a] \cup missed[a]
        BY <3>1 DEF FreshOK, Looked
      <3>3. 1 .. end \subseteq 1 .. r.start - 1 \cup r.start .. end
        BY <1>2
      <3> QED
        BY <2>1, <3>2, <3>3
    <2>3. CASE h \notin fresh /\ r.start = 1
      BY <2>1, <2>3
    <2>4. CASE h \notin fresh /\ r.start # 1
      BY <1>7, <2>1, <2>4
    <2> QED
      BY <2>2, <2>3, <2>4
  <1>8. HeadIsCovered'
    <2>1. CASE Set
      BY <1>1, <1>3, <1>7, <2>1 DEF HInv, HeadIsCovered, IInv, StoresOK
    <2>2. CASE Lost
      BY <1>3, <2>2 DEF HInv, HeadIsCovered
    <2> QED
      BY <1>3, <2>1, <2>2
  <1>9. /\ DOMAIN r = DOMAIN Free
        /\ more.todo = r.todo /\ more.account = r.account /\ more.message = r.message
        /\ more.start = StartAfter(Highest(asked.blocks))
        /\ last.todo = Tail(r.todo) /\ last.account = r.account
        /\ last.message = r.message /\ last.start = r.start
    <2>1. DOMAIN r = DOMAIN Free
      BY <1>1 DEF HandlerOK
    <2> HIDE DEF asked, rest, r
    <2> QED
      BY <2>1, FreeIs
  <1> HIDE DEF more, last, rest, asked, end, Set, Lost
  <1>10. PlansOK'
    <2>1. CASE Fail(h)
      BY <1>1, <2>1, ForwardKeeps DEF Forward
    <2>2. ASSUME NEW new, handler' = [handler EXCEPT ![h] = new], new.start \in Nat,
                 h \in Submission => new.todo \in UpdateLeft
          PROVE  PlansOK'
      <3>1. handler'[h] = new /\ \A g \in Handler \ {h} : handler'[g] = handler[g]
        BY <1>1, <2>2
      <3> QED
        BY <1>1, <2>2, <3>1 DEF PlansOK, Handler
    <2>3. h \in Submission => r.todo \in UpdateLeft /\ Tail(r.todo) \in UpdateLeft
      BY <1>1, UpdateLeftIs DEF PlansOK
    <2>4. CASE handler' = [handler EXCEPT ![h] = more] /\ rest # {}
      <3>1. more.start \in Nat /\ (h \in Submission => more.todo \in UpdateLeft)
        BY <1>2, <1>9, <2>3, <2>4
      <3> QED
        BY <2>2, <2>4, <3>1
    <2>5. CASE handler' = [handler EXCEPT ![h] = last]
      BY <1>2, <1>9, <2>2, <2>3, <2>5
    <2> QED
      BY <1>3, <2>1, <2>4, <2>5
  <1>11. ASSUME NEW g \in fresh', g # h PROVE FreshOK(g)'
    <2>1. g \in Handler /\ FreshOK(g) /\ local'[g].head = local[g].head
      BY <1>5, <1>11, FreshAt
    <2>2. handler'[g] = handler[g]
      BY <1>1, <1>3, <1>11, <2>1 DEF Fail
    <2>3. Continues(g)
      BY <2>1, <2>2 DEF Continues, FreshOK
    <2>4. Account(g) \in Address
      BY <1>1, <2>1, HasAccount DEF FreshOK
    <2> QED
      BY <1>1, <1>6, <2>1, <2>3, <2>4, FreshStays
  <1>12. ASSUME h \in fresh' PROVE FreshOK(h)'
    <2>1. /\ FreshOK(h) /\ h \in Submission /\ h \notin Call
          /\ local'[h].head = local[h].head /\ handler'[h].todo # <<>>
      BY <1>1, <1>5, <1>12, FreshAt, ServerAssumption DEF At, Handler
    <2>2. CASE Continues(h)
      BY <1>1, <1>6, <2>1, <2>2, FreshStays
    <2>3. CASE Fail(h)
      BY <1>1, <2>1, <2>2, <2>3, ForwardKeeps DEF Forward
    <2>4. CASE handler' = [handler EXCEPT ![h] = last]
      <3>1. handler'[h] = last
        BY <1>1, <2>4
      <3> QED
        BY <1>9, <2>1, <2>2, <3>1 DEF Continues
    <2>5. CASE Set /\ rest # {} /\ handler' = [handler EXCEPT ![h] = more]
      <3>1. handler'[h] = more
        BY <1>1, <2>5
      <3>2. /\ Account(h)' = a /\ handler'[h].message = r.message
            /\ handler'[h].start - 1 = end
        BY <1>2, <1>9, <2>5, <3>1 DEF Account
      <3>3. Looked(a, r.message.from)
        BY <2>1 DEF FreshOK
      <3>4. a \in astray' \/ 1 .. r.message.from \subseteq seen'[a] \cup missed'[a]
        BY <1>1, <1>6, <3>3, StillLooked
      <3> QED
        BY <1>7, <2>1, <2>5, <3>2, <3>4 DEF FreshOK, Looked
    <2> QED
      BY <1>3, <2>3, <2>4, <2>5
  <1>13. \A b \in Address : \A q \in request'[b] : q.fresh => Looked(b, q.head)'
    <2>1. ASSUME NEW b \in Address, NEW q \in request'[b], q.fresh
          PROVE  Looked(b, q.head)'
      <3>1. Looked(b, q.head)
        BY <1>3, <2>1 DEF HInv, FreshIsLooked
      <3>2. b \in astray' \/ 1 .. q.head \subseteq seen'[b] \cup missed'[b]
        BY <1>6, <3>1, StillLooked
      <3> QED
        BY <3>2 DEF Looked
    <2> QED
      BY <2>1
  <1> QED
    BY <1>4, <1>6, <1>8, <1>10, <1>11, <1>12, <1>13 DEF HInv, FreshIsLooked

----------------------------------------------------------------------------
(* The other steps.                                                        *)

LEMMA ReceiveHeadKeeps ==
    ASSUME HInv, NEW c \in Call, NEW a \in Address, HeadReceive(c, a)
    PROVE  HInv'
  <1>1. PICK todo \in {Import, Remove, Rescan} :
            handler' = [handler EXCEPT ![c] = [Free EXCEPT !.todo = todo, !.account = a]]
    BY DEF HeadReceive, Receive
  <1> DEFINE new == [Free EXCEPT !.todo = todo, !.account = a]
  <1>2. /\ Receive(c, a) /\ handler[c] = Free /\ UNCHANGED node
        /\ UNCHANGED <<chain, head, seen, missed, local, request, fresh, astray>>
    BY DEF HeadReceive, Receive, headVars
  <1>3. c \in Handler /\ c \notin Submission /\ DOMAIN handler = Handler
    BY ServerAssumption DEF Handler, HInv, IInv, HandlersOK
  <1>4. new.start = 0
    BY FreeIs
  <1> HIDE DEF new
  <1>5. handler'[c] = new /\ \A g \in Handler \ {c} : handler'[g] = handler[g]
    BY <1>1, <1>3 DEF new
  <1>6. IInv'
    BY <1>2, ReceiveKeeps DEF HInv
  <1>7. PlansOK'
    BY <1>3, <1>4, <1>5 DEF HInv, PlansOK, Handler
  <1>8. \A g \in fresh' : Continues(g)
    <2>1. c \notin fresh
      BY <1>2, FreshAt, FreeIs DEF FreshOK
    <2> QED
      BY <1>2, <1>5, <2>1, FreshAt DEF Continues, FreshOK
  <1>9. HeightsOK'
    BY <1>2 DEF HInv, HeightsOK
  <1> QED
    BY <1>2, <1>6, <1>7, <1>8, <1>9, QuietStep

LEMMA ServerCrashHeadKeeps ==
    ASSUME HInv, HeadServerCrash
    PROVE  HInv'
  <1>1. /\ ServerCrash /\ Unmoved /\ UNCHANGED chain /\ UNCHANGED node
        /\ \A g \in Handler : handler'[g] =
                IF handler[g].todo # <<>> THEN Failed(g) ELSE handler[g]
    BY DEF HeadServerCrash, ServerCrash
  <1>2. IInv'
    BY <1>1, CrashKeeps DEF HInv
  <1>3. HandlersOK /\ PlansOK
    BY DEF HInv, IInv
  <1>4. PlansOK'
    BY <1>1, <1>3, FailedIs DEF PlansOK, Handler
  <1>5. \A g \in Handler : FreshOK(g) /\ handler'[g].todo # <<>> => Continues(g)
    BY <1>1, <1>3, FailedIs DEF FreshOK, Continues
  <1> QED
    BY <1>1, <1>2, <1>4, <1>5, UnmovedStep

LEMMA ScannerCrashHeadKeeps ==
    ASSUME HInv, HeadScannerCrash
    PROVE  HInv'
  <1>1. /\ ScannerCrash /\ UNCHANGED <<chain, head, seen, missed, astray, node>>
        /\ request' = [a \in Address |-> {}] /\ Locals(local, fresh)
        /\ \A g \in Handler :
                handler'[g] \in {[handler[g] EXCEPT !.tries = 1], handler[g]}
    BY DEF HeadScannerCrash, ScannerCrash
  <1>2. IInv'
    BY <1>1, CrashKeeps DEF HInv
  <1>3. \A g \in Handler :
            /\ handler'[g].todo = handler[g].todo
            /\ handler'[g].account = handler[g].account
            /\ handler'[g].message = handler[g].message
            /\ handler'[g].start = handler[g].start
    BY <1>1, FreeIs DEF HInv, IInv, HandlersOK, HandlerOK
  <1>4. PlansOK'
    BY <1>3 DEF HInv, PlansOK, Handler
  <1>5. /\ local' \in [Handler -> [latest : Nat, head : Nat]]
        /\ fresh' \subseteq fresh /\ fresh \subseteq Handler
        /\ \A g \in fresh' : local'[g] = local[g] /\ handler'[g].todo # <<>>
    BY <1>1, LocalsAre DEF HInv, HeightsOK
  <1>6. HeightsOK' /\ \A a \in Address : request'[a] \subseteq request[a]
    BY <1>1, <1>5 DEF HInv, HeightsOK
  <1>7. \A g \in fresh' : Continues(g) /\ local'[g].head = local[g].head
    BY <1>3, <1>5, FreshAt DEF Continues, FreshOK
  <1> QED
    BY <1>1, <1>2, <1>4, <1>5, <1>6, <1>7, QuietStep

\* The chain grows, and the node follows it: a block is looked at, and it is
\* the next one.
LEMMA ChainKeeps ==
    ASSUME HInv, Grow \/ \E a \in Address : NodeScans(a)
    PROVE  HInv'
  <1>1. UNCHANGED <<vars, local, request, fresh, astray>>
    BY DEF Grow, NodeScans
  <1>2. IInv' /\ PlansOK'
    BY <1>1 DEF HInv, IInv, PlansOK, vars, HandlersOK, StoresOK, NodeImpliesRow,
                BetweenIsExclusive, Between, At, Account
  <1>3. CASE Grow
    <2>1. UNCHANGED <<head, seen, missed>> /\ chain' = chain + 1
      BY <1>3 DEF Grow
    <2>2. HeightsOK'
      BY <1>1, <2>1 DEF HInv, HeightsOK
    <2>3. \A g \in fresh' : Continues(g)
      BY <1>1, FreshAt DEF Continues, FreshOK, vars
    <2> QED
      BY <1>1, <1>2, <2>1, <2>2, <2>3, QuietStep DEF vars
  <1>4. ASSUME NEW a \in Address, NodeScans(a) PROVE HInv'
    <2>1. /\ head' = [head EXCEPT ![a] = head[a] + 1]
          /\ seen' = [seen EXCEPT ![a] = seen[a] \cup {head[a] + 1}]
          /\ UNCHANGED <<chain, missed>>
      BY <1>4 DEF NodeScans
    <2>2. HeightsOK' /\ \A b \in Address : Widens(b)
      BY <1>1, <2>1 DEF HInv, HeightsOK, Widens
    <2>3. ASSUME NEW g \in fresh' PROVE FreshOK(g)'
      <3>1. g \in Handler /\ FreshOK(g) /\ Continues(g) /\ local'[g].head = local[g].head
        BY <1>1, <2>3, FreshAt DEF Continues, FreshOK, vars
      <3>2. Account(g) \in Address
        BY <3>1, HasAccount DEF HInv, IInv, FreshOK
      <3> QED
        BY <2>2, <3>1, <3>2, FreshStays DEF HInv
    <2>4. ASSUME NEW b \in Address, NEW q \in request'[b], q.fresh
          PROVE  Looked(b, q.head)'
      <3>1. Looked(b, q.head)
        BY <1>1, <2>4 DEF HInv, FreshIsLooked
      <3>2. b \in astray' \/ 1 .. q.head \subseteq seen'[b] \cup missed'[b]
        BY <2>2, <3>1, StillLooked
      <3> QED
        BY <3>2 DEF Looked
    <2>5. HeadIsCovered'
      <3>1. /\ head[a] \in Nat
            /\ head'[a] = head[a] + 1 /\ seen'[a] = seen[a] \cup {head[a] + 1}
            /\ \A b \in Address \ {a} : head'[b] = head[b] /\ seen'[b] = seen[b]
            /\ missed' = missed
        BY <2>1 DEF HInv, HeightsOK
      <3>2. 1 .. head[a] + 1 \subseteq 1 .. head[a] \cup {head[a] + 1}
        BY <3>1
      <3> QED
        BY <1>1, <3>1, <3>2 DEF HInv, IInv, StoresOK, HeadIsCovered, vars
    <2> QED
      BY <1>2, <2>2, <2>3, <2>4, <2>5 DEF HInv, FreshIsLooked
  <1> QED
    BY <1>3, <1>4

----------------------------------------------------------------------------
(* No block is left out.                                                   *)

LEMMA InitHInv == HeadInit => HInv
  <1> SUFFICES ASSUME HeadInit PROVE HInv
    OBVIOUS
  <1>1. IInv
    BY InitIInv DEF HeadInit
  <1>2. PlansOK
    BY FreeIs DEF HeadInit, Init, PlansOK, UpdateLeft, Handler
  <1>3. HeightsOK /\ FreshIsLooked
    BY DEF HeadInit, HeightsOK, FreshIsLooked, NoLocal
  <1>4. HeadIsCovered
    <2>1. 1 .. 1 \subseteq {1} /\ node.accounts \subseteq Address
      BY <1>1 DEF IInv, StoresOK
    <2> QED
      BY <2>1 DEF HeadInit, HeadIsCovered
  <1> QED
    BY <1>1, <1>2, <1>3, <1>4 DEF HInv

LEMMA NextHInv == HInv /\ [HeadNext]_allVars => HInv'
  <1> SUFFICES ASSUME HInv, [HeadNext]_allVars PROVE HInv'
    OBVIOUS
  <1>1. CASE UNCHANGED allVars
    <2>1. UNCHANGED <<vars, chain, head, seen, missed, local, request, fresh, astray>>
      BY <1>1 DEF allVars, headVars
    <2>2. IInv' /\ PlansOK'
      BY <2>1 DEF HInv, IInv, PlansOK, vars, HandlersOK, StoresOK, NodeImpliesRow,
                  BetweenIsExclusive, Between, At, Account
    <2>3. HeightsOK'
      BY <2>1 DEF HInv, HeightsOK
    <2>4. \A g \in fresh' : Continues(g)
      BY <2>1, FreshAt DEF Continues, FreshOK, vars
    <2> QED
      BY <2>1, <2>2, <2>3, <2>4, QuietStep DEF vars
  <1>2. ASSUME NEW h \in Handler, HeadStep(h) PROVE HInv'
    BY <1>2, ImportKeeps, ResetKeeps, LatestKeeps, HeadKeeps, SetHeadKeeps,
       RequestKeeps, OtherKeeps DEF HeadStep
  <1>3. CASE HeadNext
    BY <1>2, <1>3, ReceiveHeadKeeps, FinishHeadKeeps, MergeHeadKeeps, AgainKeeps,
       ServerCrashHeadKeeps, ScannerCrashHeadKeeps, ChainKeeps
    DEF HeadNext
  <1> QED
    BY <1>1, <1>3

\* Every block up to an account's head was looked at, except those that the scan
\* of a response had passed over, and unless the head was set from what was read
\* before a reset: a handler that has read the head since, the request it makes
\* and the responses to it leave no other block out.
THEOREM HeadsAreCovered == HeadSpec => []HeadIsCovered
  <1>1. HInv => HeadIsCovered
    BY DEF HInv
  <1> QED
    BY <1>1, InitHInv, NextHInv, PTL DEF HeadSpec

----------------------------------------------------------------------------
(* Every step is a step of AccountServer or leaves its variables alone.    *)

LEMMA HeadNextIsNext == [HeadNext]_allVars => [Next]_vars
  <1> SUFFICES ASSUME HeadNext PROVE [Next]_vars
    BY DEF allVars
  <1>1. ASSUME NEW h \in Handler, HeadStep(h) PROVE Step(h)
    BY <1>1 DEF HeadStep, HeadImport, HeadReset, ReadLatest, ReadHead, HeadSet,
                HeadSubmit, HeadOther, Step
  <1>2. CASE \E h \in Handler : HeadStep(h)
    BY <1>1, <1>2 DEF Next
  <1>3. CASE \E c \in Call, a \in Address : HeadReceive(c, a)
    BY <1>3 DEF HeadReceive, Next
  <1>4. CASE \E s \in Submission, a \in Address, m \in Response : HeadFinish(s, a, m)
    BY <1>4 DEF HeadFinish, Next
  <1>5. CASE \E a \in Address : HeadMerge(a)
    BY <1>5 DEF HeadMerge, Next
  <1>6. CASE \E s, other \in Submission : HeadSubmitAgain(s, other)
    BY <1>6 DEF HeadSubmitAgain, Next
  <1>7. CASE Grow \/ \E a \in Address : NodeScans(a)
    BY <1>7 DEF Grow, NodeScans
  <1>8. CASE HeadServerCrash \/ HeadScannerCrash
    BY <1>8 DEF HeadServerCrash, HeadScannerCrash, Next
  <1> QED
    BY <1>2, <1>3, <1>4, <1>5, <1>6, <1>7, <1>8 DEF HeadNext

\* The heights do not change what the handlers may do: what is proved of
\* AccountServer holds with the heights as well.
THEOREM HeadIsServer == HeadSpec => Spec
  BY HeadNextIsNext, PTL DEF HeadSpec, Spec, HeadInit

----------------------------------------------------------------------------
(* The heights are below the chain, and the requests are those owed.       *)

\* What is left of a handler's calls after it has read the head, and of one
\* that does not set any.
Reads == {"pause", "reset", "submit"}
HasRead(todo) == todo # <<>> /\ \A k \in 1 .. Len(todo) : todo[k] \in Reads
NoHeads(todo) == \A k \in 1 .. Len(todo) : todo[k] # "setHead"

SeenOK ==
    /\ chain \in Height
    /\ \A a \in Address : /\ head[a] \in seen[a] \cup missed[a]
                           /\ seen[a] \cup missed[a] \subseteq 1 .. chain
    /\ astray \subseteq Address

LocalsOK ==
    \A h \in Handler :
        /\ local[h].latest <= chain /\ local[h].head <= chain
        /\ HasRead(handler[h].todo) => local[h].head # 0

CallsOK == \A c \in Call : NoHeads(handler[c].todo)

Setting == {Update, <<"setHead", "resume", "unmark">>}

\* A response ends below the latest block n, and so does every request for it.
MessageOK(r, n) ==
    r.todo # <<>> => /\ r.message \in Response /\ r.message.to <= n
                     /\ r.todo \in Setting => r.start <= r.message.to
MessagesOK == \A s \in Submission : MessageOK(handler[s], chain)

\* A client has asked for a scan only once, and it is answered.
RequestsOK ==
    \A a \in Address :
        /\ IsFiniteSet(request[a]) /\ Cardinality(request[a]) = scans[a]
        /\ \A r \in request[a] :
              /\ r.head \in 1 .. chain
              /\ r.by \in Call
              /\ handler[r.by].todo = <<>> /\ handler[r.by].account # NoAddress
        /\ \A q, r \in request[a] : q.by = r.by => q = r

TInv == SeenOK /\ LocalsOK /\ CallsOK /\ MessagesOK /\ RequestsOK

LEMMA CallsLeft ==
    ASSUME NEW todo \in Todo, todo # <<>>
    PROVE  /\ Head(todo) = "submit" => HasRead(todo) /\ Tail(todo) = <<>>
           /\ HasRead(Tail(todo)) => HasRead(todo) \/ Head(todo) = "status"
           /\ NoHeads(todo) => NoHeads(Tail(todo)) /\ Head(todo) # "setHead"
  <1>1. PICK plan \in Plans : todo \in Left(plan)
    BY DEF Todo
  <1> DEFINE n == Len(plan)
  <1>2. PICK i \in 1 .. n + 1 : todo = SubSeq(plan, i, n)
    BY <1>1 DEF Left
  <1>3. plan \in Seq(Calls) /\ n \in Nat \ {0}
    BY Linked
  <1> DEFINE m == Len(todo)
             t == Tail(todo)
  <1>4. /\ todo \in Seq(Calls) /\ m = n + 1 - i
        /\ \A k \in 1 .. n + 1 - i : todo[k] = plan[i + k - 1]
    BY <1>2, <1>3, Suffix
  <1>5. i \in 1 .. n /\ Head(todo) = plan[i]
    BY <1>3, <1>4, EmptySeq
  <1>6. /\ t \in Seq(Calls) /\ Len(t) = n - i
        /\ \A k \in 1 .. n - i : t[k] = plan[i + k]
    BY <1>3, <1>4, <1>5, HeadTailProperties
  <1>7. t = <<>> <=> n = i
    <2>1. t = <<>> <=> Len(t) = 0
      BY <1>6, EmptySeq
    <2> HIDE DEF n, t
    <2> QED
      BY <2>1, <1>3, <1>5, <1>6
  <1>8. /\ \A j \in 1 .. n : plan[j] = "submit" => j = n
        /\ \A j \in 1 .. n - 1 :
              (\A k \in j + 1 .. n : plan[k] \in Reads) => plan[j] \in Reads \cup {"status"}
    <2>1. CASE plan = Import
      BY <2>1 DEF Import, Reads
    <2>2. CASE plan = Remove
      BY <2>2 DEF Remove, Reads
    <2>3. CASE plan = Rescan
      BY <2>3 DEF Rescan, Reads
    <2>4. CASE plan = Update
      BY <2>4 DEF Update, Reads
    <2> QED
      BY <2>1, <2>2, <2>3, <2>4 DEF Plans
  <1> HIDE DEF n, m, t
  <1>9. ASSUME Head(todo) = "submit" PROVE HasRead(todo) /\ t = <<>>
    <2>1. i = n /\ m = 1
      BY <1>3, <1>4, <1>5, <1>8, <1>9
    <2>2. todo[1] = plan[i]
      BY <1>3, <1>4, <2>1
    <2>3. \A k \in 1 .. m : todo[k] \in Reads
      BY <1>5, <1>9, <2>1, <2>2 DEF Reads
    <2> QED
      BY <1>7, <2>1, <2>3 DEF HasRead, m
  <1>10. ASSUME HasRead(t), Head(todo) # "status" PROVE HasRead(todo)
    <2>1. i \in 1 .. n - 1
      BY <1>3, <1>5, <1>7, <1>10 DEF HasRead
    <2>2. ASSUME NEW k \in i + 1 .. n PROVE plan[k] \in Reads
      <3>1. k - i \in 1 .. n - i /\ i + (k - i) = k
        BY <1>3, <1>5
      <3>2. t[k - i] \in Reads
        BY <1>6, <1>10, <3>1 DEF HasRead
      <3> QED
        BY <1>6, <3>1, <3>2
    <2>3. plan[i] \in Reads
      BY <1>5, <1>8, <1>10, <2>1, <2>2
    <2>4. ASSUME NEW k \in 1 .. m PROVE todo[k] \in Reads
      <3>1. k \in 1 .. n + 1 - i /\ i + k - 1 \in i .. n
        BY <1>3, <1>4, <1>5
      <3>2. todo[k] = plan[i + k - 1]
        BY <1>4, <3>1
      <3>3. i + k - 1 = i \/ i + k - 1 \in i + 1 .. n
        BY <1>3, <3>1
      <3> QED
        BY <2>2, <2>3, <3>2, <3>3
    <2> QED
      BY <2>4 DEF HasRead, m
  <1>11. ASSUME NoHeads(todo) PROVE NoHeads(t) /\ Head(todo) # "setHead"
    <2>1. \A k \in 1 .. m : todo[k] # "setHead"
      BY <1>11 DEF NoHeads, m
    <2>2. ASSUME NEW k \in 1 .. n - i PROVE t[k] # "setHead"
      <3>1. k + 1 \in 1 .. n + 1 - i /\ i + (k + 1) - 1 = i + k
        BY <1>3, <1>5
      <3>2. todo[k + 1] = plan[i + k] /\ todo[k + 1] # "setHead"
        BY <1>4, <2>1, <3>1
      <3> QED
        BY <1>6, <3>2
    <2>3. 1 \in 1 .. m /\ todo[1] = plan[i]
      BY <1>3, <1>4, <1>5
    <2> QED
      BY <1>5, <1>6, <2>1, <2>2, <2>3 DEF NoHeads
  <1> QED
    BY <1>9, <1>10, <1>11 DEF t

\* What a step of another kind than its own calls makes of a handler, and what
\* a call makes of it.
Anew(g) ==
    \/ handler'[g].todo = handler[g].todo
    \/ handler'[g].todo = <<>>
    \/ g \in Submission /\ handler'[g].todo = Update
    \/ g \in Call /\ handler'[g].todo \in {Import, Remove, Rescan}
GoesOn(g) == handler[g].todo # <<>> /\ handler'[g].todo = Tail(handler[g].todo)

LEMMA FailedAnew ==
    ASSUME HandlersOK, NEW h \in Handler, handler[h].todo # <<>>
    PROVE  Failed(h).todo = <<>> \/ (h \in Submission /\ Failed(h).todo = Update)
  BY FailedOK, FailedIs DEF Handler

LEMMA StepTodo ==
    ASSUME IInv, NEW h \in Handler, Step(h)
    PROVE  /\ OnlyOne(h) /\ handler[h].todo # <<>> /\ DOMAIN handler = Handler
           /\ Anew(h) \/ GoesOn(h)
  <1> DEFINE r == handler[h]
  <1>1. /\ HandlersOK /\ DOMAIN handler = Handler /\ OnlyOne(h)
        /\ r.todo # <<>> /\ HandlerOK(r)
    BY StepMovesOne DEF IInv, HandlersOK
  <1>2. ASSUME Fail(h) PROVE Anew(h)
    <2>1. handler'[h] = Failed(h)
      BY <1>1, <1>2 DEF Fail
    <2> QED
      BY <1>1, <2>1, FailedAnew DEF Anew
  <1>3. ASSUME handler' = [handler EXCEPT ![h] = Done(h)] PROVE Anew(h)
    <2>1. handler'[h] = Done(h)
      BY <1>1, <1>3
    <2> QED
      BY <1>1, <2>1, DoneOK DEF Anew
  <1>4. CASE SetAccountHead(h)
    <2> DEFINE q == HeadRequest(r)
               rest == r.left \ q.blocks
               more == [r EXCEPT !.left = rest, !.sent = Append(@, q),
                                 !.start = StartAfter(Highest(q.blocks))]
               last == [r EXCEPT !.left = {}, !.sent = Append(@, q), !.todo = Tail(@)]
    <2>1. \/ handler' = [handler EXCEPT ![h] = more]
          \/ handler' = [handler EXCEPT ![h] = last]
          \/ Fail(h)
      BY <1>4 DEF SetAccountHead
    <2>2. more.todo = r.todo /\ last.todo = Tail(r.todo)
      BY <1>1, FreeIs DEF HandlerOK
    <2> HIDE DEF more, last
    <2>3. ASSUME NEW new, handler' = [handler EXCEPT ![h] = new] PROVE handler'[h] = new
      BY <1>1, <2>3
    <2> QED
      BY <1>1, <1>2, <2>1, <2>2, <2>3 DEF Anew, GoesOn
  <1>5. CASE ~ SetAccountHead(h)
    <2>1. Forward(h)
      BY <1>5, CallsForward DEF Step
    <2>2. ASSUME Proceed(h), Len(r.todo) # 1 PROVE GoesOn(h)
      <3>1. handler'[h] = [r EXCEPT !.todo = Tail(r.todo)]
        BY <1>1, <2>2 DEF Proceed
      <3> QED
        BY <1>1, <3>1, FreeIs DEF HandlerOK, GoesOn
    <2>3. ASSUME Proceed(h), Len(r.todo) = 1 PROVE Anew(h)
      BY <1>3, <2>3 DEF Proceed
    <2> QED
      BY <1>1, <1>2, <1>3, <2>1, <2>2, <2>3 DEF Forward
  <1> QED
    BY <1>1, <1>4, <1>5

\* The steps that are not calls; and a client's handler that has ended stays so.
LEMMA OtherTodo ==
    ASSUME IInv,
           \/ UNCHANGED handler
           \/ \E c \in Call : \E a \in Address : Receive(c, a)
           \/ \E s \in Submission : \E a \in Address : \E m \in Response : FinishScan(s, a, m)
           \/ \E s, other \in Submission : SubmitAgain(s, other)
           \/ ServerCrash \/ ScannerCrash,
           NEW g \in Handler
    PROVE  Anew(g)
  <1>1. /\ HandlersOK /\ DOMAIN handler = Handler /\ HandlerOK(handler[g])
        /\ Call \cap Submission = {} /\ Handler = Call \cup Submission
    BY ServerAssumption DEF IInv, HandlersOK, Handler
  <1>2. ASSUME NEW c \in Call, NEW a \in Address, Receive(c, a) PROVE Anew(g)
    <2>1. PICK todo \in {Import, Remove, Rescan} :
              handler' = [handler EXCEPT ![c] = [Free EXCEPT !.todo = todo, !.account = a]]
      BY <1>2 DEF Receive
    <2>2. [Free EXCEPT !.todo = todo, !.account = a].todo = todo
      BY FreeIs
    <2> QED
      BY <1>1, <2>1, <2>2 DEF Anew
  <1>3. ASSUME NEW s \in Submission, NEW a \in Address, NEW m \in Response,
               FinishScan(s, a, m)
        PROVE  Anew(g)
    BY <1>1, <1>3, SubmittedIs DEF FinishScan, Anew
  <1>4. ASSUME NEW s \in Submission, NEW other \in Submission, SubmitAgain(s, other)
        PROVE  Anew(g)
    <2> DEFINE old == [handler[s] EXCEPT !.tries = 1]
               new == Submitted(Account(s), handler[s].message, handler[s].tries - 1)
    <2>1. handler' = [handler EXCEPT ![s] = old, ![other] = new]
      BY <1>4 DEF SubmitAgain
    <2>2. HandlerOK(handler[s]) /\ new.todo = Update
      BY <1>1, SubmittedIs DEF HandlersOK
    <2>3. old.todo = handler[s].todo
      BY <2>2, TriesOK
    <2> HIDE DEF old, new
    <2> QED
      BY <1>1, <2>1, <2>2, <2>3 DEF Anew
  <1>5. CASE ServerCrash
    <2>1. handler'[g] = IF handler[g].todo # <<>> THEN Failed(g) ELSE handler[g]
      BY <1>5 DEF ServerCrash
    <2> QED
      BY <1>1, <2>1, FailedAnew DEF Anew
  <1>6. CASE ScannerCrash
    <2>1. handler'[g] \in {[handler[g] EXCEPT !.tries = 1], handler[g]}
      BY <1>6 DEF ScannerCrash
    <2> QED
      BY <1>1, <2>1, TriesOK DEF Anew
  <1> QED
    BY <1>2, <1>3, <1>4, <1>5, <1>6 DEF Anew

\* A plan begins before the head is read; those of clients do not set it.
LEMMA PlansBegin ==
    /\ \A plan \in Plans \cup {<<>>} : ~ HasRead(plan)
    /\ \A plan \in {Import, Remove, Rescan, <<>>} : NoHeads(plan)
  <1>1. ASSUME NEW plan \in Plans PROVE ~ HasRead(plan)
    <2>1. Len(plan) \in Nat \ {0} /\ plan[1] \in {"find", "auth"}
      BY Linked
    <2>2. 1 \in 1 .. Len(plan) /\ plan[1] \notin Reads
      BY <2>1 DEF Reads
    <2> QED
      BY <2>2 DEF HasRead
  <1>2. NoHeads(Import) /\ NoHeads(Remove) /\ NoHeads(Rescan) /\ NoHeads(<<>>)
    BY DEF NoHeads, Import, Remove, Rescan
  <1>3. ~ HasRead(<<>>)
    BY DEF HasRead
  <1> QED
    BY <1>1, <1>2, <1>3

LEMMA ReadBefore ==
    ASSUME IInv, NEW g \in Handler, Anew(g) \/ (GoesOn(g) /\ ~ At(g, "status")),
           HasRead(handler'[g].todo)
    PROVE  HasRead(handler[g].todo)
  <1>1. handler[g].todo \in Todo
    BY DEF IInv, HandlersOK, HandlerOK
  <1>2. CASE Anew(g)
    BY <1>2, PlansBegin DEF Anew, Plans
  <1>3. CASE GoesOn(g) /\ ~ At(g, "status")
    BY <1>1, <1>3, CallsLeft DEF GoesOn, At
  <1> QED
    BY <1>2, <1>3

LEMMA CallsNext ==
    ASSUME IInv, CallsOK, [Next]_vars
    PROVE  CallsOK'
  <1> SUFFICES ASSUME NEW c \in Call PROVE NoHeads(handler'[c].todo)
    BY DEF CallsOK, NoHeads
  <1>1. /\ c \in Handler /\ c \notin Submission /\ NoHeads(handler[c].todo)
        /\ handler[c].todo \in Todo
    BY ServerAssumption DEF CallsOK, Handler, IInv, HandlersOK, HandlerOK
  <1>2. ASSUME Anew(c) PROVE NoHeads(handler'[c].todo)
    BY <1>1, <1>2, PlansBegin DEF Anew
  <1>3. ASSUME GoesOn(c) PROVE NoHeads(handler'[c].todo)
    BY <1>1, <1>3, CallsLeft DEF GoesOn
  <1>4. ASSUME NEW h \in Handler, Step(h) PROVE NoHeads(handler'[c].todo)
    <2>1. CASE h = c
      BY <1>2, <1>3, <1>4, <2>1, StepTodo
    <2>2. CASE h # c
      <3>1. handler'[c] = handler[c]
        BY <1>1, <1>4, <2>2, StepTodo DEF OnlyOne
      <3> QED
        BY <1>1, <3>1
    <2> QED
      BY <2>1, <2>2
  <1> QED
    BY <1>1, <1>2, <1>4, OtherTodo DEF Next, MergeScans, vars

\* The locals that are left are right, if those of the calls are.
LEMMA NewLocals ==
    ASSUME NEW new, NEW read, Locals(new, read), chain' \in Nat,
           \A h \in Handler :
                /\ new[h].latest <= chain' /\ new[h].head <= chain'
                /\ HasRead(handler'[h].todo) => new[h].head # 0
    PROVE  LocalsOK'
  <1> SUFFICES ASSUME NEW h \in Handler
               PROVE  /\ local'[h].latest <= chain' /\ local'[h].head <= chain'
                      /\ HasRead(handler'[h].todo) => local'[h].head # 0
    BY DEF LocalsOK, HasRead
  <1>1. local'[h] = IF handler'[h].todo = <<>> THEN NoLocal ELSE new[h]
    BY DEF Locals
  <1>2. NoLocal.latest = 0 /\ NoLocal.head = 0
    BY DEF NoLocal
  <1>3. ~ HasRead(<<>>)
    BY DEF HasRead
  <1> QED
    BY <1>1, <1>2, <1>3

LEMMA LocalsNext ==
    ASSUME HInv, TInv, HeadNext
    PROVE  LocalsOK'
  <1>1. /\ IInv /\ chain \in Nat /\ local \in [Handler -> [latest : Nat, head : Nat]]
        /\ \A h \in Handler :
              /\ local[h].latest <= chain /\ local[h].head <= chain
              /\ HasRead(handler[h].todo) => local[h].head # 0
        /\ \A a \in Address : head[a] \in 1 .. chain
    BY DEF HInv, TInv, HeightsOK, LocalsOK, SeenOK
  <1>2. ASSUME \A h \in Handler : Anew(h) \/ handler'[h] = handler[h] \/
                                  (GoesOn(h) /\ ~ At(h, "status")),
               UNCHANGED chain,
               UNCHANGED local \/ \E read : Locals(local, read)
        PROVE  LocalsOK'
    <2>1. \A h \in Handler : HasRead(handler'[h].todo) => HasRead(handler[h].todo)
      BY <1>1, <1>2, ReadBefore
    <2>2. CASE UNCHANGED local
      BY <1>1, <1>2, <2>1, <2>2 DEF LocalsOK, HasRead
    <2>3. ASSUME NEW read, Locals(local, read) PROVE LocalsOK'
      BY <1>1, <1>2, <2>1, <2>3, NewLocals
    <2> QED
      BY <1>2, <2>2, <2>3
  <1>3. ASSUME NEW h \in Handler, Step(h)
        PROVE  /\ \A g \in Handler \ {h} : handler'[g] = handler[g]
               /\ Anew(h) \/ GoesOn(h)
    BY <1>1, <1>3, StepTodo DEF OnlyOne
  <1>4. ASSUME NEW h \in Handler, ReadHead(h) PROVE LocalsOK'
    <2> DEFINE new == [local EXCEPT ![h].head = head[Account(h)]]
    <2>1. /\ Step(h) /\ UNCHANGED chain /\ At(h, "status")
          /\ Locals(new, fresh \cup {h})
      BY <1>4 DEF ReadHead, Step, GetAccountStatus
    <2>2. Account(h) \in Address
      BY <1>1, <2>1, HasAccount DEF IInv, At
    <2>3. /\ new[h].latest = local[h].latest /\ new[h].head = head[Account(h)]
          /\ \A g \in Handler \ {h} : new[g] = local[g]
      BY <1>1
    <2> HIDE DEF new
    <2>4. ASSUME NEW g \in Handler
          PROVE  /\ new[g].latest <= chain' /\ new[g].head <= chain'
                 /\ HasRead(handler'[g].todo) => new[g].head # 0
      <3>1. CASE g = h
        BY <1>1, <2>1, <2>2, <2>3, <3>1
      <3>2. CASE g # h
        <4>1. handler'[g] = handler[g]
          BY <1>3, <2>1, <3>2
        <4> QED
          BY <1>1, <2>1, <2>3, <3>2, <4>1
      <3> QED
        BY <3>1, <3>2
    <2> QED
      BY <1>1, <2>1, <2>4, NewLocals
  <1>5. ASSUME NEW h \in Handler, ReadLatest(h) PROVE LocalsOK'
    <2> DEFINE new == [local EXCEPT ![h].latest = chain]
    <2>1. /\ Step(h) /\ UNCHANGED chain /\ ~ At(h, "status") /\ Locals(new, fresh)
      BY <1>5 DEF ReadLatest, Step, GetLatestBlock, At
    <2>2. /\ new[h].latest = chain /\ new[h].head = local[h].head
          /\ \A g \in Handler \ {h} : new[g] = local[g]
      BY <1>1
    <2> HIDE DEF new
    <2>3. ASSUME NEW g \in Handler, HasRead(handler'[g].todo) PROVE HasRead(handler[g].todo)
      BY <1>1, <1>3, <2>1, <2>3, ReadBefore
    <2> QED
      BY <1>1, <2>1, <2>2, <2>3, NewLocals
  <1>6. ASSUME NEW h \in Handler,
               HeadImport(h) \/ HeadReset(h) \/ HeadSet(h) \/ HeadSubmit(h) \/ HeadOther(h)
        PROVE  LocalsOK'
    <2>1. Step(h) /\ UNCHANGED chain /\ ~ At(h, "status")
      BY <1>6 DEF HeadImport, HeadReset, HeadSet, HeadSubmit, HeadOther, Step, At,
                  ImportAccount, ResetAccount, SetAccountHead, SubmitScanRequest,
                  Authorize, Find, Insert, Delete, Mark, Unmark, RemoveAccount,
                  PauseScanning, ResumeScanning
    <2>2. \E read : Locals(local, read)
      BY <1>6 DEF HeadImport, HeadReset, HeadSet, HeadSubmit, HeadOther, Restart, Unmoved
    <2> QED
      BY <1>2, <1>3, <2>1, <2>2
  <1>7. ASSUME \/ \E c \in Call, a \in Address : HeadReceive(c, a)
               \/ \E s \in Submission, a \in Address, m \in Response : HeadFinish(s, a, m)
               \/ \E a \in Address : HeadMerge(a)
               \/ \E s, other \in Submission : HeadSubmitAgain(s, other)
               \/ \E a \in Address : NodeScans(a)
               \/ HeadServerCrash \/ HeadScannerCrash
        PROVE  LocalsOK'
    <2>1. UNCHANGED local \/ \E read : Locals(local, read)
      BY <1>7 DEF HeadReceive, headVars, HeadFinish, HeadMerge, HeadSubmitAgain, NodeScans,
                  HeadServerCrash, HeadScannerCrash, Unmoved
    <2>2. UNCHANGED chain
      BY <1>7 DEF HeadReceive, headVars, HeadFinish, HeadMerge, HeadSubmitAgain, NodeScans,
                  HeadServerCrash, HeadScannerCrash
    <2>3. \/ UNCHANGED handler
          \/ \E c \in Call : \E a \in Address : Receive(c, a)
          \/ \E s \in Submission : \E a \in Address : \E m \in Response : FinishScan(s, a, m)
          \/ \E s, other \in Submission : SubmitAgain(s, other)
          \/ ServerCrash \/ ScannerCrash
      BY <1>7 DEF HeadReceive, HeadFinish, HeadMerge, HeadSubmitAgain, NodeScans,
                  HeadServerCrash, HeadScannerCrash, vars, MergeScans
    <2> QED
      BY <1>1, <1>2, <2>1, <2>2, <2>3, OtherTodo
  <1>8. CASE Grow
    <2>1. UNCHANGED <<handler, local>> /\ chain' = chain + 1
      BY <1>8 DEF Grow, vars
    <2>2. \A h \in Handler : local[h].latest \in Nat /\ local[h].head \in Nat
      BY <1>1
    <2> QED
      BY <1>1, <2>1, <2>2 DEF LocalsOK, HasRead
  <1> QED
    BY <1>4, <1>5, <1>6, <1>7, <1>8 DEF HeadNext, HeadStep

LEMMA SettingIs ==
    ASSUME NEW todo \in UpdateLeft, todo # <<>>
    PROVE  /\ Head(todo) = "setHead" => todo = <<"setHead", "resume", "unmark">>
                                        /\ Tail(todo) \notin Setting
           /\ Head(todo) # "setHead" /\ Tail(todo) \in Setting => todo \in Setting
  <1>1. \/ todo = Update \/ todo = <<"setHead", "resume", "unmark">>
        \/ todo = <<"resume", "unmark">> \/ todo = <<"unmark">>
    BY DEF UpdateLeft
  <1>2. /\ <<"resume", "unmark">> # Update /\ <<"unmark">> # Update /\ <<>> # Update
        /\ <<"resume", "unmark">> # <<"setHead", "resume", "unmark">>
        /\ <<"unmark">> # <<"setHead", "resume", "unmark">>
        /\ <<>> # <<"setHead", "resume", "unmark">>
    BY Lengths
  <1>3. <<"resume", "unmark">> \notin Setting /\ <<"unmark">> \notin Setting /\ <<>> \notin Setting
    BY <1>2 DEF Setting
  <1>4. CASE todo = Update
    BY <1>4, Lengths DEF Setting
  <1>5. CASE todo = <<"setHead", "resume", "unmark">>
    BY <1>3, <1>5, Lengths
  <1>6. CASE todo = <<"resume", "unmark">>
    BY <1>3, <1>6, Lengths
  <1>7. CASE todo = <<"unmark">>
    <2>1. Tail(todo) = <<>> /\ Head(todo) = "unmark"
      BY <1>7
    <2> QED
      BY <1>3, <2>1
  <1> QED
    BY <1>1, <1>4, <1>5, <1>6, <1>7

\* The requests for a response stay between its first block and its last.
LEMMA RequestEnds ==
    ASSUME NEW r, HandlerOK(r), ResponseOK(r), NEW n \in Nat, MessageOK(r, n),
           r.todo # <<>>, Head(r.todo) = "setHead"
    PROVE  LET q == HeadRequest(r)
           IN  /\ r.start \in Nat /\ q.end \in Nat /\ q.start = r.start
               /\ 1 <= r.start /\ r.start <= q.end /\ q.end <= r.message.to
               /\ r.left \ q.blocks # {} =>
                    StartAfter(Highest(q.blocks)) = q.end + 1 /\ q.end + 1 <= r.message.to
  <1> DEFINE q == HeadRequest(r)
             from == r.message.from
             to == r.message.to
             rest == r.left \ q.blocks
  <1>1. /\ r.message \in Response /\ from \in Nat /\ to \in Nat /\ 1 <= from
        /\ r.left \subseteq Height /\ Height \subseteq Nat
    BY ServerAssumption DEF MessageOK, HandlerOK, Height
  <1>2. r.todo = <<"setHead", "resume", "unmark">> /\ r.todo \in Setting
    BY SettingIs DEF ResponseOK, Setting
  <1>3. /\ r.sent \in Seq(HeadRequests) /\ r.start = Reached(r.sent, from)
        /\ r.start <= to /\ \A x \in r.left : r.start <= x /\ x <= to
    BY <1>2 DEF ResponseOK, MessageOK
  <1>4. r.start \in Nat /\ 1 <= r.start
    <2>1. CASE r.sent = <<>>
      BY <1>1, <1>3, <2>1 DEF Reached
    <2>2. CASE r.sent # <<>>
      <3>1. r.sent[Len(r.sent)] \in HeadRequests
        BY <1>3, <2>2, LenProperties, EmptySeq
      <3> QED
        BY <1>3, <2>2, <3>1 DEF Reached, HeadRequests
    <2> QED
      BY <2>1, <2>2
  <1>5. /\ q.start = r.start /\ q.blocks = Lowest(r.left)
        /\ q.end = IF rest # {} THEN Highest(q.blocks) ELSE to
    BY DEF HeadRequest
  <1>6. /\ q.blocks \subseteq r.left
        /\ rest # {} => /\ Highest(q.blocks) \in q.blocks
                       /\ \A x \in rest : x > Highest(q.blocks)
    BY <1>1, <1>5, Batch
  <1> HIDE DEF q
  <1>7. CASE rest = {}
    BY <1>1, <1>3, <1>4, <1>5, <1>7 DEF q
  <1>8. CASE rest # {}
    <2>1. PICK x \in r.left : x \in rest
      BY <1>8
    <2>2. /\ q.end = Highest(q.blocks) /\ q.end \in r.left /\ q.end \in Nat
          /\ x \in Nat /\ x > q.end /\ x <= to /\ q.end <= to /\ r.start <= q.end
      BY <1>1, <1>3, <1>5, <1>6, <1>8, <2>1
    <2>3. q.end + 1 <= to
      BY <1>1, <2>2
    <2> QED
      BY <1>4, <1>5, <2>2, <2>3 DEF StartAfter, q
  <1> QED
    BY <1>7, <1>8

LEMMA NewMessage ==
    ASSUME NEW a, NEW m \in Response, NEW tries, NEW n, m.to <= n
    PROVE  MessageOK(Submitted(a, m, tries), n)
  BY SubmittedIs, ServerAssumption DEF MessageOK

LEMMA NoMessageOK ==
    ASSUME NEW r, r.todo = <<>>, NEW n PROVE MessageOK(r, n)
  BY DEF MessageOK

LEMMA FailedMessage ==
    ASSUME NEW s \in Submission, handler[s].todo # <<>>, NEW n, MessageOK(handler[s], n)
    PROVE  MessageOK(Failed(s), n)
  <1>1. s \notin Call
    BY ServerAssumption
  <1>2. handler[s].message \in Response /\ handler[s].message.to <= n
    BY DEF MessageOK
  <1> QED
    BY <1>1, <1>2, NewMessage, NoMessageOK, FreeIs DEF Failed

LEMMA StepMessages ==
    ASSUME IInv, PlansOK, ResponsesOK, MessagesOK, chain \in Nat, NEW h \in Handler, Step(h)
    PROVE  \A s \in Submission : MessageOK(handler'[s], chain)
  <1> DEFINE r == handler[h]
  <1>1. /\ HandlersOK /\ DOMAIN handler = Handler /\ OnlyOne(h)
        /\ r.todo # <<>> /\ HandlerOK(r)
        /\ \A s \in Submission : s \in Handler /\ MessageOK(handler[s], chain)
    BY StepMovesOne DEF IInv, HandlersOK, MessagesOK, Handler
  <1> SUFFICES ASSUME h \in Submission PROVE MessageOK(handler'[h], chain)
    BY <1>1 DEF OnlyOne
  <1>2. h \notin Call /\ MessageOK(r, chain) /\ ResponseOK(r) /\ r.todo \in UpdateLeft
    BY <1>1, ServerAssumption DEF ResponsesOK, PlansOK
  <1>3. ASSUME Fail(h) PROVE MessageOK(handler'[h], chain)
    <2>1. handler'[h] = Failed(h)
      BY <1>1, <1>3 DEF Fail
    <2> QED
      BY <1>1, <1>2, <2>1, FailedMessage
  <1>4. ASSUME handler' = [handler EXCEPT ![h] = Done(h)] PROVE MessageOK(handler'[h], chain)
    <2>1. handler'[h] = Free
      BY <1>1, <1>2, <1>4 DEF Done
    <2> QED
      BY <2>1, NoMessageOK, FreeIs
  <1>5. CASE SetAccountHead(h)
    <2> DEFINE q == HeadRequest(r)
               rest == r.left \ q.blocks
               more == [r EXCEPT !.left = rest, !.sent = Append(@, q),
                                 !.start = StartAfter(Highest(q.blocks))]
               last == [r EXCEPT !.left = {}, !.sent = Append(@, q), !.todo = Tail(@)]
    <2>1. /\ Head(r.todo) = "setHead"
          /\ \/ rest # {} /\ handler' = [handler EXCEPT ![h] = more]
             \/ rest = {} /\ handler' = [handler EXCEPT ![h] = last]
             \/ Fail(h)
      BY <1>5 DEF SetAccountHead, At
    <2>2. rest # {} => StartAfter(Highest(q.blocks)) <= r.message.to
      BY <1>1, <1>2, <2>1, RequestEnds
    <2>3. /\ more.message = r.message /\ more.start = StartAfter(Highest(q.blocks))
          /\ last.message = r.message /\ last.todo = Tail(r.todo)
      BY <1>1, FreeIs DEF HandlerOK
    <2> HIDE DEF more, last, rest, q
    <2>4. ASSUME NEW new, handler' = [handler EXCEPT ![h] = new] PROVE handler'[h] = new
      BY <1>1, <2>4
    <2>5. /\ r.message \in Response /\ r.message.to <= chain /\ Tail(r.todo) \notin Setting
      BY <1>1, <1>2, <2>1, SettingIs DEF MessageOK
    <2>6. rest # {} => MessageOK(more, chain)
      BY <2>2, <2>3, <2>5 DEF MessageOK
    <2>7. MessageOK(last, chain)
      BY <2>3, <2>5 DEF MessageOK
    <2> QED
      BY <1>3, <2>1, <2>4, <2>6, <2>7
  <1>6. CASE ~ SetAccountHead(h)
    <2>1. Head(r.todo) # "setHead" /\ Forward(h)
      BY <1>6, CallsForward DEF Step
    <2>2. ASSUME Proceed(h), Len(r.todo) # 1 PROVE MessageOK(handler'[h], chain)
      <3> DEFINE new == [r EXCEPT !.todo = Tail(r.todo)]
      <3>1. handler'[h] = new
        BY <1>1, <2>2 DEF Proceed
      <3>2. new.todo = Tail(r.todo) /\ new.message = r.message /\ new.start = r.start
        BY <1>1, FreeIs DEF HandlerOK
      <3> HIDE DEF new
      <3> QED
        BY <1>1, <1>2, <2>1, <3>1, <3>2, SettingIs DEF MessageOK
    <2>3. ASSUME Proceed(h), Len(r.todo) = 1 PROVE MessageOK(handler'[h], chain)
      BY <1>4, <2>3 DEF Proceed
    <2> QED
      BY <1>3, <1>4, <2>1, <2>2, <2>3 DEF Forward
  <1> QED
    BY <1>5, <1>6

LEMMA MessagesNext ==
    ASSUME HInv, ResponsesOK, MessagesOK, HeadNext
    PROVE  MessagesOK'
  <1>1. /\ IInv /\ PlansOK /\ HandlersOK /\ DOMAIN handler = Handler /\ chain \in Nat
        /\ \A s \in Submission : /\ s \in Handler /\ s \notin Call
                                 /\ HandlerOK(handler[s]) /\ MessageOK(handler[s], chain)
    BY ServerAssumption DEF HInv, HeightsOK, IInv, HandlersOK, MessagesOK, Handler
  <1>2. ASSUME UNCHANGED chain, \A s \in Submission : MessageOK(handler'[s], chain)
        PROVE  MessagesOK'
    BY <1>2 DEF MessagesOK, MessageOK
  <1>3. ASSUME NEW h \in Handler, HeadStep(h) PROVE MessagesOK'
    <2>1. Step(h) /\ UNCHANGED chain
      BY <1>3 DEF HeadStep, HeadImport, HeadReset, ReadLatest, ReadHead, HeadSet,
                  HeadSubmit, HeadOther, Step
    <2> QED
      BY <1>1, <1>2, <2>1, StepMessages
  <1>4. ASSUME NEW c \in Call, NEW a \in Address, HeadReceive(c, a) PROVE MessagesOK'
    <2>1. UNCHANGED chain /\ \A s \in Submission : handler'[s] = handler[s]
      BY <1>1, <1>4 DEF HeadReceive, Receive, headVars
    <2> QED
      BY <1>1, <1>2, <2>1
  <1>5. ASSUME NEW s \in Submission, NEW a \in Address, NEW m \in Response, HeadFinish(s, a, m)
        PROVE  MessagesOK'
    <2>1. /\ m.to <= chain /\ UNCHANGED chain
          /\ \A g \in Submission : handler'[g] \in {handler[g], Submitted(a, m, MaxTries)}
      BY <1>1, <1>5 DEF HeadFinish, FinishScan
    <2> QED
      BY <1>1, <1>2, <2>1, NewMessage
  <1>6. ASSUME NEW s \in Submission, NEW other \in Submission, HeadSubmitAgain(s, other)
        PROVE  MessagesOK'
    <2> DEFINE old == [handler[s] EXCEPT !.tries = 1]
               new == Submitted(Account(s), handler[s].message, handler[s].tries - 1)
    <2>1. /\ handler' = [handler EXCEPT ![s] = old, ![other] = new]
          /\ UNCHANGED chain /\ handler[s].todo # <<>>
      BY <1>6 DEF HeadSubmitAgain, SubmitAgain
    <2>2. MessageOK(old, chain)
      <3>1. /\ old.todo = handler[s].todo /\ old.message = handler[s].message
            /\ old.start = handler[s].start
        BY <1>1, FreeIs DEF HandlerOK
      <3> HIDE DEF old
      <3> QED
        BY <1>1, <3>1 DEF MessageOK
    <2>3. MessageOK(new, chain)
      <3>1. handler[s].message \in Response /\ handler[s].message.to <= chain
        BY <1>1, <2>1 DEF MessageOK
      <3> QED
        BY <3>1, NewMessage
    <2> HIDE DEF old, new
    <2>4. \A g \in Submission : handler'[g] \in {handler[g], old, new}
      BY <1>1, <2>1
    <2> QED
      BY <1>1, <1>2, <2>1, <2>2, <2>3, <2>4
  <1>7. CASE HeadServerCrash
    <2>1. UNCHANGED chain /\ \A g \in Submission : handler'[g] =
                IF handler[g].todo # <<>> THEN Failed(g) ELSE handler[g]
      BY <1>1, <1>7 DEF HeadServerCrash, ServerCrash
    <2> QED
      BY <1>1, <1>2, <2>1, FailedMessage
  <1>8. CASE HeadScannerCrash
    <2>1. UNCHANGED chain /\ \A g \in Submission : handler'[g] \in
                {[handler[g] EXCEPT !.tries = 1], handler[g]}
      BY <1>1, <1>8 DEF HeadScannerCrash, ScannerCrash
    <2>2. ASSUME NEW g \in Submission PROVE MessageOK([handler[g] EXCEPT !.tries = 1], chain)
      <3> DEFINE old == [handler[g] EXCEPT !.tries = 1]
      <3>1. /\ old.todo = handler[g].todo /\ old.message = handler[g].message
            /\ old.start = handler[g].start
        BY <1>1, FreeIs DEF HandlerOK
      <3> HIDE DEF old
      <3>2. MessageOK(old, chain)
        BY <1>1, <3>1 DEF MessageOK
      <3> QED
        BY <3>2 DEF old
    <2> QED
      BY <1>1, <1>2, <2>1, <2>2
  <1>9. CASE (\E a \in Address : HeadMerge(a)) \/ (\E a \in Address : NodeScans(a))
    <2>1. UNCHANGED <<chain, handler>>
      BY <1>9 DEF HeadMerge, MergeScans, NodeScans, vars
    <2> QED
      BY <1>1, <1>2, <2>1
  <1>10. CASE Grow
    <2>1. UNCHANGED handler /\ chain' = chain + 1
      BY <1>10 DEF Grow, vars
    <2>2. \A s \in Submission : handler[s].message.to \in Nat
      BY <1>1, MessageIs
    <2> QED
      BY <1>1, <2>1, <2>2 DEF MessagesOK, MessageOK
  <1> QED
    BY <1>3, <1>4, <1>5, <1>6, <1>7, <1>8, <1>9, <1>10 DEF HeadNext

LEMMA SeenNext ==
    ASSUME HInv, TInv, ResponsesOK, HeadNext
    PROVE  SeenOK'
  <1>1. /\ IInv /\ HandlersOK /\ PlansOK /\ chain \in Height /\ MaxHeight \in Nat
        /\ chain \in Nat /\ head \in [Address -> Nat] /\ seen \in [Address -> SUBSET Nat]
        /\ missed \in [Address -> SUBSET Nat]
        /\ \A a \in Address : /\ head[a] \in seen[a] \cup missed[a]
                               /\ seen[a] \cup missed[a] \subseteq 1 .. chain
        /\ astray \subseteq Address
    BY ServerAssumption DEF HInv, TInv, SeenOK, IInv, HeightsOK, Height
  <1>2. ASSUME UNCHANGED <<chain, head, seen, missed, astray>> PROVE SeenOK'
    BY <1>1, <1>2 DEF SeenOK
  <1>3. ASSUME NEW h \in Handler, HeadImport(h) \/ HeadReset(h) PROVE SeenOK'
    <2>1. UNCHANGED chain /\ (Restart(Account(h), h) \/ Unmoved)
      BY <1>3 DEF HeadImport, HeadReset
    <2>2. CASE Unmoved
      BY <1>2, <2>1, <2>2 DEF Unmoved
    <2>3. CASE Restart(Account(h), h)
      <3>1. \A a \in Address :
                \/ head'[a] = head[a] /\ seen'[a] = seen[a] /\ missed'[a] = missed[a]
                \/ head'[a] = 1 /\ seen'[a] = {1} /\ missed'[a] = {}
        BY <1>1, <2>3 DEF Restart
      <3>2. 1 \in 1 .. chain
        BY <1>1 DEF Height
      <3>3. astray' \subseteq Address
        BY <1>1, <2>3 DEF Restart
      <3> QED
        BY <1>1, <2>1, <3>1, <3>2, <3>3 DEF SeenOK
    <2> QED
      BY <2>1, <2>2, <2>3
  <1>4. ASSUME NEW h \in Handler, HeadSet(h) PROVE SeenOK'
    <2> DEFINE r == handler[h]
               q == HeadRequest(r)
               a == Account(h)
    <2>1. /\ HandlerOK(r) /\ r.todo # <<>> /\ Head(r.todo) = "setHead" /\ UNCHANGED chain
          /\ r.todo \in Todo
      BY <1>1, <1>4 DEF HeadSet, SetAccountHead, At, HandlersOK, HandlerOK
    <2>2. h \in Submission
      <3>1. h \in Call => NoHeads(r.todo)
        BY DEF TInv, CallsOK
      <3> QED
        BY <2>1, <3>1, CallsLeft DEF Handler
    <2>3. ResponseOK(r) /\ MessageOK(r, chain)
      BY <2>2 DEF ResponsesOK, TInv, MessagesOK
    <2>4. /\ r.start \in Nat /\ q.end \in Nat /\ q.start = r.start
          /\ 1 <= r.start /\ r.start <= q.end /\ q.end <= r.message.to
      BY <1>1, <2>1, <2>3, RequestEnds
    <2>5. r.message.to <= chain /\ r.message.to \in Nat
      BY <1>1, <2>1, <2>3, MessageIs DEF MessageOK
    <2> HIDE DEF r, q, a
    <2>6. q.start .. q.end \subseteq 1 .. chain /\ q.end \in q.start .. q.end
      BY <1>1, <2>4, <2>5
    <2> DEFINE range == q.start .. q.end
               Grown(passed) ==
                    /\ head' = [head EXCEPT ![a] = q.end]
                    /\ seen' = [seen EXCEPT ![a] = @ \cup (range \ passed)]
                    /\ missed' = [missed EXCEPT ![a] = (@ \ range) \cup passed]
    <2>7. \/ UNCHANGED <<head, seen, missed>>
          \/ \E passed \in SUBSET range : Grown(passed)
      BY <1>4 DEF HeadSet, r, q, a
    <2>8. astray' \subseteq astray \cup {a} /\ a \in Address
      BY <1>1, <1>4, <2>1, HasAccount DEF HeadSet, r, a, IInv
    <2> HIDE DEF range
    <2>9. \A b \in Address :
            \/ head'[b] = head[b] /\ seen'[b] = seen[b] /\ missed'[b] = missed[b]
            \/ head'[b] = q.end /\ seen'[b] \cup missed'[b] = seen[b] \cup missed[b] \cup range
      <3>1. ASSUME NEW passed \in SUBSET range, Grown(passed), NEW b \in Address
            PROVE  \/ head'[b] = head[b] /\ seen'[b] = seen[b] /\ missed'[b] = missed[b]
                   \/ /\ head'[b] = q.end
                      /\ seen'[b] \cup missed'[b] = seen[b] \cup missed[b] \cup range
        <4>1. CASE b = a
          BY <1>1, <3>1, <4>1
        <4>2. CASE b # a
          BY <1>1, <3>1, <4>2
        <4> QED
          BY <4>1, <4>2
      <3> QED
        BY <2>7, <3>1
    <2>10. \A b \in Address : /\ head'[b] \in seen'[b] \cup missed'[b]
                              /\ seen'[b] \cup missed'[b] \subseteq 1 .. chain
      BY <1>1, <2>6, <2>9 DEF range
    <2> QED
      BY <1>1, <2>1, <2>8, <2>10 DEF SeenOK
  <1>5. ASSUME NEW a \in Address, NodeScans(a) PROVE SeenOK'
    <2>1. /\ head[a] < chain /\ UNCHANGED chain
          /\ head' = [head EXCEPT ![a] = @ + 1]
          /\ seen' = [seen EXCEPT ![a] = @ \cup {head[a] + 1}]
          /\ UNCHANGED <<missed, astray>>
      BY <1>5 DEF NodeScans
    <2>2. head[a] + 1 \in 1 .. chain
      BY <1>1, <2>1
    <2> QED
      BY <1>1, <2>1, <2>2 DEF SeenOK
  <1>6. CASE Grow
    <2>1. chain < MaxHeight /\ chain' = chain + 1 /\ UNCHANGED <<head, seen, missed, astray>>
      BY <1>6 DEF Grow
    <2>2. chain' \in Height /\ 1 .. chain \subseteq 1 .. chain'
      BY <1>1, <2>1 DEF Height
    <2> QED
      BY <1>1, <2>1, <2>2 DEF SeenOK
  <1>7. ASSUME NEW h \in Handler, ReadLatest(h) \/ ReadHead(h) \/ HeadSubmit(h) \/ HeadOther(h)
        PROVE  SeenOK'
    BY <1>2, <1>7 DEF ReadLatest, ReadHead, HeadSubmit, HeadOther, Unmoved
  <1>8. ASSUME \/ \E c \in Call, a \in Address : HeadReceive(c, a)
               \/ \E s \in Submission, a \in Address, m \in Response : HeadFinish(s, a, m)
               \/ \E a \in Address : HeadMerge(a)
               \/ \E s, other \in Submission : HeadSubmitAgain(s, other)
               \/ HeadServerCrash \/ HeadScannerCrash
        PROVE  SeenOK'
    BY <1>2, <1>8 DEF HeadReceive, headVars, HeadFinish, HeadMerge, HeadSubmitAgain,
                      HeadServerCrash, HeadScannerCrash, Unmoved
  <1> QED
    BY <1>3, <1>4, <1>5, <1>6, <1>7, <1>8 DEF HeadNext, HeadStep

\* A client's handler that has ended stays as it is.
LEMMA EndedStays ==
    ASSUME IInv, [Next]_vars, NEW c \in Call, handler[c].todo = <<>>, handler[c].account # NoAddress
    PROVE  handler'[c] = handler[c]
  <1>1. /\ HandlersOK /\ DOMAIN handler = Handler /\ c \in Handler /\ c \notin Submission
        /\ handler[c] # Free
    BY ServerAssumption, FreeIs DEF IInv, HandlersOK, Handler
  <1>2. ASSUME NEW h \in Handler, Step(h) PROVE handler'[c] = handler[c]
    BY <1>1, <1>2, StepTodo DEF OnlyOne
  <1>3. ASSUME NEW b \in Call, NEW a \in Address, Receive(b, a) PROVE handler'[c] = handler[c]
    BY <1>1, <1>3 DEF Receive
  <1>4. ASSUME NEW s \in Submission, NEW a \in Address, NEW m \in Response, FinishScan(s, a, m)
        PROVE  handler'[c] = handler[c]
    BY <1>1, <1>4 DEF FinishScan
  <1>5. ASSUME NEW s \in Submission, NEW other \in Submission, SubmitAgain(s, other)
        PROVE  handler'[c] = handler[c]
    <2> DEFINE old == [handler[s] EXCEPT !.tries = 1]
               new == Submitted(Account(s), handler[s].message, handler[s].tries - 1)
    <2>1. handler' = [handler EXCEPT ![s] = old, ![other] = new]
      BY <1>5 DEF SubmitAgain
    <2> HIDE DEF old, new
    <2> QED
      BY <1>1, <2>1
  <1>6. CASE ServerCrash
    BY <1>1, <1>6 DEF ServerCrash
  <1>7. CASE ScannerCrash
    BY <1>1, <1>7 DEF ScannerCrash
  <1>8. CASE \E a \in Address : MergeScans(a)
    BY <1>8 DEF MergeScans
  <1> QED
    BY <1>2, <1>3, <1>4, <1>5, <1>6, <1>7, <1>8 DEF Next, vars

\* What is asked of one request, as the handlers are now.
RequestOK(r) ==
    /\ r.head \in 1 .. chain
    /\ r.by \in Call
    /\ handler[r.by].todo = <<>> /\ handler[r.by].account # NoAddress

\* The requests that are kept are right.
LEMMA KeptRequests ==
    ASSUME HInv, RequestsOK, [Next]_vars, chain' \in Nat, chain <= chain',
           NEW a \in Address, NEW r \in request[a]
    PROVE  RequestOK(r)'
  <1>1. /\ r.head \in 1 .. chain /\ r.by \in Call
        /\ handler[r.by].todo = <<>> /\ handler[r.by].account # NoAddress
    BY DEF RequestsOK
  <1>2. handler'[r.by] = handler[r.by]
    BY <1>1, EndedStays DEF HInv
  <1>3. r.head \in 1 .. chain'
    BY <1>1 DEF HInv, HeightsOK
  <1> QED
    BY <1>1, <1>2, <1>3 DEF RequestOK

\* A request that is not fresh any more keeps the handler it is by.
LEMMA StaleCount ==
    ASSUME NEW S, S \subseteq Requests, IsFiniteSet(S),
           \A q, r \in S : q.by = r.by => q = r
    PROVE  /\ IsFiniteSet(Stale(S)) /\ Cardinality(Stale(S)) = Cardinality(S)
           /\ \A q, r \in Stale(S) : q.by = r.by => q = r
           /\ \A q \in Stale(S) : \E r \in S : q.by = r.by /\ q.head = r.head
  <1> DEFINE old(r) == [r EXCEPT !.fresh = FALSE]
             f == [r \in S |-> old(r)]
  <1>1. \A r \in S : old(r).by = r.by /\ old(r).head = r.head
    BY DEF Requests
  <1>2. \A q : q \in Stale(S) <=> \E r \in S : q = old(r)
    BY DEF Stale
  <1> HIDE DEF old
  <1>3. f \in Bijection(S, Stale(S))
    <2>1. f \in [S -> Stale(S)]
      BY <1>2
    <2>2. \A q, r \in S : f[q] = f[r] => q = r
      BY <1>1
    <2>3. \A q \in Stale(S) : \E r \in S : f[r] = q
      BY <1>2
    <2> HIDE DEF f
    <2> QED
      BY <2>1, <2>2, <2>3 DEF Bijection, Injection, IsInjective, Surjection
  <1>4. IsFiniteSet(Stale(S)) /\ Cardinality(Stale(S)) = Cardinality(S)
    BY <1>3, FS_Bijection DEF ExistsBijection
  <1> QED
    BY <1>1, <1>2, <1>4

LEMMA RequestsNext ==
    ASSUME HInv, TInv, HeadNext
    PROVE  RequestsOK'
  <1>1. /\ IInv /\ HandlersOK /\ DOMAIN handler = Handler /\ PlansOK
        /\ chain \in Nat /\ scans \in [Address -> Nat]
        /\ request \in [Address -> SUBSET Requests]
        /\ local \in [Handler -> [latest : Nat, head : Nat]]
    BY DEF HInv, HeightsOK, IInv, HandlersOK, StoresOK
  <1>2. \A a \in Address :
            /\ IsFiniteSet(request[a]) /\ Cardinality(request[a]) = scans[a]
            /\ \A r \in request[a] : r.head \in 1 .. chain /\ r.by \in Call
            /\ \A q, r \in request[a] : q.by = r.by => q = r
    BY DEF TInv, RequestsOK
  <1>3. chain' \in Nat /\ chain <= chain'
    <2>1. UNCHANGED chain \/ chain' = chain + 1
      BY DEF HeadNext, HeadStep, HeadReceive, headVars, HeadImport, HeadReset, ReadLatest,
             ReadHead, HeadSet, HeadSubmit, HeadOther, HeadFinish, HeadMerge,
             HeadSubmitAgain, NodeScans, HeadServerCrash, HeadScannerCrash, Grow
    <2> QED
      BY <1>1, <2>1
  <1>4. \A a \in Address : \A r \in request[a] : RequestOK(r)'
    BY <1>3, HeadNextIsNext, KeptRequests DEF TInv
  \* The next ones of one account.
  <1> DEFINE Right(a) ==
                /\ IsFiniteSet(request'[a]) /\ Cardinality(request'[a]) = scans'[a]
                /\ \A r \in request'[a] : RequestOK(r)'
                /\ \A q, r \in request'[a] : q.by = r.by => q = r
  <1>5. ASSUME \A a \in Address : Right(a) PROVE RequestsOK'
    BY <1>5 DEF RequestsOK, RequestOK
  <1>6. ASSUME NEW a \in Address, request'[a] = request[a], scans'[a] = scans[a] PROVE Right(a)
    BY <1>2, <1>4, <1>6
  <1>7. ASSUME UNCHANGED <<request, scans>> PROVE RequestsOK'
    BY <1>5, <1>6, <1>7
  \* One request is settled.
  <1>8. ASSUME NEW a \in Address, NEW r \in request[a], scans' = Settled(a), scans[a] > 0,
               request' = [request EXCEPT ![a] = @ \ {r}]
        PROVE  RequestsOK'
    <2>1. Right(a)
      <3>1. request'[a] = request[a] \ {r} /\ scans'[a] = scans[a] - 1
        BY <1>1, <1>8 DEF Settled
      <3>2. /\ IsFiniteSet(request[a] \ {r})
            /\ Cardinality(request[a] \ {r}) = Cardinality(request[a]) - 1
        BY <1>2, <1>8, FS_RemoveElement
      <3> QED
        BY <1>2, <1>4, <3>1, <3>2
    <2>2. \A b \in Address \ {a} : request'[b] = request[b] /\ scans'[b] = scans[b]
      BY <1>1, <1>8 DEF Settled
    <2> HIDE DEF Right
    <2> QED
      BY <1>5, <1>6, <2>1, <2>2
  <1>9. ASSUME NEW s \in Submission, NEW a \in Address, NEW m \in Response, HeadFinish(s, a, m)
        PROVE  RequestsOK'
    <2>1. PICK r \in request[a] : request' = [request EXCEPT ![a] = @ \ {r}]
      BY <1>9 DEF HeadFinish
    <2> QED
      BY <1>8, <1>9, <2>1 DEF HeadFinish, FinishScan
  <1>10. ASSUME NEW a \in Address, HeadMerge(a) PROVE RequestsOK'
    <2>1. PICK r \in request[a] : request' = [request EXCEPT ![a] = @ \ {r}]
      BY <1>10 DEF HeadMerge
    <2>2. scans' = Settled(a) /\ scans[a] > 0
      BY <1>1, <1>10 DEF HeadMerge, MergeScans
    <2> QED
      BY <1>8, <2>1, <2>2
  \* The account starts again.
  <1>11. ASSUME NEW h \in Handler, HeadImport(h) \/ HeadReset(h) PROVE RequestsOK'
    <2> DEFINE a == Account(h)
    <2>1. UNCHANGED scans /\ (Restart(a, h) \/ Unmoved)
      BY <1>11 DEF HeadImport, HeadReset, ImportAccount, ResetAccount, NodeCall
    <2>2. CASE Unmoved
      BY <1>7, <2>1, <2>2 DEF Unmoved
    <2>3. CASE Restart(a, h)
      <3>1. request' = [request EXCEPT ![a] = Stale(request[a])]
        BY <2>3 DEF Restart
      <3>2. ASSUME a \in Address PROVE Right(a)
        <4>1. request'[a] = Stale(request[a]) /\ request[a] \subseteq Requests
          BY <1>1, <3>1, <3>2
        <4>2. /\ IsFiniteSet(Stale(request[a]))
              /\ Cardinality(Stale(request[a])) = Cardinality(request[a])
              /\ \A q, r \in Stale(request[a]) : q.by = r.by => q = r
              /\ \A q \in Stale(request[a]) : \E r \in request[a] :
                    q.by = r.by /\ q.head = r.head
          BY <1>2, <3>2, <4>1, StaleCount
        <4>3. \A q \in request'[a] : RequestOK(q)'
          BY <1>4, <3>2, <4>1, <4>2 DEF RequestOK
        <4> QED
          BY <1>2, <2>1, <3>2, <4>1, <4>2, <4>3
      <3>3. \A b \in Address \ {a} : request'[b] = request[b]
        BY <1>1, <3>1
      <3> HIDE DEF Right
      <3> QED
        BY <1>5, <1>6, <2>1, <3>2, <3>3
    <2> QED
      BY <2>1, <2>2, <2>3
  \* A client's last call, which it makes once.
  <1>12. ASSUME NEW h \in Handler, HeadSubmit(h) PROVE RequestsOK'
    <2>0. PICK new, a : /\ new = [by |-> h, head |-> local[h].head, fresh |-> h \in fresh]
                        /\ a = Account(h)
      OBVIOUS
    <2>1. /\ SubmitScanRequest(h) /\ UNCHANGED chain /\ HandlerOK(handler[h])
          /\ handler[h].todo # <<>> /\ Head(handler[h].todo) = "submit"
          /\ a \in Address /\ handler[h].todo \in Todo
      BY <1>1, <1>12, <2>0, HasAccount DEF HeadSubmit, SubmitScanRequest, At, HandlersOK,
                                           HandlerOK
    <2>2. HasRead(handler[h].todo) /\ Tail(handler[h].todo) = <<>>
      BY <2>1, CallsLeft
    <2>3. h \in Call
      <3>1. h \in Submission => handler[h].todo \in UpdateLeft
        BY <1>1 DEF PlansOK
      <3> QED
        BY <2>1, <3>1, UpdateLeftIs DEF Handler
    <2>4. handler'[h] = Answered(handler[h])
      <3>1. Len(handler[h].todo) = 1
        BY <2>1, <2>2, NextCall
      <3> QED
        BY <1>1, <2>1, <2>3, <3>1 DEF SubmitScanRequest, Proceed, Fail, Done, Failed
    <2>5. handler'[h].todo = <<>> /\ handler'[h].account = a /\ a # NoAddress
      <3>1. Answered(handler[h]).account = handler[h].account
        BY FreeIs DEF Answered, Free
      <3> QED
        BY <2>0, <2>1, <2>4, <3>1, AnsweredIs, ServerAssumption DEF Account
    <2>6. /\ new.by = h /\ new.head = local[h].head
          /\ local[h].head \in Nat /\ local[h].head <= chain /\ local[h].head # 0
      BY <1>1, <2>0, <2>2 DEF TInv, LocalsOK
    <2>7. RequestOK(new)'
      <3>1. new.head \in 1 .. chain'
        BY <1>1, <2>1, <2>6
      <3> QED
        BY <2>3, <2>5, <2>6, <3>1 DEF RequestOK
    <2>8. \A r \in request[a] : r.by # h
      BY <2>1 DEF TInv, RequestsOK
    <2>9. CASE scans' = scans
      <3>1. request' = request
        BY <1>12, <2>9 DEF HeadSubmit
      <3> QED
        BY <1>7, <2>9, <3>1
    <2>10. CASE scans' # scans
      <3>1. /\ scans' = Taken(a)
            /\ request' = [request EXCEPT ![a] = @ \cup {new}]
        BY <1>12, <2>0, <2>1, <2>10 DEF HeadSubmit, SubmitScanRequest
      <3>2. /\ request'[a] = request[a] \cup {new} /\ scans'[a] = scans[a] + 1
            /\ \A b \in Address \ {a} : request'[b] = request[b] /\ scans'[b] = scans[b]
        BY <1>1, <2>1, <3>1 DEF Taken
      <3>3. new \notin request[a]
        BY <2>6, <2>8
      <3>4. /\ IsFiniteSet(request[a] \cup {new})
            /\ Cardinality(request[a] \cup {new}) = Cardinality(request[a]) + 1
        BY <1>2, <2>1, <3>3, FS_AddElement
      <3>5. Right(a)
        <4>1. \A q, r \in request'[a] : q.by = r.by => q = r
          BY <1>2, <2>1, <2>6, <2>8, <3>2
        <4>2. \A r \in request'[a] : RequestOK(r)'
          BY <1>4, <2>1, <2>7, <3>2
        <4> QED
          BY <1>2, <2>1, <3>2, <3>4, <4>1, <4>2
      <3> HIDE DEF Right
      <3> QED
        BY <1>5, <1>6, <3>2, <3>5
    <2> QED
      BY <2>9, <2>10
  <1>13. ASSUME HeadScannerCrash PROVE RequestsOK'
    <2>1. \A a \in Address : request'[a] = {} /\ scans'[a] = 0
      BY <1>13 DEF HeadScannerCrash, ScannerCrash
    <2>2. \A a \in Address : Right(a)
      BY <2>1, FS_EmptySet
    <2> HIDE DEF Right
    <2> QED
      BY <1>5, <2>2
  <1>14. ASSUME NEW h \in Handler, ReadLatest(h) \/ ReadHead(h) \/ HeadSet(h) \/ HeadOther(h)
         PROVE  RequestsOK'
    <2>1. UNCHANGED request
      BY <1>14 DEF ReadLatest, ReadHead, HeadSet, HeadOther, Unmoved
    <2>2. UNCHANGED scans
      BY <1>14 DEF ReadLatest, ReadHead, HeadSet, HeadOther, GetLatestBlock, GetAccountStatus,
                   SetAccountHead, Authorize, Find, Insert, Delete, Mark, Unmark,
                   RemoveAccount, PauseScanning, ResumeScanning, NodeCall, DbCall
    <2> QED
      BY <1>7, <2>1, <2>2
  <1>15. ASSUME \/ \E c \in Call, a \in Address : HeadReceive(c, a)
                \/ \E s, other \in Submission : HeadSubmitAgain(s, other)
                \/ \E a \in Address : NodeScans(a)
                \/ HeadServerCrash \/ Grow
         PROVE  RequestsOK'
    <2>1. UNCHANGED <<request, scans>>
      BY <1>15 DEF HeadReceive, headVars, Receive, HeadSubmitAgain, SubmitAgain, NodeScans,
                   HeadServerCrash, ServerCrash, Unmoved, Grow, vars
    <2> QED
      BY <1>7, <2>1
  <1> HIDE DEF Right
  <1> QED
    BY <1>9, <1>10, <1>11, <1>12, <1>13, <1>14, <1>15 DEF HeadNext, HeadStep

----------------------------------------------------------------------------
(* The invariant of the heights and the requests.                          *)

LEMMA InitTInv == HeadInit => TInv
  <1> SUFFICES ASSUME HeadInit PROVE TInv
    OBVIOUS
  <1>1. /\ chain = 1 /\ MaxHeight \in Nat /\ 1 <= MaxHeight
        /\ \A h \in Handler : handler[h] = Free /\ local[h] = NoLocal
        /\ NoLocal.latest = 0 /\ NoLocal.head = 0
    BY ServerAssumption, HeadAssumption DEF HeadInit, Init, NoLocal
  <1>2. SeenOK
    BY <1>1 DEF HeadInit, SeenOK, Height
  <1>3. LocalsOK
    BY <1>1, FreeIs DEF LocalsOK, HasRead
  <1>4. CallsOK /\ MessagesOK
    BY <1>1, FreeIs, PlansBegin DEF CallsOK, MessagesOK, MessageOK, Handler
  <1>5. RequestsOK
    BY FS_EmptySet DEF HeadInit, Init, RequestsOK
  <1> QED
    BY <1>2, <1>3, <1>4, <1>5 DEF TInv

LEMMA NextTInv == HInv /\ ResponsesOK /\ TInv /\ [HeadNext]_allVars => TInv'
  <1> SUFFICES ASSUME HInv, ResponsesOK, TInv, [HeadNext]_allVars PROVE TInv'
    OBVIOUS
  <1>1. CASE UNCHANGED allVars
    BY <1>1 DEF allVars, vars, headVars, TInv, SeenOK, LocalsOK, HasRead, CallsOK, NoHeads,
                MessagesOK, MessageOK, RequestsOK
  <1>2. CASE HeadNext
    <2>1. [Next]_vars
      BY <1>2, HeadNextIsNext
    <2> QED
      BY <1>2, <2>1, SeenNext, LocalsNext, CallsNext, MessagesNext, RequestsNext
      DEF TInv, HInv
  <1> QED
    BY <1>1, <1>2

\* No height is above the chain, no request is without a head, and there are as
\* many of them as the scanner owes scans: a client's handler asks only after
\* it has read the head, and asks once.
THEOREM HeadTypeCorrect == HeadSpec => []HeadTypeOK
  <1>1. HeadSpec => []HInv
    BY InitHInv, NextHInv, PTL DEF HeadSpec
  <1>2. HeadSpec => []ResponsesOK
    <2>1. Spec => []ResponsesOK
      BY Responses
    <2> QED
      BY <2>1, HeadIsServer, PTL
  <1>3. HeadSpec => []TInv
    BY <1>1, <1>2, InitTInv, NextTInv, PTL DEF HeadSpec
  <1>4. HInv /\ TInv => HeadTypeOK
    <2> SUFFICES ASSUME HInv, TInv PROVE HeadTypeOK
      OBVIOUS
    <2>1. /\ SeenOK /\ LocalsOK /\ RequestsOK /\ fresh \subseteq Handler
          /\ local \in [Handler -> [latest : Nat, head : Nat]] /\ chain \in Nat
          /\ \A h \in Handler : handler[h].todo \in Todo
      BY DEF HInv, TInv, HeightsOK, IInv, HandlersOK, HandlerOK
    <2>2. \A h \in Handler : {local[h].latest, local[h].head} \subseteq 0 .. chain
      BY <2>1 DEF LocalsOK
    <2>3. \A h \in Handler : At(h, "submit") => local[h].head # 0
      BY <2>1, CallsLeft DEF LocalsOK, At
    <2> QED
      BY <2>1, <2>2, <2>3 DEF SeenOK, RequestsOK, HeadTypeOK
  <1> QED
    BY <1>1, <1>3, <1>4, PTL
=============================================================================
