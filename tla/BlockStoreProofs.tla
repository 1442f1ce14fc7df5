-------------------------- MODULE BlockStoreProofs --------------------------
(***************************************************************************)
(* Theorems about BlockStore, for every checkpoint and group size, also    *)
(* those where the checkpoint does not end a group.                        *)
(***************************************************************************)
EXTENDS BlockStore, WellFoundedInduction, TLAPS

\* The groups before the one in work are in the table, up to the checkpoint.
GroupsBefore ==
    whole => \A h \in 1 .. Checkpoint : h < loader.at => h \in rows

\* While a group is saved, its blocks are in the table or still to be saved.
GroupInWork ==
    /\ loader.pc = "save" /\ whole => Heights(LoadGroup) \subseteq rows \cup loader.left
    /\ loader.pc \in {"fetch", "save"} => loader.at <= Checkpoint
    /\ loader.pc = "serve" => loader.at > Checkpoint

\* The primary task starts after load_blocks, and reads heights from 1 on.
PrimaryWaits ==
    /\ primary.pc # "wait" => loader.pc = "serve"
    /\ primary.pc = "read" => primary.at >= 1

IInv == TypeOK /\ GroupsBefore /\ GroupInWork /\ PrimaryWaits /\ OnlyGapsKill

----------------------------------------------------------------------------
(* Groups.                                                                 *)

\* The group in work has every height up to the next one's start that is not
\* above the checkpoint, and at most one height above it.
LEMMA LoadGroupHeights ==
    ASSUME NEW at \in 1 .. Checkpoint
    PROVE  LET group == Group(at, Checkpoint + 1, Batch)
           IN  /\ Heights(group) \subseteq 1 .. Checkpoint + 1
               /\ \A h \in 1 .. Checkpoint :
                      at <= h /\ h < at + Batch => h \in Heights(group)
  BY StoreAssumption DEF StoreAssumption, Group, Heights

\* save_blocks starts with one of the blocks.
LEMMA FirstBlockLeft ==
    ASSUME TypeOK, loader.left # {}
    PROVE  FirstBlock \in loader.left
  <1> DEFINE R == {ss \in Nat \X Nat : ss[1] < ss[2]}
  <1>1. loader.left \subseteq Nat
    BY StoreAssumption DEF TypeOK, StoreAssumption
  <1>2. IsWellFoundedOn(R, Nat)
    BY NatLessThanWellFounded DEF OpToRel
  <1>3. PICK h \in loader.left : \A x \in loader.left : ~ (<<x, h>> \in R)
    <2> HIDE DEF R
    <2> QED BY <1>1, <1>2, WFMin
  <1>4. \A x \in loader.left : h <= x
    <2> TAKE x \in loader.left
    <2>1. x \in Nat /\ h \in Nat /\ ~ (<<x, h>> \in R)
      BY <1>1, <1>3
    <2>2. ~ (x < h)
      BY <2>1
    <2> QED
      BY <2>1, <2>2
  <1> QED
    BY <1>4 DEF FirstBlock

----------------------------------------------------------------------------
(* The invariant.                                                          *)

LEMMA InitInvariant == Init => IInv
  BY StoreAssumption
  DEF StoreAssumption, Init, Starting, Waiting, IInv, TypeOK, GroupsBefore,
      GroupInWork, PrimaryWaits, OnlyGapsKill

\* A group that is there leaves no gap before the next one.
LEMMA NextGroupKeeps == IInv /\ NextGroup => IInv'
  <1> SUFFICES ASSUME IInv, NextGroup PROVE IInv'
    OBVIOUS
  <1>1. loader.at \in 1 .. Checkpoint
    BY StoreAssumption DEF StoreAssumption, IInv, TypeOK, NextGroup
  <1>2. \A h \in 1 .. Checkpoint :
            loader.at <= h /\ h < loader.at + Batch => h \in rows
    BY <1>1, LoadGroupHeights DEF NextGroup, HasRows, LoadGroup
  <1>3. loader' = [loader EXCEPT !.at = @ + Batch]
        /\ UNCHANGED <<rows, tip, primary, whole, failures>>
    BY DEF NextGroup
  <1>4. TypeOK'
    BY <1>1, <1>3, StoreAssumption DEF StoreAssumption, IInv, TypeOK
  <1>5. GroupsBefore'
    BY <1>1, <1>2, <1>3, StoreAssumption
    DEF StoreAssumption, IInv, TypeOK, GroupsBefore
  <1>6. GroupInWork' /\ PrimaryWaits' /\ OnlyGapsKill'
    BY <1>3 DEF NextGroup, IInv, TypeOK, GroupInWork, PrimaryWaits, OnlyGapsKill
  <1> QED
    BY <1>4, <1>5, <1>6 DEF IInv

LEMMA MissGroupKeeps == IInv /\ MissGroup => IInv'
  BY StoreAssumption
  DEF StoreAssumption, MissGroup, IInv, TypeOK, GroupsBefore, GroupInWork,
      PrimaryWaits, OnlyGapsKill

\* A response that is not short leaves the whole group to be saved.
LEMMA FetchGroupKeeps == IInv /\ FetchGroup => IInv'
  <1> SUFFICES ASSUME IInv, FetchGroup PROVE IInv'
    OBVIOUS
  <1>1. loader.at \in 1 .. Checkpoint
    BY StoreAssumption DEF StoreAssumption, IInv, TypeOK, GroupInWork, FetchGroup
  <1>2. Heights(LoadGroup) \subseteq 1 .. Checkpoint + 1
    BY <1>1, LoadGroupHeights DEF LoadGroup
  <1>3. /\ loader' = [loader EXCEPT !.pc = "save",
                                    !.left = Heights(LoadGroup) \cap 1 .. tip]
        /\ whole' = (whole /\ Heights(LoadGroup) \subseteq 1 .. tip)
        /\ UNCHANGED <<rows, tip, primary, failures>>
    BY DEF FetchGroup
  <1>4. Heights(LoadGroup)' = Heights(LoadGroup)
    BY <1>3 DEF LoadGroup, IInv, TypeOK
  <1>5. TypeOK'
    BY <1>2, <1>3 DEF IInv, TypeOK
  <1>6. GroupsBefore' /\ PrimaryWaits' /\ OnlyGapsKill'
    BY <1>3 DEF FetchGroup, IInv, TypeOK, GroupsBefore, PrimaryWaits, OnlyGapsKill
  <1>7. GroupInWork'
    <2>1. loader'.pc = "save" /\ loader'.left = Heights(LoadGroup) \cap 1 .. tip
          /\ loader'.at = loader.at
      BY <1>3 DEF IInv, TypeOK
    <2>2. whole' => Heights(LoadGroup) \subseteq 1 .. tip
      BY <1>3 DEF IInv, TypeOK
    <2>3. loader'.at <= Checkpoint
      BY <1>1, <2>1
    <2> QED
      BY <1>4, <2>1, <2>2, <2>3 DEF GroupInWork
  <1> QED
    BY <1>5, <1>6, <1>7 DEF IInv

\* A block leaves the work with a row, or the load is not whole any more.
LEMMA InsertBlockKeeps == IInv /\ InsertBlock => IInv'
  <1> SUFFICES ASSUME IInv, InsertBlock PROVE IInv'
    OBVIOUS
  <1>1. FirstBlock \in loader.left
    BY FirstBlockLeft DEF InsertBlock, IInv
  <1>2. /\ loader' = [loader EXCEPT !.left = @ \ {FirstBlock}]
        /\ UNCHANGED <<tip, primary>>
    BY DEF InsertBlock, AfterInsert
  <1>3. \/ rows' = rows \cup {FirstBlock} /\ UNCHANGED <<whole, failures>>
        \/ /\ failures < MaxFailures /\ failures' = failures + 1
           /\ rows' = rows /\ whole' = FALSE
    BY DEF InsertBlock
  <1>4. Heights(LoadGroup)' = Heights(LoadGroup)
    BY <1>2 DEF LoadGroup, IInv, TypeOK
  <1> HIDE DEF FirstBlock
  <1>5. TypeOK'
    <2>1. FirstBlock \in 1 .. Checkpoint + 1 /\ rows' \subseteq 1 .. Checkpoint + 1
      BY <1>1, <1>3 DEF IInv, TypeOK
    <2>2. loader' \in [pc : {"check", "fetch", "save", "serve"},
                       at : 1 .. Checkpoint + Batch,
                       left : SUBSET (1 .. Checkpoint + 1)]
      BY <1>2 DEF IInv, TypeOK
    <2>3. whole' \in BOOLEAN
      BY <1>3 DEF IInv, TypeOK
    <2>4. failures' \in 0 .. MaxFailures
      <3>1. failures \in 0 .. MaxFailures /\ MaxFailures \in Nat
        BY StoreAssumption DEF StoreAssumption, IInv, TypeOK
      <3>2. failures' = failures \/ (failures < MaxFailures /\ failures' = failures + 1)
        BY <1>3
      <3> QED
        BY <3>1, <3>2
    <2> QED
      BY <1>2, <2>1, <2>2, <2>3, <2>4 DEF IInv, TypeOK
  <1>6. GroupsBefore' /\ PrimaryWaits' /\ OnlyGapsKill'
    BY <1>2, <1>3 DEF InsertBlock, IInv, TypeOK, GroupsBefore, PrimaryWaits, OnlyGapsKill
  <1>7. GroupInWork'
    BY <1>1, <1>2, <1>3, <1>4 DEF IInv, TypeOK, GroupInWork
  <1> QED
    BY <1>5, <1>6, <1>7 DEF IInv

LEMMA GroupSavedKeeps == IInv /\ GroupSaved => IInv'
  <1> SUFFICES ASSUME IInv, GroupSaved PROVE IInv'
    OBVIOUS
  <1>1. loader.at \in 1 .. Checkpoint
    BY StoreAssumption DEF StoreAssumption, IInv, TypeOK, GroupInWork, GroupSaved
  <1>2. whole => \A h \in 1 .. Checkpoint :
            loader.at <= h /\ h < loader.at + Batch => h \in rows
    BY <1>1, LoadGroupHeights DEF IInv, GroupInWork, GroupSaved, LoadGroup
  <1>3. loader' = [loader EXCEPT !.pc = "check", !.at = @ + Batch]
        /\ UNCHANGED <<rows, tip, primary, whole, failures>>
    BY DEF GroupSaved
  <1>4. TypeOK'
    <2>1. loader.at + Batch \in 1 .. Checkpoint + Batch
      BY <1>1, StoreAssumption DEF StoreAssumption
    <2>2. loader' \in [pc : {"check", "fetch", "save", "serve"},
                       at : 1 .. Checkpoint + Batch,
                       left : SUBSET (1 .. Checkpoint + 1)]
      BY <1>3, <2>1 DEF IInv, TypeOK
    <2> QED
      BY <1>3, <2>2 DEF IInv, TypeOK
  <1>5. GroupsBefore'
    BY <1>1, <1>2, <1>3, StoreAssumption
    DEF StoreAssumption, IInv, TypeOK, GroupsBefore
  <1>6. GroupInWork' /\ PrimaryWaits' /\ OnlyGapsKill'
    BY <1>3 DEF GroupSaved, IInv, TypeOK, GroupInWork, PrimaryWaits, OnlyGapsKill
  <1> QED
    BY <1>4, <1>5, <1>6 DEF IInv

LEMMA LoadedKeeps == IInv /\ Loaded => IInv'
  BY DEF Loaded, IInv, TypeOK, GroupsBefore, GroupInWork, PrimaryWaits, OnlyGapsKill

LEMMA StartRoundKeeps ==
    ASSUME NEW start \in 1 .. MaxTip, NEW end \in 1 .. MaxTip,
           IInv, StartRound(start, end)
    PROVE  IInv'
  <1>1. TypeOK' /\ PrimaryWaits' /\ OnlyGapsKill'
    BY StoreAssumption
    DEF StoreAssumption, StartRound, IInv, TypeOK, PrimaryWaits, OnlyGapsKill
  <1>2. GroupsBefore' /\ GroupInWork'
    BY DEF StartRound, IInv, GroupsBefore, GroupInWork, LoadGroup
  <1> QED
    BY <1>1, <1>2 DEF IInv

\* A local group has heights of 1 .. Checkpoint only, and a whole load has
\* put them all into the table.
LEMMA ReadGroupKeeps == IInv /\ ReadGroup => IInv'
  <1> SUFFICES ASSUME IInv, ReadGroup PROVE IInv'
    OBVIOUS
  <1> DEFINE group == Group(primary.at, primary.end + 1, Batch)
  <1>1. primary' = IF IsLocal(group) /\ ~ HasRows(group)
                     THEN [primary EXCEPT !.pc = "dead"]
                   ELSE IF primary.at + Batch <= primary.end
                     THEN [primary EXCEPT !.at = @ + Batch]
                   ELSE Waiting
    BY DEF ReadGroup
  <1>2. primary.pc = "read" /\ UNCHANGED <<rows, tip, loader, whole, failures>>
    BY DEF ReadGroup
  <1>3. whole /\ IsLocal(group) => HasRows(group)
    <2> SUFFICES ASSUME whole, group.end <= Checkpoint,
                        NEW h \in group.start .. group.end
                 PROVE  h \in rows
      BY DEF IsLocal, HasRows, Heights
    <2>1. h \in 1 .. Checkpoint
      BY <1>2, StoreAssumption
      DEF StoreAssumption, IInv, TypeOK, PrimaryWaits, Group
    <2>2. loader.at > Checkpoint
      BY <1>2 DEF IInv, PrimaryWaits, GroupInWork
    <2> QED
      BY <2>1, <2>2, StoreAssumption
      DEF StoreAssumption, IInv, TypeOK, GroupsBefore
  <1> HIDE DEF group
  <1>4. TypeOK'
    BY <1>1, <1>2, StoreAssumption DEF StoreAssumption, IInv, TypeOK, Waiting
  <1>5. PrimaryWaits'
    BY <1>1, <1>2, StoreAssumption
    DEF StoreAssumption, IInv, TypeOK, PrimaryWaits, Waiting
  <1>6. OnlyGapsKill'
    BY <1>1, <1>2, <1>3 DEF IInv, TypeOK, OnlyGapsKill, Waiting
  <1>7. GroupsBefore' /\ GroupInWork'
    BY <1>2 DEF IInv, GroupsBefore, GroupInWork, LoadGroup
  <1> QED
    BY <1>4, <1>5, <1>6, <1>7 DEF IInv

LEMMA GrowKeeps == IInv /\ Grow => IInv'
  <1> SUFFICES ASSUME IInv, Grow PROVE IInv'
    OBVIOUS
  <1>1. TypeOK'
    BY StoreAssumption DEF StoreAssumption, Grow, IInv, TypeOK
  <1>2. GroupsBefore' /\ GroupInWork' /\ PrimaryWaits' /\ OnlyGapsKill'
    BY DEF Grow, IInv, GroupsBefore, GroupInWork, LoadGroup, PrimaryWaits,
           OnlyGapsKill
  <1> QED
    BY <1>1, <1>2 DEF IInv

\* After a restart the load goes through all groups again.
LEMMA RestartKeeps == IInv /\ Restart => IInv'
  BY StoreAssumption
  DEF StoreAssumption, Restart, Starting, Waiting, IInv, TypeOK, GroupsBefore,
      GroupInWork, PrimaryWaits, OnlyGapsKill

LEMMA NextInvariant == IInv /\ [Next]_vars => IInv'
  <1> SUFFICES ASSUME IInv, [Next]_vars PROVE IInv'
    OBVIOUS
  <1>1. CASE NextGroup BY <1>1, NextGroupKeeps
  <1>2. CASE MissGroup BY <1>2, MissGroupKeeps
  <1>3. CASE FetchGroup BY <1>3, FetchGroupKeeps
  <1>4. CASE InsertBlock BY <1>4, InsertBlockKeeps
  <1>5. CASE GroupSaved BY <1>5, GroupSavedKeeps
  <1>6. CASE Loaded BY <1>6, LoadedKeeps
  <1>7. CASE \E start, end \in 1 .. MaxTip : StartRound(start, end)
    BY <1>7, StartRoundKeeps
  <1>8. CASE ReadGroup BY <1>8, ReadGroupKeeps
  <1>9. CASE Grow BY <1>9, GrowKeeps
  <1>10. CASE Restart BY <1>10, RestartKeeps
  <1>11. CASE UNCHANGED vars
    BY <1>11
    DEF vars, IInv, TypeOK, GroupsBefore, GroupInWork, LoadGroup, PrimaryWaits,
        OnlyGapsKill
  <1> QED
    BY <1>1, <1>2, <1>3, <1>4, <1>5, <1>6, <1>7, <1>8, <1>9, <1>10, <1>11
    DEF Next

----------------------------------------------------------------------------
(* The theorems.                                                           *)

\* While the program loads, restarts and reads, the table has every height
\* before the group in work, unless an insert failed or a response was short.
THEOREM Invariant == Spec => []IInv
  BY InitInvariant, NextInvariant, PTL DEF Spec

\* A load never goes past the height after the checkpoint.
THEOREM TypeCorrect == Spec => []TypeOK
  <1>1. IInv => TypeOK
    BY DEF IInv
  <1> QED
    BY <1>1, Invariant, PTL

\* The primary task never dies of a missing block after a load in which no
\* insert failed and no response was short: for every checkpoint and batch.
THEOREM MissingBlocksAreGaps == Spec => []OnlyGapsKill
  <1>1. IInv => OnlyGapsKill
    BY DEF IInv
  <1> QED
    BY <1>1, Invariant, PTL
=============================================================================
