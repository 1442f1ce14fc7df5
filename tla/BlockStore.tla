----------------------------- MODULE BlockStore -----------------------------
(***************************************************************************)
(* The block table of the scanner: load_blocks copies the blocks up to the *)
(* checkpoint from the node when the scanner starts, and the primary task  *)
(* of run_dserver reads them back.  ScanManager has that read as a call    *)
(* that fails or not; this module is about when it fails.                  *)
(***************************************************************************)
EXTENDS BlocksRange

CONSTANTS
    Checkpoint,     \* LOCAL_BLOCKS_CHECKPOINT
    Batch,          \* PRIMARY_BATCH
    MaxTip,         \* bound on the height of the node
    MaxFailures     \* bound on failing statements and restarts

ASSUME StoreAssumption ==
    /\ Checkpoint \in Nat /\ Batch \in Nat \ {0}
    /\ MaxTip \in Nat \ {0} /\ MaxFailures \in Nat

VARIABLES
    rows,       \* wallet.blocks: the sequences that have a row
    tip,        \* the height of the node
    loader,     \* load_blocks
    primary,    \* the primary task
    whole,      \* has no insert failed and no response been short since the start?
    failures

vars == <<rows, tip, loader, primary, whole, failures>>

\* at is the height at which the group in work starts.
Starting == [pc |-> "check", at |-> 1, left |-> {}]
Waiting == [pc |-> "wait", at |-> 0, end |-> 0]

Init ==
    /\ rows = {}
    /\ tip \in 1 .. MaxTip
    /\ loader = Starting /\ primary = Waiting
    /\ whole = TRUE /\ failures = 0

----------------------------------------------------------------------------
(* PgHandler.                                                              *)

\* get_blocks: as many rows as heights, or an error.
HasRows(group) == Heights(group) \subseteq rows

\* save_blocks: every insert is a statement of its own on another connection
\* than the transaction that is rolled back; a row that exists already is
\* refused by the primary key, and all errors are ignored.
StopAtDuplicate(h) ==               \* fault variant: an error ends the loop
    IF h \in rows THEN {} ELSE loader.left \ {h}
AfterInsert(h) == loader.left \ {h}

FirstBlock == CHOOSE h \in loader.left : \A x \in loader.left : h <= x

----------------------------------------------------------------------------
(* load_blocks, over blocks_range(1 .. Checkpoint + 1, Batch).             *)

LoadGroupUncut ==                   \* fault variant: runs past the checkpoint
    Group(loader.at, loader.at + Batch, Batch)
LoadGroup == Group(loader.at, Checkpoint + 1, Batch)

NextGroup ==
    /\ loader.pc = "check" /\ loader.at <= Checkpoint
    /\ HasRows(LoadGroup)
    /\ loader' = [loader EXCEPT !.at = @ + Batch]
    /\ UNCHANGED <<rows, tip, primary, whole, failures>>

\* A failing read counts as a group that is not there.
MissGroup ==
    /\ loader.pc = "check" /\ loader.at <= Checkpoint
    /\ \/ ~ HasRows(LoadGroup) /\ failures' = failures
       \/ failures < MaxFailures /\ failures' = failures + 1
    /\ loader' = [loader EXCEPT !.pc = "fetch"]
    /\ UNCHANGED <<rows, tip, primary, whole>>

\* The node is asked until it answers; it may answer with the blocks it has.
FetchGroup ==
    /\ loader.pc = "fetch"
    /\ loader' = [loader EXCEPT !.pc = "save", !.left = Heights(LoadGroup) \cap 1 .. tip]
    /\ whole' = (whole /\ Heights(LoadGroup) \subseteq 1 .. tip)
    /\ UNCHANGED <<rows, tip, primary, failures>>

InsertBlock ==
    /\ loader.pc = "save" /\ loader.left # {}
    /\ loader' = [loader EXCEPT !.left = AfterInsert(FirstBlock)]
    /\ \/ rows' = rows \cup {FirstBlock} /\ UNCHANGED <<whole, failures>>
       \/ /\ failures < MaxFailures /\ failures' = failures + 1
          /\ rows' = rows /\ whole' = FALSE
    /\ UNCHANGED <<tip, primary>>

GroupSaved ==
    /\ loader.pc = "save" /\ loader.left = {}
    /\ loader' = [loader EXCEPT !.pc = "check", !.at = @ + Batch]
    /\ UNCHANGED <<rows, tip, primary, whole, failures>>

Loaded ==
    /\ loader.pc = "check"
    /\ loader.at > Checkpoint
    /\ loader' = [loader EXCEPT !.pc = "serve"]
    /\ UNCHANGED <<rows, tip, primary, whole, failures>>

----------------------------------------------------------------------------
(* The primary task, after load_blocks: one round reads the groups of      *)
(* blocks_range(start .. end + 1, Batch), local ones from the table.       *)

StartRound(start, end) ==
    /\ loader.pc = "serve"
    /\ primary.pc = "wait"
    /\ start <= end /\ end <= tip
    /\ primary' = [pc |-> "read", at |-> start, end |-> end]
    /\ UNCHANGED <<rows, tip, loader, whole, failures>>

IsLocal(group) == group.end <= Checkpoint

\* The unwrap of get_blocks; groups above the checkpoint are the node's.  That
\* the database or the node fails is PrimaryFetch of ScanManager.
ReadGroup ==
    /\ primary.pc = "read"
    /\ LET group == Group(primary.at, primary.end + 1, Batch)
       IN  primary' =
             IF IsLocal(group) /\ ~ HasRows(group)
               THEN [primary EXCEPT !.pc = "dead"]
             ELSE IF primary.at + Batch <= primary.end
               THEN [primary EXCEPT !.at = @ + Batch]
             ELSE Waiting
    /\ UNCHANGED <<rows, tip, loader, whole, failures>>

----------------------------------------------------------------------------

Grow ==
    /\ tip < MaxTip
    /\ tip' = tip + 1
    /\ UNCHANGED <<rows, loader, primary, whole, failures>>

\* A crash, also by an unwrap of load_blocks, or a restart by an operator.
Restart ==
    /\ failures < MaxFailures /\ failures' = failures + 1
    /\ loader' = Starting /\ primary' = Waiting /\ whole' = TRUE
    /\ UNCHANGED <<rows, tip>>

Next ==
    \/ NextGroup \/ MissGroup \/ FetchGroup \/ InsertBlock \/ GroupSaved \/ Loaded
    \/ \E start, end \in 1 .. MaxTip : StartRound(start, end)
    \/ ReadGroup \/ Grow \/ Restart

Spec == Init /\ [][Next]_vars

----------------------------------------------------------------------------
(* Properties.                                                             *)

\* No load goes further than one height above the checkpoint, where the last
\* group of blocks_range may end.
TypeOK ==
    /\ rows \subseteq 1 .. Checkpoint + 1
    /\ tip \in 1 .. MaxTip
    /\ loader \in [pc : {"check", "fetch", "save", "serve"},
                   at : 1 .. Checkpoint + Batch,
                   left : SUBSET (1 .. Checkpoint + 1)]
    /\ primary \in [pc : {"wait", "read", "dead"}, at : Nat, end : 0 .. MaxTip]
    /\ whole \in BOOLEAN /\ failures \in 0 .. MaxFailures

\* The primary task never dies of a group below the checkpoint that is not in
\* the table, whatever head it starts from and wherever an earlier load was
\* interrupted, if this load had no failing insert and no short response.
OnlyGapsKill == primary.pc = "dead" => ~ whole
=============================================================================
