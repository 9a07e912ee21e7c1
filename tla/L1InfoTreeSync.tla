---------------------------- MODULE L1InfoTreeSync ----------------------------
(***************************************************************************)
(* l1infotreesync/: the processor that stores the leaves of the L1 info    *)
(* tree and the verified batches, and keeps the L1 info tree and the       *)
(* rollup exit tree.  A call of ProcessBlock is one SQLite transaction on  *)
(* one goroutine, and readers see committed rows only, so it is one step.  *)
(***************************************************************************)
EXTENDS MerkleTree, Sequences, SequencesExt

VARIABLES
    block,           \* table block: numbers of the processed blocks
    leaf,            \* table l1info_leaf
    verified,        \* table verify_batches
    l1InfoTree,      \* AppendOnlyTree
    rollupExitTree,  \* UpdatableTree
    halted           \* processor.halted

infoVars == <<block, leaf, verified, l1InfoTree, rollupExitTree, halted>>

getLastProcessedBlock == IF block = {} THEN 0 ELSE CHOOSE n \in block : \A m \in block : m <= n

globalExitRoot(info) == <<info.mer, info.rer>>

InfoInit ==
    /\ block = {} /\ leaf = {} /\ verified = {}
    /\ l1InfoTree = newTree
    /\ rollupExitTree = newTree
    /\ halted = FALSE

\* What the open transaction sees: the tables with its writes, and the trees.
\* An event after the one that failed is not looked at.
BeginTx(num) ==
    [num |-> num, pos |-> 0, leaf |-> leaf, verified |-> verified,
     l1InfoTree |-> Begin(l1InfoTree), rollupExitTree |-> Begin(rollupExitTree),
     halted |-> FALSE,
     next |-> IF leaf = {} THEN 0 ELSE lastRow(leaf).index + 1]

Failed(tx) == tx.halted \/ tx.l1InfoTree.err # "none" \/ tx.rollupExitTree.err # "none"

UpdateL1InfoTree(tx, info) ==
    LET row == [num |-> tx.num, pos |-> tx.pos, index |-> tx.next,
                info |-> info, hash |-> <<info.id>>]
    IN IF \E r \in tx.leaf : globalExitRoot(r.info) = globalExitRoot(info)
       THEN [tx EXCEPT !.l1InfoTree.err = "unique"]
       ELSE [tx EXCEPT !.leaf = @ \cup {row}, !.next = @ + 1,
                       !.l1InfoTree = AddLeaf(@, tx.num, tx.pos, row.index, row.hash)]

\* The sanity check of the root and the number of leaves against the contract's
UpdateL1InfoTreeV2(tx, root, count) ==
    IF tx.l1InfoTree.root = {}
    THEN [tx EXCEPT !.l1InfoTree.err = "not found"]
    ELSE LET last == lastRow(tx.l1InfoTree.root)
         IN [tx EXCEPT !.halted = last.hash # root \/ last.index + 1 # count]

isNewValueForRollupExitTree(tx, rollupID, exitRoot) ==
    LET t == tx.rollupExitTree
    IN t.root = {} \/ GetLeaf(t.rht, rollupID - 1, lastRow(t.root).hash) # {exitRoot}

\* plausible bug, for a mutant: an empty or unchanged exit root is not skipped
processVerifyBatchesAlways(tx, rollupID, exitRoot) ==
    LET t == UpsertLeaf(tx.rollupExitTree, tx.num, tx.pos, rollupID - 1, exitRoot)
        row == [num |-> tx.num, pos |-> tx.pos, rollupID |-> rollupID,
                exitRoot |-> exitRoot, rollupExitRoot |-> lastRow(t.root).hash]
    IN IF t.err # "none" THEN [tx EXCEPT !.rollupExitTree = t]
       ELSE [tx EXCEPT !.rollupExitTree = t, !.verified = @ \cup {row}]

processVerifyBatches(tx, rollupID, exitRoot) ==
    LET t == UpsertLeaf(tx.rollupExitTree, tx.num, tx.pos, rollupID - 1, exitRoot)
        row == [num |-> tx.num, pos |-> tx.pos, rollupID |-> rollupID,
                exitRoot |-> exitRoot, rollupExitRoot |-> lastRow(t.root).hash]
    IN IF exitRoot = NoHash \/ ~isNewValueForRollupExitTree(tx, rollupID, exitRoot) THEN tx
       ELSE IF t.err # "none" THEN [tx EXCEPT !.rollupExitTree = t]
       ELSE [tx EXCEPT !.rollupExitTree = t, !.verified = @ \cup {row}]

ProcessEvent(tx, e) ==
    LET at == [tx EXCEPT !.pos = @ + 1]
    IN IF Failed(tx) THEN tx
       ELSE CASE e.kind = "UpdateL1InfoTree"   -> UpdateL1InfoTree(at, e.info)
              [] e.kind = "UpdateL1InfoTreeV2" -> UpdateL1InfoTreeV2(at, e.root, e.count)
              [] e.kind = "VerifyBatches"      -> processVerifyBatches(at, e.rollupID, e.exitRoot)
              [] OTHER -> at

\* ProcessBlock returns an error before it commits: on the first event that
\* fails, or because SQLite fails after some of the events
RollbackTx(tx) ==
    /\ l1InfoTree' = Rollback(l1InfoTree, tx.l1InfoTree)
    /\ rollupExitTree' = Rollback(rollupExitTree, tx.rollupExitTree)
    /\ halted' = tx.halted
    /\ UNCHANGED <<block, leaf, verified>>

Accepts(num, events) == ~Failed(FoldLeft(ProcessEvent, BeginTx(num), events))

ProcessBlock(num, events) ==
    LET tx == FoldLeft(ProcessEvent, BeginTx(num), events)
    IN /\ ~halted
       /\ IF Failed(tx) THEN RollbackTx(tx)
          ELSE /\ block' = block \cup {num}
               /\ leaf' = tx.leaf
               /\ verified' = tx.verified
               /\ l1InfoTree' = Begin(tx.l1InfoTree)
               /\ rollupExitTree' = Begin(tx.rollupExitTree)
               /\ UNCHANGED halted

\* SQLite fails at some point of the transaction
ProcessBlockFails(num, events) ==
    LET tx == FoldLeft(ProcessEvent, BeginTx(num), events)
    IN /\ ~halted
       /\ RollbackTx([tx EXCEPT !.halted = FALSE])

CommitBlockFails(num, events) ==
    LET tx == FoldLeft(ProcessEvent, BeginTx(num), events)
    IN /\ ~halted /\ ~Failed(tx)
       /\ l1InfoTree' = CommitFails(l1InfoTree, tx.l1InfoTree)
       /\ rollupExitTree' = CommitFails(rollupExitTree, tx.rollupExitTree)
       /\ UNCHANGED <<block, leaf, verified, halted>>

ReorgInfoStaysHalted(first) ==
    /\ block' = {n \in block : n < first}
    /\ leaf' = {r \in leaf : r.num < first}
    /\ verified' = {r \in verified : r.num < first}
    /\ l1InfoTree' = Reorg(l1InfoTree, first)
    /\ rollupExitTree' = Reorg(rollupExitTree, first)
    /\ UNCHANGED halted

\* processor.Reorg: the rows of the deleted blocks go with them
ReorgInfo(first) ==
    /\ block' = {n \in block : n < first}
    /\ leaf' = {r \in leaf : r.num < first}
    /\ verified' = {r \in verified : r.num < first}
    /\ l1InfoTree' = Reorg(l1InfoTree, first)
    /\ rollupExitTree' = Reorg(rollupExitTree, first)
    /\ halted' = (halted /\ block' = block)

\* A new process: the memory of the trees and the halted flag are lost
RestartInfo ==
    /\ l1InfoTree' = [newTree EXCEPT !.root = l1InfoTree.root, !.rht = l1InfoTree.rht]
    /\ halted' = FALSE
    /\ UNCHANGED <<block, leaf, verified, rollupExitTree>>
===============================================================================
