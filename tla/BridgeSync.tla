------------------------------ MODULE BridgeSync ------------------------------
(***************************************************************************)
(* bridgesync/: the processor that stores the bridges (deposits) of one    *)
(* network and keeps its exit tree.  The index of a leaf is the deposit    *)
(* count of the event.                                                     *)
(***************************************************************************)
EXTENDS MerkleTree, Sequences, SequencesExt

VARIABLES
    block,      \* table block: numbers of the processed blocks
    bridge,     \* table bridge
    exitTree    \* AppendOnlyTree

bridgeVars == <<block, bridge, exitTree>>

getLastProcessedBlock == IF block = {} THEN 0 ELSE CHOOSE n \in block : \A m \in block : m <= n

BridgeInit == block = {} /\ bridge = {} /\ exitTree = newTree

BeginTx(num) == [num |-> num, pos |-> 0, bridge |-> bridge, exitTree |-> Begin(exitTree)]

Failed(tx) == tx.exitTree.err # "none"

\* Bridge.Hash: what the exit tree of the contract holds
Hash(e) == <<e.content>>

ProcessEvent(tx, e) ==
    LET pos == tx.pos + 1
        t   == AddLeaf(tx.exitTree, tx.num, pos, e.index, Hash(e))
        row == [num |-> tx.num, pos |-> pos, index |-> e.index, hash |-> Hash(e)]
    IN IF Failed(tx) \/ e.kind # "BridgeEvent" THEN [tx EXCEPT !.pos = pos]
       ELSE IF t.err # "none" THEN [tx EXCEPT !.exitTree = t]
       ELSE [tx EXCEPT !.pos = pos, !.exitTree = t, !.bridge = @ \cup {row}]

Accepts(num, events) == ~Failed(FoldLeft(ProcessEvent, BeginTx(num), events))

ProcessBlock(num, events) ==
    LET tx == FoldLeft(ProcessEvent, BeginTx(num), events)
    IN IF Failed(tx)
       THEN /\ exitTree' = Rollback(exitTree, tx.exitTree)
            /\ UNCHANGED <<block, bridge>>
       ELSE /\ block' = block \cup {num}
            /\ bridge' = tx.bridge
            /\ exitTree' = Begin(tx.exitTree)

\* SQLite fails at some point of the transaction
ProcessBlockFails(num, events) ==
    /\ exitTree' = Rollback(exitTree, FoldLeft(ProcessEvent, BeginTx(num), events).exitTree)
    /\ UNCHANGED <<block, bridge>>

CommitBlockFails(num, events) ==
    LET tx == FoldLeft(ProcessEvent, BeginTx(num), events)
    IN /\ ~Failed(tx)
       /\ exitTree' = CommitFails(exitTree, tx.exitTree)
       /\ UNCHANGED <<block, bridge>>

\* plausible bug, for a mutant: lastIndex follows the tables, lastLeftCache does not
ReorgBridgeMemory(first) ==
    /\ block' = {n \in block : n < first}
    /\ bridge' = {r \in bridge : r.num < first}
    /\ LET t == Reorg(exitTree, first)
       IN exitTree' = [t EXCEPT !.lastIndex = IF t.root = {} THEN -1 ELSE lastRow(t.root).index]

ReorgBridge(first) ==
    /\ block' = {n \in block : n < first}
    /\ bridge' = {r \in bridge : r.num < first}
    /\ exitTree' = Reorg(exitTree, first)

RestartBridge ==
    /\ exitTree' = [newTree EXCEPT !.root = exitTree.root, !.rht = exitTree.rht]
    /\ UNCHANGED <<block, bridge>>
===============================================================================
