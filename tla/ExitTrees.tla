------------------------------- MODULE ExitTrees -------------------------------
(***************************************************************************)
(* The two syncers of L1 side by side: l1infotreesync and the bridgesync   *)
(* of L1, each behind a driver of its own.  A driver hands over the blocks *)
(* in order, tries a block that failed again, and calls Reorg with the     *)
(* first abandoned block some time after the chain has changed; until then *)
(* it may hand over blocks of the new branch (module EVMSync has the       *)
(* driver in detail).                                                      *)
(***************************************************************************)
EXTENDS L1Contracts

CONSTANTS
    MaxRolledBack, \* bound: leaves of one tree that a failure of SQLite rolls back
    MaxFaults      \* bound: failures of SQLite and restarts of the process

VARIABLES
    infoBlock, leaf, verified, l1InfoTree, rollupExitTree, halted,
    bridgeBlock, bridge, exitTree,
    infoReorg,     \* first block to tell l1infotreesync's driver of, 0 if none
    bridgeReorg,   \* the same for bridgesync's
    faults

Info   == INSTANCE L1InfoTreeSync WITH block <- infoBlock
Bridge == INSTANCE BridgeSync WITH block <- bridgeBlock

infoVars   == <<infoBlock, leaf, verified, l1InfoTree, rollupExitTree, halted, infoReorg>>
bridgeVars == <<bridgeBlock, bridge, exitTree, bridgeReorg>>
vars == <<l1Vars, infoVars, bridgeVars, faults>>

Init ==
    /\ L1Init
    /\ Info!InfoInit /\ infoReorg = 0
    /\ Bridge!BridgeInit /\ bridgeReorg = 0
    /\ faults = 0

\* A syncer is told of the lowest abandoned block that it has processed
Told(pending, n, processed) ==
    IF n > processed THEN pending ELSE IF pending = 0 \/ n < pending THEN n ELSE pending

ReorgL1(n) ==
    /\ ForkAt(n)
    /\ infoReorg' = Told(infoReorg, n, Info!getLastProcessedBlock)
    /\ bridgeReorg' = Told(bridgeReorg, n, Bridge!getLastProcessedBlock)
    /\ UNCHANGED <<infoBlock, leaf, verified, l1InfoTree, rollupExitTree, halted,
                   bridgeBlock, bridge, exitTree, faults>>

infoNext   == Info!getLastProcessedBlock + 1
bridgeNext == Bridge!getLastProcessedBlock + 1

ProcessInfo ==
    /\ infoNext <= Len(l1)
    /\ Info!ProcessBlock(infoNext, l1[infoNext].events)
    /\ UNCHANGED <<l1Vars, infoReorg, bridgeVars, faults>>

ProcessBridge ==
    /\ bridgeNext <= Len(l1)
    /\ Bridge!ProcessBlock(bridgeNext, l1[bridgeNext].events)
    /\ UNCHANGED <<l1Vars, bridgeReorg, infoVars, faults>>

\* The events ProcessBlock handled before SQLite failed
Handled(events, kind) ==
    {s \in {SubSeq(events, 1, k) : k \in 0 .. Len(events)} :
        Len(SelectSeq(s, LAMBDA e : e.kind = kind)) <= MaxRolledBack}

Fault == faults < MaxFaults /\ faults' = faults + 1

InfoFails ==
    /\ Fault
    /\ infoNext <= Len(l1)
    /\ LET events == l1[infoNext].events
       IN \/ \E s \in Handled(events, "UpdateL1InfoTree") : Info!ProcessBlockFails(infoNext, s)
          \/ Info!CommitBlockFails(infoNext, events)
    /\ UNCHANGED <<l1Vars, infoReorg, bridgeVars>>

BridgeFails ==
    /\ Fault
    /\ bridgeNext <= Len(l1)
    /\ LET events == l1[bridgeNext].events
       IN \/ \E s \in Handled(events, "BridgeEvent") : Bridge!ProcessBlockFails(bridgeNext, s)
          \/ Bridge!CommitBlockFails(bridgeNext, events)
    /\ UNCHANGED <<l1Vars, bridgeReorg, infoVars>>

ReorgInfo ==
    /\ infoReorg # 0
    /\ Info!ReorgInfo(infoReorg)
    /\ infoReorg' = 0
    /\ UNCHANGED <<l1Vars, bridgeVars, faults>>

ReorgBridge ==
    /\ bridgeReorg # 0
    /\ Bridge!ReorgBridge(bridgeReorg)
    /\ bridgeReorg' = 0
    /\ UNCHANGED <<l1Vars, infoVars, faults>>

Restart ==
    /\ Fault
    /\ Info!RestartInfo
    /\ Bridge!RestartBridge
    /\ UNCHANGED <<l1Vars, infoReorg, bridgeReorg>>

Next ==
    \/ \E n \in 1 .. LastBlock : ReorgL1(n)
    \/ ProcessInfo \/ ProcessBridge
    \/ InfoFails \/ BridgeFails
    \/ ReorgInfo \/ ReorgBridge
    \/ Restart

Spec == Init /\ [][Next]_vars

-------------------------------------------------------------------------------
Idle(t) ==
    /\ t.lastIndex \in -2 .. 2 ^ Height - 1
    /\ DOMAIN t.lastLeftCache = Levels
    /\ t.added = 0 /\ t.err = "none"

\* The tables hold what their columns can hold, and no transaction is open
TypeOK ==
    /\ infoBlock \subseteq 1 .. LastBlock /\ bridgeBlock \subseteq 1 .. LastBlock
    /\ \A r \in leaf : r.num \in infoBlock /\ r.index \in Indexes /\ r.hash = <<r.info.id>>
    /\ \A r \in verified : r.num \in infoBlock /\ r.rollupID \in RollupIDs
    /\ \A r \in bridge : r.num \in bridgeBlock /\ r.index \in Indexes
    /\ Idle(l1InfoTree) /\ Idle(exitTree)
    /\ halted \in BOOLEAN
    /\ infoReorg \in 0 .. LastBlock /\ bridgeReorg \in 0 .. LastBlock
    /\ faults \in 0 .. MaxFaults

\* The rows of the leaves 0 .. n, as a function from index to hash
LeavesUpTo(rows, n) ==
    [k \in 0 .. n |-> (CHOOSE r \in rows : r.index = k).hash]

RootsMatch(t, rows) ==
    /\ {r.index : r \in t.root} = {r.index : r \in rows}
    /\ \A r \in t.root : r.hash = MerkleRoot(LeavesUpTo(rows, r.index))

Proves(t, hash, index, root) ==
    CalculateRoot(hash, getSiblings(t.rht, index, root), index) = root

\* Every root that an append-only tree stores is the root of exactly the leaves
\* stored with it, whatever reorgs, rolled back transactions and restarts came
\* before (AddLeaf works from lastLeftCache, initCache and Reorg of tree/).
\* Bridgesync takes the index of a leaf from the event, so between a reorg and the
\* call that tells it a leaf may be missing; l1infotreesync never skips one.
\* A proof made by GetProof for a stored leaf and any later stored root leads
\* CalculateRoot from the leaf back to that root, in these trees and in the
\* rollup exit tree, though reorgs leave orphan nodes in the rht tables.
RootsMatchLeaves ==
    /\ RootsMatch(l1InfoTree, leaf)
    /\ bridgeReorg = 0 => RootsMatch(exitTree, bridge)
    /\ \A r \in l1InfoTree.root, l \in leaf :
          l.index <= r.index => Proves(l1InfoTree, l.hash, l.index, r.hash)
    /\ bridgeReorg = 0 =>
          \A r \in exitTree.root, l \in bridge :
             l.index <= r.index => Proves(exitTree, l.hash, l.index, r.hash)
    /\ \A r \in rollupExitTree.root, k \in {i - 1 : i \in RollupIDs} :
          \A x \in GetLeaf(rollupExitTree.rht, k, r.hash) :
             Proves(rollupExitTree, x, k, r.hash)

\* Once a syncer has been told of every reorg, it accepts the next block: it is not
\* halted by the check of UpdateL1InfoTreeV2, and the block fails neither that
\* check, nor a unique column, nor the index check of AddLeaf.  So a halt, or a
\* block that fails over and over, lasts only until the reorg that caused it is told.
NextBlockAccepted ==
    /\ infoReorg = 0 =>
          /\ ~halted
          /\ infoNext <= Len(l1) => Info!Accepts(infoNext, l1[infoNext].events)
    /\ bridgeReorg = 0 /\ bridgeNext <= Len(l1) =>
          Bridge!Accepts(bridgeNext, l1[bridgeNext].events)

\* When no reorg is left to be told, the rollup exit root that the syncer computes
\* for a verification is one of the roots in the leaves of the L1 info tree,
\* which the bridge service relies on to find the leaf of an L2 bridge.  When none
\* is left for the bridge syncer either, every mainnet exit root of the L1 info
\* tree up to its last block is a root of its exit tree, so that a deposit can
\* be proved (the two packages never talk to each other).
ExitRootsAgree ==
    infoReorg = 0 =>
       /\ \A v \in verified : \E l \in leaf : l.info.rer = v.rollupExitRoot
       /\ bridgeReorg = 0 =>
             \A l \in leaf :
                l.num <= Bridge!getLastProcessedBlock /\ l.info.mer # zeroHashes[Height]
                   => \E r \in exitTree.root : r.hash = l.info.mer
===============================================================================
