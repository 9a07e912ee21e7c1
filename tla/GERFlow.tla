-------------------------------- MODULE GERFlow --------------------------------
(***************************************************************************)
(* How a global exit root travels from L1 to L2: l1infotreesync stores the *)
(* leaves of the L1 info tree, aggoracle injects the latest one into the   *)
(* contract of L2, and lastgersync records which leaves L2 knows.  The     *)
(* three run in goroutines of their own and meet only through the table    *)
(* l1info_leaf and through L2.  A global exit root is named by its index   *)
(* in the L1 info tree.                                                    *)
(***************************************************************************)
EXTENDS Integers, Sequences, FiniteSetsExt

CONSTANTS
    LastL1,      \* bound: number of L1 blocks
    LastL2,      \* bound: number of the last L2 block mined without a transaction
    MaxL2,       \* bound: number of the last L2 block of all
    MaxForks,    \* bound: reorganisations of L2
    BufferSize,  \* downloadBufferSize
    MaxRestarts  \* bound: restarts of the process

ASSUME GERFlowAssumption == {LastL1, LastL2, MaxL2, MaxForks, BufferSize, MaxRestarts} \subseteq Nat

VARIABLES
    infos,      \* infos[i + 1]: L1 block of the leaf with index i
    l1final,    \* last final L1 block
    lpb,        \* last L1 block that l1infotreesync has processed
    l2,         \* the L2 blocks: l2[n] is the branch that block n was mined on
    injected,   \* the GERs that the L2 contract knows, each with its L2 block
    forks, restarts,
    txs,        \* the transaction manager: GER and status of every transaction
    oracle,     \* aggoracle: where it is, blockNumToFetch, gerToInject, its transaction
    block,      \* lastgersync's table block, with the hashes the reorg detector tracks
    imported,   \* its table imported_global_exit_root: index and L2 block
    dl,         \* its downloader: where it is, nextIndex, fromBlock, gers, the header's hash
    ch          \* downloadCh: blocks on their way to the driver

l1Vars == <<infos, l1final, lpb>>
l2Vars == <<l2, injected, forks>>
syncVars == <<block, imported, dl, ch>>
vars == <<l1Vars, l2Vars, restarts, txs, oracle, syncVars>>

l2head == Len(l2)

\* the leaves in l1infotreesync's table, by index
Stored == {i \in 0 .. Len(infos) - 1 : infos[i + 1] <= lpb}

\* the GERs that GlobalExitRootMap of the L2 contract has a timestamp for
Known == {g.ger : g \in injected}

Idle == [pc |-> "wait", blockNumToFetch |-> 0, ger |-> 0, tx |-> 0]

getLastProcessedBlock(blocks) == Max({b.num : b \in blocks} \cup {0})

\* Without rows getLastIndex returns 0, as it does when the only row has index 0
getLastIndex(rows) == Max({r.index : r \in rows} \cup {0})

\* Sync starts a Download from the tables; nextIndex is 0 when the last index is 0
Download(blocks, rows) ==
    LET last == getLastIndex(rows)
    IN [pc |-> "wait", nextIndex |-> IF last > 0 THEN last + 1 ELSE 0,
        from |-> getLastProcessedBlock(blocks) + 1, gers |-> {}, hash |-> 0]

Init ==
    /\ infos \in UNION {[1 .. n -> 1 .. LastL1] : n \in 0 .. LastL1}
    /\ \A i, j \in DOMAIN infos : i < j => infos[i] < infos[j]
    /\ l1final = 0 /\ lpb = 0
    /\ l2 = <<>> /\ injected = {} /\ forks = 0
    /\ restarts = 0
    /\ txs = <<>> /\ oracle = Idle
    /\ block = {} /\ imported = {} /\ ch = <<>>
    /\ dl = Download({}, {})

-------------------------------------------------------------------------------
(* The chains, l1infotreesync and the transaction manager. *)

\* The L1 blocks are there from the start: l1infotreesync may lag behind the head
\* and behind the final block by any number of them
FinalizeL1 ==
    /\ l1final < LastL1
    /\ l1final' = l1final + 1
    /\ UNCHANGED <<infos, lpb, l2Vars, restarts, txs, oracle, syncVars>>

SyncL1 ==
    /\ lpb < LastL1
    /\ lpb' = lpb + 1
    /\ UNCHANGED <<infos, l1final, l2Vars, restarts, txs, oracle, syncVars>>

\* L2 always has a next block.  Above LastL2 the model only mines those that the
\* downloader still needs: to reach fromBlock again, or to see an injected GER.
MineEmptyL2 ==
    /\ l2head < MaxL2
    /\ \/ l2head < Max({LastL2, dl.from})
       \/ /\ dl.pc = "wait" /\ ch = <<>> /\ l2head = dl.from
          /\ \E i \in Known : \A r \in imported : r.index < i
    /\ l2' = Append(l2, forks)
    /\ UNCHANGED <<l1Vars, injected, forks, restarts, txs, oracle, syncVars>>

\* A block of L2 with a transaction, which reverts if the GER is already known
MineTxL2(k) ==
    /\ txs[k].status = "sent"
    /\ l2' = Append(l2, forks)
    /\ IF txs[k].ger \in Known
       THEN /\ txs' = [txs EXCEPT ![k].status = "reverted"]
            /\ UNCHANGED injected
       ELSE /\ txs' = [txs EXCEPT ![k].status = "mined"]
            /\ injected' = injected \cup {[ger |-> txs[k].ger, block |-> l2head + 1]}
    /\ UNCHANGED <<l1Vars, forks, restarts, oracle, syncVars>>

\* Block n is replaced; the transactions of it and of the blocks above are gone
ReorgL2(n) ==
    /\ forks < MaxForks
    /\ forks' = forks + 1
    /\ l2' = Append(SubSeq(l2, 1, n - 1), forks + 1)
    /\ injected' = {g \in injected : g.block < n}
    /\ UNCHANGED <<l1Vars, restarts, txs, oracle, syncVars>>

-------------------------------------------------------------------------------
(* aggoracle/oracle.go and chaingersender/evm.go *)

\* What GetLatestInfoUntilBlock finds.  The block is compared with the last
\* processed one; the query then takes the last leaf whatever its block.
GetLatestInfoUntilBlock(blockNum) ==
    IF lpb < blockNum THEN "not processed" ELSE IF Stored = {} THEN "not found" ELSE "found"

\* A tick of the oracle: getLastFinalisedGER, and the early returns of Start.
\* Before any block is final the call with block 0 is an error.
Tick ==
    /\ oracle.pc = "wait"
    /\ LET b == IF oracle.blockNumToFetch = 0 THEN l1final ELSE oracle.blockNumToFetch
           found == IF b = 0 THEN "block 0" ELSE GetLatestInfoUntilBlock(b)
       IN oracle' = CASE found = "found" -> [Idle EXCEPT !.pc = "check", !.ger = Max(Stored)]
                      [] found = "not found" -> Idle
                      [] OTHER -> [Idle EXCEPT !.blockNumToFetch = b]
    /\ UNCHANGED <<l1Vars, l2Vars, restarts, txs, syncVars>>

Send ==
    /\ txs' = Append(txs, [ger |-> oracle.ger, status |-> "sent"])
    /\ oracle' = [oracle EXCEPT !.pc = "sent", !.tx = Len(txs) + 1]

\* plausible bugs, for mutants: no check, and a check of what was sent before
SendUnchecked ==
    /\ oracle.pc = "check"
    /\ Send
    /\ UNCHANGED <<l1Vars, l2Vars, restarts, syncVars>>

SendOnce ==
    /\ oracle.pc = "check"
    /\ IF \E k \in DOMAIN txs : txs[k].ger = oracle.ger
       THEN oracle' = Idle /\ UNCHANGED txs ELSE Send
    /\ UNCHANGED <<l1Vars, l2Vars, restarts, syncVars>>

\* IsGERAlreadyInjected, then the Add of UpdateGERWaitUntilMined
CheckAndSend ==
    /\ oracle.pc = "check"
    /\ IF oracle.ger \in Known THEN oracle' = Idle /\ UNCHANGED txs ELSE Send
    /\ UNCHANGED <<l1Vars, l2Vars, restarts, syncVars>>

\* A call of CheckAndSend fails
OracleFails ==
    /\ oracle.pc = "check"
    /\ oracle' = Idle
    /\ UNCHANGED <<l1Vars, l2Vars, restarts, txs, syncVars>>

\* UpdateGERWaitUntilMined polls until the transaction is mined or has failed
Waited ==
    /\ oracle.pc = "sent"
    /\ txs[oracle.tx].status # "sent"
    /\ oracle' = Idle
    /\ UNCHANGED <<l1Vars, l2Vars, restarts, txs, syncVars>>

-------------------------------------------------------------------------------
(* lastgersync/ *)

\* WaitForNewBlocks returns the head of L2
WaitForNewBlocks ==
    /\ dl.pc = "wait"
    /\ l2head > dl.from
    /\ dl' = [dl EXCEPT !.pc = "list", !.from = l2head]
    /\ UNCHANGED <<l1Vars, l2Vars, restarts, txs, oracle, block, imported, ch>>

getGERsFromIndex ==
    /\ dl.pc = "list"
    /\ dl' = [dl EXCEPT !.pc = "header", !.gers = {i \in Stored : i >= dl.nextIndex}]
    /\ UNCHANGED <<l1Vars, l2Vars, restarts, txs, oracle, block, imported, ch>>

\* GetBlockHeader asks again until the block is there: a reorg may have taken it
GetBlockHeader ==
    /\ dl.pc = "header"
    /\ dl.from <= l2head
    /\ dl' = [dl EXCEPT !.pc = "read", !.hash = l2[dl.from]]
    /\ UNCHANGED <<l1Vars, l2Vars, restarts, txs, oracle, block, imported, ch>>

\* plausible bug, for a mutant
NextIndexSame(d, found) == IF found = {} THEN d.nextIndex ELSE Max(found)

NextIndex(d, found) == IF found = {} THEN d.nextIndex ELSE Max(found) + 1

\* setGreatestGERInjectedFromList asks the contract at the head of L2, whatever
\* fromBlock is, and keeps the greatest GER found; the block goes to the driver
setGreatestGERInjected ==
    /\ dl.pc = "read"
    /\ Len(ch) < BufferSize
    /\ LET found == dl.gers \cap Known
       IN /\ ch' = Append(ch, [num |-> dl.from, hash |-> dl.hash,
                               events |-> IF found = {} THEN {} ELSE {Max(found)}])
          /\ dl' = [dl EXCEPT !.pc = "wait", !.nextIndex = NextIndex(dl, found),
                              !.gers = {}, !.hash = 0]
    /\ UNCHANGED <<l1Vars, l2Vars, restarts, txs, oracle, block, imported>>

\* The driver has the block tracked and the processor stores it
ProcessBlock ==
    /\ ch # <<>>
    /\ LET b == Head(ch)
       IN /\ block' = block \cup {[num |-> b.num, hash |-> b.hash]}
          /\ imported' = imported \cup {[index |-> i, block |-> b.num] : i \in b.events}
    /\ ch' = Tail(ch)
    /\ UNCHANGED <<l1Vars, l2Vars, restarts, txs, oracle, dl>>

\* Blocks that are not those of L2 any more, which the detector looks for (module
\* EVMSync has the detector in detail)
Reorged == {b \in block : b.num > l2head \/ l2[b.num] # b.hash}

\* The driver is told of a reorg: rows go, and a new Download starts on a new channel
Reorg(first) ==
    /\ block' = {b \in block : b.num < first}
    /\ imported' = {r \in imported : r.block < first}
    /\ dl' = Download(block', imported')
    /\ ch' = <<>>
    /\ UNCHANGED <<l1Vars, l2Vars, restarts, txs, oracle>>

\* The process restarts; the transaction manager keeps its transactions, but a
\* new oracle waits for none
Restart ==
    /\ restarts < MaxRestarts
    /\ restarts' = restarts + 1
    /\ oracle' = Idle
    /\ dl' = Download(block, imported)
    /\ ch' = <<>>
    /\ UNCHANGED <<l1Vars, l2Vars, txs, block, imported>>

Next ==
    \/ FinalizeL1 \/ SyncL1 \/ MineEmptyL2
    \/ \E k \in DOMAIN txs : MineTxL2(k)
    \/ \E n \in 1 .. l2head : ReorgL2(n)
    \/ Tick \/ CheckAndSend \/ OracleFails \/ Waited
    \/ WaitForNewBlocks \/ getGERsFromIndex \/ GetBlockHeader \/ setGreatestGERInjected
    \/ ProcessBlock
    \/ \E b \in Reorged : Reorg(b.num)
    \/ Restart

Spec == Init /\ [][Next]_vars

\* The chains grow and finalize, transactions are mined, no loop stops, and the
\* calls of the oracle do not fail for ever
FairSpec ==
    /\ Spec
    /\ WF_vars(FinalizeL1) /\ WF_vars(SyncL1) /\ WF_vars(MineEmptyL2)
    /\ WF_vars(\E k \in DOMAIN txs : MineTxL2(k))
    /\ WF_vars(Tick) /\ SF_vars(CheckAndSend) /\ WF_vars(Waited)
    /\ WF_vars(WaitForNewBlocks) /\ WF_vars(getGERsFromIndex) /\ WF_vars(GetBlockHeader)
    /\ WF_vars(setGreatestGERInjected) /\ WF_vars(ProcessBlock)
    /\ WF_vars(\E b \in Reorged : Reorg(b.num))

-------------------------------------------------------------------------------
\* Type invariant.  In particular every row of imported_global_exit_root belongs to
\* a row of block, which the foreign key of the schema demands.
TypeOK ==
    /\ infos \in Seq(1 .. LastL1)
    /\ {l1final, lpb, oracle.blockNumToFetch} \subseteq 0 .. LastL1
    /\ injected \subseteq [ger : 0 .. LastL1 - 1, block : 1 .. l2head]
    /\ \A k \in DOMAIN txs : txs[k].status \in {"sent", "mined", "reverted"}
    /\ oracle.pc \in {"wait", "check", "sent"} /\ oracle.tx \in 0 .. Len(txs)
    /\ dl.pc \in {"wait", "list", "header", "read"} /\ dl.gers \subseteq Stored
    /\ Len(ch) <= BufferSize
    /\ \A b, c \in block : b.num = c.num => b = c
    /\ \A r \in imported : r.index \in Stored /\ \E b \in block : b.num = r.block

\* A leaf is recorded once: the index grows from row to row, across L2 reorgs and
\* restarts of lastgersync.  Only index 0 may come twice, because Download cannot
\* tell a table whose last index is 0 from an empty one.
ImportsGrow ==
    \A r, s \in imported : r.block < s.block => r.index < s.index \/ (r.index = 0 /\ s.index = 0)

\* The oracle never pays for a transaction that reverts because L2 has the GER,
\* as long as it is not restarted while one is on its way (IsGERAlreadyInjected
\* and UpdateGERWaitUntilMined).
NoRevertedInjection ==
    restarts = 0 => \A k \in DOMAIN txs : txs[k].status # "reverted"

\* The last leaf of L1 reaches L2 and lastgersync records it,
\* across L2 reorgs, failures of the oracle and restarts.
LastGERArrives ==
    <>[](infos # <<>> => \E r \in imported :
                            r.index = Len(infos) - 1 /\ r.index \in Known)

\* What getLastFinalisedGER says of itself: the GER on its way to L2 is in a final
\* block of L1.
FinalisedGER == oracle.pc # "wait" => infos[oracle.ger + 1] <= l1final

\* Every recorded GER is known to the L2 contract when no reorg is left to be handled
\* (InjectedInfoAfterIndex of the bridge service relies on it).
ImportedAreInjected == Reorged = {} => \A r \in imported : r.index \in Known
===============================================================================
