--------------------------- MODULE SequenceSender ---------------------------
(***************************************************************************)
(* The sequence sender: one goroutine retrieves closed batches from the    *)
(* RPC, another groups them into sequences and hands each sequence to      *)
(* ethtxmanager as one L1 transaction.  The transactions are kept in       *)
(* memory and in a file; ethtxmanager, which survives a restart, and the   *)
(* rollup contract are modelled from how the sender uses them.             *)
(*                                                                         *)
(* A batch is its number.  The contract's accumulated input hash is the    *)
(* hash of every batch sequenced so far, so it is abstracted to that list, *)
(* the variable sequenced.                                                 *)
(***************************************************************************)
EXTENDS Integers, Sequences, FiniteSets, SequencesExt

CONSTANTS
    MaxBatch,                \* bound: number of the last batch
    Coinbase,                \* coinbase of each batch
    Size,                    \* bytes each batch adds to the L1 transaction
    Undecodable,             \* batches whose L2 data DecodeBatchV2 rejects
    Banana,                  \* the rollup's fork: Banana or Elderberry
    MaxBatchesForL1,         \* validium condition, 0: disabled
    MaxTxSizeForL1,          \* zkEVM condition, 0: disabled
    MaxPendingTx,
    ForkUpgradeBatchNumber,  \* 0: no upgrade scheduled
    MaxTx,                   \* bound: transactions handed to ethtxmanager
    MaxFaults,               \* bound: failed queries to ethtxmanager
    MaxForgotten,            \* bound: transactions ethtxmanager loses
    MaxRestarts,             \* bound: crashes of the node
    MaxReorgs                \* bound: L1 reorganisations

Batch == 1 .. MaxBatch

ASSUME SequenceSenderAssumption ==
    /\ MaxBatch \in Nat \ {0} /\ MaxTx \in Nat
    /\ Coinbase \in [Batch -> Nat] /\ Size \in [Batch -> Nat]
    /\ Undecodable \subseteq Batch /\ Banana \in BOOLEAN
    /\ {MaxBatchesForL1, MaxTxSizeForL1, ForkUpgradeBatchNumber} \subseteq Nat
    /\ MaxPendingTx \in Nat \ {0}
    /\ {MaxFaults, MaxForgotten, MaxRestarts, MaxReorgs} \subseteq Nat

VARIABLES
    closed,           \* L2: number of the last closed batch
    sequenced,        \* L1: the batches of the rollup, in order
    monitor,          \* ethtxmanager: the transactions, in nonce order
    next,             \* batchRetrieval: currentBatchNumber
    retriever,        \* batchRetrieval: "run", "failed" or "fatal"
    sequenceList, sequenceData,
    latestVirtualBatchNumber, latestSentToL1Batch,
    ethTransactions,  \* transactions by id (index in monitor)
    file,             \* the ethTransactions written by the last save
    mutexEthTx,       \* TRUE: left locked by a call that returned
    stopped,          \* seqSendingStopped
    snd,              \* sequenceSending: where tryToSendSequence is
    faults, forgotten, restarts, reorgs

worldVars   == <<closed, sequenced, monitor>>
retrVars    == <<next, retriever, sequenceList, sequenceData>>
senderVars  == <<latestVirtualBatchNumber, latestSentToL1Batch, ethTransactions,
                 file, mutexEthTx, stopped, snd>>
boundVars   == <<faults, forgotten, restarts, reorgs>>
vars        == <<worldVars, retrVars, senderVars, boundVars>>

TxId   == 1 .. MaxTx
Status == {"sent", "mined", "safe", "finalized", "failed"}
MonitoredTx ==
    [batches : Seq(Batch), oldAccInputHash : Seq(Batch),
     status : Status \cup {"gone"}, resend : BOOLEAN]
ethTxData ==
    [status : Status \cup {"*new", "*missing"}, OnMonitor : BOOLEAN]

NoSequence == [batches |-> << >>, oldAccInputHash |-> << >>]
Idle == [pc |-> "idle", todo |-> {}, pending |-> 0, seq |-> NoSequence]

\* Types: no batch number is above the last closed batch, every recorded
\* transaction is one that was handed to ethtxmanager, and the number of
\* transactions counted as pending never exceeds those on record.
TypeOK ==
    /\ closed \in 0 .. MaxBatch
    /\ sequenced \in Seq(Batch)
    /\ monitor \in Seq(MonitoredTx) /\ Len(monitor) <= MaxTx
    /\ next \in 1 .. MaxBatch + 1 /\ retriever \in {"run", "failed", "fatal"}
    /\ sequenceList \in Seq(1 .. closed) /\ sequenceData \subseteq 1 .. closed
    /\ latestVirtualBatchNumber \in 0 .. MaxBatch
    /\ latestSentToL1Batch \in 0 .. MaxBatch
    /\ \A txs \in {ethTransactions, file} :
          /\ DOMAIN txs \subseteq DOMAIN monitor
          /\ \A i \in DOMAIN txs : txs[i] \in ethTxData
    /\ mutexEthTx \in BOOLEAN /\ stopped \in BOOLEAN
    /\ snd.pc \in {"idle", "sync", "choose", "built", "estimated", "added",
                   "blocked", "fatal", "panic"}
    /\ snd.todo \subseteq DOMAIN ethTransactions
    /\ snd.pending <= Cardinality(DOMAIN ethTransactions)
    /\ faults \in 0 .. MaxFaults /\ forgotten \in 0 .. MaxForgotten
    /\ restarts \in 0 .. MaxRestarts /\ reorgs \in 0 .. MaxReorgs

\* A new deployment, after Start
Init ==
    /\ closed = 0 /\ sequenced = << >> /\ monitor = << >>
    /\ next = 1 /\ retriever = "run" /\ sequenceList = << >> /\ sequenceData = {}
    /\ latestVirtualBatchNumber = 0 /\ latestSentToL1Batch = 0
    /\ ethTransactions = << >> /\ file = << >>
    /\ mutexEthTx = FALSE /\ stopped = FALSE /\ snd = Idle
    /\ faults = 0 /\ forgotten = 0 /\ restarts = 0 /\ reorgs = 0

-----------------------------------------------------------------------------
(* The L2 node, the rollup contract and ethtxmanager (external)            *)

CloseBatch ==
    /\ closed < MaxBatch /\ closed' = closed + 1
    /\ UNCHANGED <<sequenced, monitor, retrVars, senderVars, boundVars>>

\* What an Elderberry transaction says of the contract.  LastVirtualBatchNumber
\* is still 0 when BuildSequenceBatchesTx asks: it is set after the call.
getLastSequencedBatchNumber(seq) == seq.batches[1] - 1

\* sequenceBatches accepts a Banana sequence built on the accumulated input
\* hash of the contract, an Elderberry one that starts after its last batch.
Accepts(seq) ==
    IF Banana THEN seq.oldAccInputHash = sequenced
    ELSE Len(sequenced) = getLastSequencedBatchNumber(seq)

\* A nonce is used only after the ones before it.
MineTx(i) ==
    /\ monitor[i].status = "sent"
    /\ \A j \in 1 .. i - 1 : monitor[j].status # "sent"
    /\ IF Accepts(monitor[i])
       THEN /\ monitor' = [monitor EXCEPT ![i].status = "mined"]
            /\ sequenced' = sequenced \o monitor[i].batches
       ELSE /\ monitor' = [monitor EXCEPT ![i].status = "failed"]
            /\ UNCHANGED sequenced
    /\ UNCHANGED <<closed, retrVars, senderVars, boundVars>>

\* A block becomes safe minutes after it is mined, and the two reads that open
\* an attempt (the virtual batch, then the results) are one right after the
\* other: a transaction mined after the first is not safe at the second.
SafeTx(i) ==
    /\ monitor[i].status = "mined"
    /\ \A j \in 1 .. i - 1 : monitor[j].status # "mined"
    /\ snd.pc = "sync" => Last(monitor[i].batches) <= latestVirtualBatchNumber
    /\ monitor' = [monitor EXCEPT ![i].status = "safe"]
    /\ UNCHANGED <<closed, sequenced, retrVars, senderVars, boundVars>>

FinalizeTx(i) ==
    /\ monitor[i].status = "safe"
    /\ monitor' = [monitor EXCEPT ![i].status = "finalized"]
    /\ UNCHANGED <<closed, sequenced, retrVars, senderVars, boundVars>>

\* The last mined transaction is back in the pool.
ReorgL1(i) ==
    /\ reorgs < MaxReorgs /\ reorgs' = reorgs + 1
    /\ monitor[i].status = "mined"
    /\ \A j \in i + 1 .. Len(monitor) : monitor[j].status # "mined"
    /\ monitor' = [monitor EXCEPT ![i].status = "sent"]
    /\ sequenced' = SubSeq(sequenced, 1, Len(sequenced) - Len(monitor[i].batches))
    /\ UNCHANGED <<closed, retrVars, senderVars, faults, forgotten, restarts>>

AddWithGas(seq, again) ==
    /\ Len(monitor) < MaxTx
    /\ monitor' = Append(monitor, [batches |-> seq.batches,
                                   oldAccInputHash |-> seq.oldAccInputHash,
                                   status |-> "sent", resend |-> again])

-----------------------------------------------------------------------------
(* batchRetrieval                                                          *)

\* populateSequenceData: the batch is in the list before it is decoded.
RetrieveBatch ==
    /\ retriever = "run" /\ next <= closed
    /\ sequenceList' = Append(sequenceList, next)
    /\ IF next \in Undecodable
       THEN /\ retriever' = "failed"
            /\ UNCHANGED <<sequenceData, next>>
       ELSE /\ sequenceData' = sequenceData \cup {next}
            /\ next' = next + 1
            /\ UNCHANGED retriever
    /\ UNCHANGED <<worldVars, senderVars, boundVars>>

\* logFatalf in the retrieving goroutine
StopRetrieval ==
    /\ retriever = "failed"
    /\ retriever' = "fatal" /\ stopped' = TRUE
    /\ UNCHANGED <<worldVars, next, sequenceList, sequenceData, boundVars,
                   latestVirtualBatchNumber, latestSentToL1Batch, ethTransactions,
                   file, mutexEthTx, snd>>

-----------------------------------------------------------------------------
(* The record of transactions                                              *)

\* getResultAndUpdateEthTx without the resend
updateEthTxResult(tx, i) == [tx EXCEPT !.status = monitor[i].status]

Failing(tx, i) == monitor[i].status = "failed" /\ tx.status # "failed"

\* Mutant of IsPending: a mined transaction is taken as final.
IsPendingMined(tx) ==
    tx.OnMonitor /\ tx.status \notin {"failed", "safe", "finalized", "mined"}

\* not in a final state: Mined is still pending
IsPending(tx) == tx.OnMonitor /\ tx.status \notin {"failed", "safe", "finalized"}

\* purgeEthTx removes some of these: those that are older than the configured
\* time.  A stopped sender purges nothing.
Purgeable(txs) ==
    IF stopped THEN {}
    ELSE {i \in DOMAIN txs : ~txs[i].OnMonitor \/ txs[i].status = "finalized"}

\* saveSentSequencesTransactions: purge, then replace the file; written is
\* FALSE when the file cannot be created, encoded or renamed.
SaveSent(txs, mon, written) ==
    \E old \in SUBSET Purgeable(txs) :
       /\ ethTransactions' = [i \in DOMAIN txs \ old |-> txs[i]]
       /\ monitor' = [i \in DOMAIN mon |->
                        IF i \in old /\ txs[i].OnMonitor
                        THEN [mon[i] EXCEPT !.status = "gone"] ELSE mon[i]]
       /\ IF written THEN file' = ethTransactions' /\ UNCHANGED faults
          ELSE /\ faults < MaxFaults /\ faults' = faults + 1
               /\ UNCHANGED file

\* Mutant of purgeSequences: it keeps the wrong side of truncateUntil.
purgeSequencesKeepsVirtual ==
    IF stopped \/ \A b \in ToSet(sequenceList) : b > latestVirtualBatchNumber
    THEN UNCHANGED <<sequenceList, sequenceData>>
    ELSE LET Virtual(b) == b <= latestVirtualBatchNumber
         IN  /\ sequenceList' = SelectSeq(sequenceList, Virtual)
             /\ sequenceData' = {b \in sequenceData : ~Virtual(b)}

purgeSequences ==
    IF stopped THEN UNCHANGED <<sequenceList, sequenceData>>
    ELSE LET Kept(b) == b > latestVirtualBatchNumber
         IN  /\ sequenceList' = SelectSeq(sequenceList, Kept)
             /\ sequenceData' = {b \in sequenceData : Kept(b)}

-----------------------------------------------------------------------------
(* Which batches go into the next sequence                                 *)

TotalSize(bs) == FoldLeft(LAMBDA n, b : n + Size[b], 0, bs)

\* The condition of a validium: << >> when the sequence should grow, else the
\* batches to send
NumBatches(bs) ==
    IF MaxBatchesForL1 # 0 /\ Len(bs) >= MaxBatchesForL1 THEN bs ELSE << >>

\* The condition of a zkEVM: an oversized sequence loses its last batch, unless
\* it has only one.
MaxSize(bs) ==
    IF MaxTxSizeForL1 = 0 \/ TotalSize(bs) <= MaxTxSizeForL1 THEN << >>
    ELSE IF Len(bs) > 1 THEN Front(bs) ELSE bs

\* The builder of the rollup has one of the two, the other is disabled.
NewSequenceIfWorthToSend(bs) ==
    IF NumBatches(bs) # << >> THEN NumBatches(bs) ELSE MaxSize(bs)

\* Mutant of NotSentYet: batches of transactions in flight are chosen again.
NotSentYetVirtual(b) == b > latestVirtualBatchNumber

NotSentYet(b) == b > latestVirtualBatchNumber /\ b > latestSentToL1Batch

\* getSequencesToSend: c are the batches of the list neither virtual nor sent,
\* and k the first of them at which the loop ends.
getSequencesToSend(tooLong) ==
    LET c        == SelectSeq(sequenceList, NotSentYet)
        Upto(k)  == SubSeq(c, 1, k)
        F        == ForkUpgradeBatchNumber
        Abort(k) == F # 0 /\ c[k] = F + 1
        NoData(k)   == c[k] \notin sequenceData
        Coinbases(k) == k > 1 /\ Coinbase[c[k]] # Coinbase[c[k - 1]]
        Worth(k)    == NewSequenceIfWorthToSend(Upto(k)) # << >>
        ForkEnd(k)  == F # 0 /\ c[k] = F
        ends == {k \in 1 .. Len(c) : \/ Abort(k) \/ NoData(k) \/ Coinbases(k)
                                     \/ Worth(k) \/ ForkEnd(k)}
        k == Min(ends)
        Result(panics, bs) == [panics |-> panics, batches |-> bs]
    IN  IF ends = {} THEN Result(FALSE, IF tooLong THEN c ELSE << >>)
        ELSE CASE Abort(k)     -> Result(FALSE, << >>)
               [] ~Abort(k) /\ NoData(k) -> Result(TRUE, << >>)
               [] ~Abort(k) /\ ~NoData(k) /\ Coinbases(k) -> Result(FALSE, Upto(k - 1))
               [] OTHER -> Result(FALSE, IF Worth(k) THEN NewSequenceIfWorthToSend(Upto(k))
                                         ELSE Upto(k))

-----------------------------------------------------------------------------
(* tryToSendSequence, between two calls that leave the process             *)

At(pc) == snd.pc = pc
Goto(pc) == snd' = [snd EXCEPT !.pc = pc]

\* The tick: read the virtual batch, then lock mutexEthTx.
UpdateVirtual ==
    /\ At("idle")
    /\ latestVirtualBatchNumber' = Len(sequenced)
    /\ snd' = IF stopped THEN Idle
              ELSE IF mutexEthTx THEN [Idle EXCEPT !.pc = "blocked"]
              ELSE [Idle EXCEPT !.pc = "sync",
                       !.todo = {i \in DOMAIN ethTransactions :
                                    ethTransactions[i].status # "finalized"}]
    /\ UNCHANGED <<worldVars, retrVars, boundVars, latestSentToL1Batch,
                   ethTransactions, file, mutexEthTx, stopped>>

\* syncEthTxResults, one transaction; a failed one stops the sender for good.
SyncTx(i) ==
    LET tx == updateEthTxResult(ethTransactions[i], i)
    IN  /\ At("sync") /\ i \in snd.todo /\ monitor[i].status # "gone"
        /\ ethTransactions' = [ethTransactions EXCEPT ![i] = tx]
        /\ IF Failing(ethTransactions[i], i)
           THEN stopped' = TRUE /\ Goto("fatal")
           ELSE /\ snd' = [snd EXCEPT !.todo = @ \ {i},
                              !.pending = IF IsPending(tx) THEN @ + 1 ELSE @]
                /\ UNCHANGED stopped
        /\ UNCHANGED <<worldVars, retrVars, boundVars, latestVirtualBatchNumber,
                       latestSentToL1Batch, file, mutexEthTx>>

\* Result fails: return with mutexEthTx locked.
SyncError ==
    /\ At("sync") /\ snd.todo # {}
    /\ faults < MaxFaults /\ faults' = faults + 1
    /\ mutexEthTx' = TRUE /\ snd' = Idle
    /\ UNCHANGED <<worldVars, retrVars, latestVirtualBatchNumber, latestSentToL1Batch,
                   ethTransactions, file, stopped, forgotten, restarts, reorgs>>

\* Result says ErrNotFound: sendTx adds the transaction again and locks
\* mutexEthTx, which its caller holds; or AddWithGas fails.
SyncForgotten(i) ==
    /\ At("sync") /\ i \in snd.todo /\ monitor[i].status = "gone"
    /\ ethTransactions' = [ethTransactions EXCEPT ![i].OnMonitor = FALSE]
    /\ \/ AddWithGas(monitor[i], TRUE) /\ Goto("blocked") /\ UNCHANGED faults
       \/ /\ faults < MaxFaults /\ faults' = faults + 1
          /\ snd' = [snd EXCEPT !.todo = @ \ {i}]
          /\ UNCHANGED monitor
    /\ UNCHANGED <<closed, sequenced, retrVars, latestVirtualBatchNumber,
                   latestSentToL1Batch, file, mutexEthTx, stopped,
                   forgotten, restarts, reorgs>>

\* The end of syncEthTxResults and the check of MaxPendingTx
SyncDone ==
    /\ At("sync") /\ snd.todo = {}
    /\ \E written \in BOOLEAN :
          /\ SaveSent(ethTransactions, monitor, written)
          /\ IF written /\ snd.pending < MaxPendingTx
             THEN snd' = [Idle EXCEPT !.pc = "choose"] ELSE snd' = Idle
    /\ UNCHANGED <<closed, sequenced, retrVars, latestVirtualBatchNumber,
                   latestSentToL1Batch, mutexEthTx, stopped,
                   forgotten, restarts, reorgs>>

\* NewSequence reads LastAccInputHash from the contract; Elderberry ignores it.
NewSequence(bs) == [batches |-> bs, oldAccInputHash |-> sequenced]

GetSequences(tooLong) ==
    LET r == getSequencesToSend(tooLong)
    IN  /\ At("choose")
        /\ IF r.panics THEN Goto("panic")
           ELSE IF r.batches = << >> THEN snd' = Idle
           ELSE snd' = [snd EXCEPT !.pc = "built",
                           !.seq = NewSequence(r.batches)]
        /\ UNCHANGED <<worldVars, retrVars, boundVars, latestVirtualBatchNumber,
                       latestSentToL1Batch, ethTransactions, file, mutexEthTx, stopped>>

\* waitForMargin, BuildSequenceBatchesTx, updateLatestVirtualBatch and
\* EstimateGas, which executes the transaction on the latest state.
EstimateGas ==
    /\ At("built")
    /\ latestVirtualBatchNumber' = Len(sequenced)
    /\ IF Accepts(snd.seq) THEN Goto("estimated") ELSE snd' = Idle
    /\ UNCHANGED <<worldVars, retrVars, boundVars, latestSentToL1Batch,
                   ethTransactions, file, mutexEthTx, stopped>>

SendTx ==
    /\ At("estimated") /\ AddWithGas(snd.seq, FALSE) /\ Goto("added")
    /\ UNCHANGED <<closed, sequenced, retrVars, boundVars, latestVirtualBatchNumber,
                   latestSentToL1Batch, ethTransactions, file, mutexEthTx, stopped>>

\* The rest of sendTx, and purgeSequences.  The first Result may find the
\* transaction in any state, or fail, which is only logged.
RecordTx ==
    LET i   == Len(monitor)
        new == [status |-> "*new", OnMonitor |-> TRUE]
    IN  /\ At("added")
        /\ \E tx \in {new, updateEthTxResult(new, i)}, written \in BOOLEAN :
              IF tx.status = "failed"
              THEN /\ stopped' = TRUE /\ Goto("fatal")
                   /\ ethTransactions' = [j \in DOMAIN ethTransactions \cup {i} |->
                                            IF j = i THEN tx ELSE ethTransactions[j]]
                   /\ UNCHANGED <<latestSentToL1Batch, file, monitor, faults,
                                  sequenceList, sequenceData>>
              ELSE /\ latestSentToL1Batch' = Last(snd.seq.batches)
                   /\ SaveSent([j \in DOMAIN ethTransactions \cup {i} |->
                                  IF j = i THEN tx ELSE ethTransactions[j]],
                               monitor, written)
                   /\ purgeSequences
                   /\ snd' = Idle
                   /\ UNCHANGED stopped
        /\ UNCHANGED <<closed, sequenced, next, retriever, latestVirtualBatchNumber,
                       mutexEthTx, forgotten, restarts, reorgs>>

\* Every error of an attempt after syncEthTxResults: log it and return.
Abandon ==
    /\ snd.pc \in {"choose", "built", "estimated"}
    /\ snd' = Idle
    /\ UNCHANGED <<worldVars, retrVars, boundVars, latestVirtualBatchNumber,
                   latestSentToL1Batch, ethTransactions, file, mutexEthTx, stopped>>

\* New restores ethTransactions from the file, which is empty if there is none.
loadSentSequencesTransactions == file

\* The record a result belongs to: it is added when the file did not have it.
txSequence(i) ==
    IF i \in DOMAIN loadSentSequencesTransactions THEN loadSentSequencesTransactions[i]
    ELSE [status |-> "*missing", OnMonitor |-> TRUE]

syncAllEthTxResults(results) ==
    [i \in DOMAIN loadSentSequencesTransactions \cup results |->
       IF i \in results THEN updateEthTxResult(txSequence(i), i) ELSE txSequence(i)]

\* The process ends, and New and Start run: load the file, sync with every
\* transaction of ethtxmanager, and take the virtual batch as the latest sent.
\* ethtxmanager may have lost a transaction that it had not sent yet.
Restart ==
    \E lost \in SUBSET {i \in DOMAIN monitor : monitor[i].status = "sent"} :
    LET mon == [i \in DOMAIN monitor |->
                  IF i \in lost THEN [monitor[i] EXCEPT !.status = "gone"] ELSE monitor[i]]
        results == {i \in DOMAIN mon : mon[i].status # "gone"}
        synced == syncAllEthTxResults(results)
    IN  /\ restarts < MaxRestarts /\ restarts' = restarts + 1
        /\ forgotten' = forgotten + Cardinality(lost) /\ forgotten' <= MaxForgotten
        /\ latestVirtualBatchNumber' = Len(sequenced)
        /\ next' = Len(sequenced) + 1
        /\ sequenceList' = << >> /\ sequenceData' = {}
        /\ mutexEthTx' = FALSE
        /\ IF \E i \in results : Failing(txSequence(i), i)
           THEN /\ stopped' = TRUE /\ retriever' = "fatal"
                /\ snd' = [Idle EXCEPT !.pc = "fatal"]
                /\ latestSentToL1Batch' = 0
                /\ ethTransactions' = synced /\ monitor' = mon
                /\ UNCHANGED <<file, faults>>
           ELSE /\ stopped' = FALSE /\ retriever' = "run" /\ snd' = Idle
                /\ latestSentToL1Batch' = Len(sequenced)
                /\ \E written \in BOOLEAN : SaveSent(synced, mon, written)
        /\ UNCHANGED <<closed, sequenced, reorgs>>

-----------------------------------------------------------------------------
Environment ==
    \/ CloseBatch
    \/ \E i \in DOMAIN monitor : MineTx(i) \/ SafeTx(i) \/ FinalizeTx(i) \/ ReorgL1(i)

Retrieval == RetrieveBatch \/ StopRetrieval

Sending ==
    \/ UpdateVirtual
    \/ \E i \in snd.todo : SyncTx(i) \/ SyncForgotten(i)
    \/ SyncError \/ SyncDone
    \/ \E tooLong \in BOOLEAN : GetSequences(tooLong)
    \/ EstimateGas \/ SendTx \/ RecordTx \/ Abandon

Next == Environment \/ Retrieval \/ Sending \/ Restart

Spec == Init /\ [][Next]_vars

\* The goroutines run; L1 includes and finalizes transactions; errors do not
\* repeat forever, and the maximal wait since the last virtual batch ends.
Fairness ==
    /\ WF_vars(CloseBatch) /\ WF_vars(Retrieval)
    /\ \A i \in TxId : WF_vars(i \in DOMAIN monitor /\ (MineTx(i) \/ SafeTx(i) \/ FinalizeTx(i)))
    /\ WF_vars(UpdateVirtual) /\ WF_vars(SyncDone) /\ WF_vars(RecordTx)
    /\ \A i \in TxId : WF_vars(i \in snd.todo /\ (SyncTx(i) \/ SyncForgotten(i)))
    /\ SF_vars(GetSequences(TRUE)) /\ SF_vars(EstimateGas) /\ SF_vars(SendTx)

FairSpec == Spec /\ Fairness

-----------------------------------------------------------------------------
(* Properties                                                              *)

\* The rollup's i-th batch on L1 is the L2's i-th batch: no batch is sequenced
\* twice, skipped or out of order, whatever transactions were in flight when
\* the process stopped (Start, syncAllEthTxResults, getSequencesToSend).
L1InOrder == \A i \in DOMAIN sequenced : sequenced[i] = i

\* No transaction handed to ethtxmanager reverts on L1: updateEthTxResult
\* answers a failed one by stopping the sender for good.
NoTxFails == \A i \in DOMAIN monitor : monitor[i].status # "failed"

\* A retrieved batch is still in sequenceList, or on L1, or in a transaction
\* that ethtxmanager will send, also after an L1 reorganisation or a restart
\* (purgeSequences, Start).
NoBatchLost ==
    \A b \in 1 .. next - 1 :
       \/ b \in ToSet(sequenceList)
       \/ b <= Len(sequenced)
       \/ \E i \in DOMAIN monitor : /\ monitor[i].status = "sent"
                                   /\ b \in ToSet(monitor[i].batches)

\* Every closed batch is sequenced on L1 in the end (sequenceSending).
AllSequenced == <>[](Len(sequenced) = MaxBatch)

\* tryToSendSequence never waits for mutexEthTx forever: the loop goes on
\* checking for sequences to send.
KeepsSending == ~At("blocked")

\* The transaction that replaces a forgotten one is recorded (getResultAndUpdateEthTx).
ResendRecorded ==
    \A i \in TxId : (i \in DOMAIN monitor /\ monitor[i].resend) ~> (i \in DOMAIN ethTransactions)

\* sequenceData holds the data of every batch of sequenceList.
ListHasData == ToSet(sequenceList) \subseteq sequenceData
=============================================================================
