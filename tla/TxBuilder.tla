----------------------------- MODULE TxBuilder -----------------------------
(***************************************************************************)
(* sequencesender/txbuilder: how a sequence of batches becomes the data of *)
(* an L1 transaction.  A Banana sequence names the L1 info root it uses by *)
(* its number of leaves and carries the accumulated input hash it leads    *)
(* to, so it is built from separate reads of L1 and of l1infotreesync,     *)
(* while L1 goes on.  An Elderberry sequence names the batch it follows.   *)
(*                                                                         *)
(* A leaf is a number; the root of the L1 info tree with n leaves is the   *)
(* sequence of them, and an accumulated input hash the sequence of what    *)
(* was hashed.  Leaf n is in block n + 1; InitL1InfoRootMap is emitted in   *)
(* block initCount + 1, which is final.                                    *)
(***************************************************************************)
EXTENDS Integers, Sequences

CONSTANTS
    BatchLists,    \* lists of batches, as getSequencesToSend groups them
    InitCounts,    \* leaves at the time of InitL1InfoRootMap
    MaxNewLeaves,  \* bound: leaves after the initial ones
    MaxL1Changes,  \* bound: reorganisations and transactions of others
    TimeMargin,    \* cfg.L1BlockTimestampMargin
    TimestampRange,\* how far ahead of its block the contract allows a timestamp
    MaxTime        \* bound: time

\* A sequence has a batch, and the time of L2 does not go back.
ASSUME TxBuilderAssumption ==
    /\ {MaxNewLeaves, MaxL1Changes, TimeMargin, TimestampRange, MaxTime} \subseteq Nat
    /\ \A batches \in BatchLists :
          /\ Len(batches) \in Nat \ {0} /\ DOMAIN batches = 1 .. Len(batches)
          /\ \A i \in DOMAIN batches : batches[i].ts \in Nat /\ batches[i].ts <= batches[Len(batches)].ts

VARIABLES
    l1,      \* L1: the leaves, how many are final, the rollup's input hash, block time
    initCount,
    info,    \* l1infotreesync: the leaves in its table
    clock,   \* the node's clock
    seqTx,   \* the attempt: what NewSequence and BuildSequenceBatchesTx have so far;
             \* changed: L1 was not, or has not remained, as it was read
    l1Changes

builderVars == <<l1, initCount, info, clock, seqTx, l1Changes>>

Zero    == <<0>>
NoSeqTx == [pc |-> "idle", kind |-> "none", batches |-> << >>, header |-> 0, counter |-> 0,
            root |-> Zero, old |-> << >>, expected |-> << >>, follows |-> 0, maxTs |-> 0,
            changed |-> FALSE]

BuilderInit ==
    /\ initCount \in InitCounts
    /\ l1 = [leaves |-> [i \in 1 .. initCount |-> i], final |-> initCount, acc |-> << >>, time |-> 0]
    /\ info = << >> /\ clock = 0
    /\ seqTx = NoSeqTx /\ l1Changes = 0

-----------------------------------------------------------------------------
(* L1 and l1infotreesync                                                   *)

\* l1InfoRootMap of the contract: nothing for counts before its initial one.
L1InfoRootMap(count) ==
    IF count < initCount \/ count > Len(l1.leaves) THEN Zero ELSE SubSeq(l1.leaves, 1, count)

NewL1Leaf ==
    /\ Len(l1.leaves) < initCount + MaxNewLeaves
    /\ l1' = [l1 EXCEPT !.leaves = Append(@, 10 * l1Changes + Len(@) + 1)]
    /\ UNCHANGED <<initCount, info, clock, seqTx, l1Changes>>

FinalL1Leaf ==
    /\ l1.final < Len(l1.leaves) /\ l1' = [l1 EXCEPT !.final = @ + 1]
    /\ UNCHANGED <<initCount, info, clock, seqTx, l1Changes>>

OtherBatch == [data |-> << >>, root |-> Zero, ts |-> 0, coinbase |-> 0]

\* A reorganisation, or a transaction of another sequence that is mined.
L1Changes ==
    /\ l1Changes < MaxL1Changes /\ l1Changes' = l1Changes + 1
    /\ \/ /\ l1.final < Len(l1.leaves)
          /\ l1' = [l1 EXCEPT !.leaves = SubSeq(@, 1, l1.final)]
       \/ l1' = [l1 EXCEPT !.acc = Append(@, OtherBatch)]
    /\ seqTx' = [seqTx EXCEPT !.changed = (seqTx.pc # "idle")]
    /\ UNCHANGED <<initCount, info, clock>>

InfoIsPrefix == Len(info) <= Len(l1.leaves) /\ info = SubSeq(l1.leaves, 1, Len(info))

\* l1infotreesync processes the next block, or undoes what is no longer there.
SyncLeaf ==
    /\ info # l1.leaves
    /\ info' = IF InfoIsPrefix
               THEN Append(info, l1.leaves[Len(info) + 1])
               ELSE SubSeq(info, 1, Len(info) - 1)
    /\ UNCHANGED <<l1, initCount, clock, seqTx, l1Changes>>

Tick ==
    /\ \/ clock < MaxTime /\ clock' = clock + 1 /\ UNCHANGED l1
       \/ l1.time < clock /\ l1' = [l1 EXCEPT !.time = clock] /\ UNCHANGED clock
    /\ UNCHANGED <<initCount, info, seqTx, l1Changes>>

-----------------------------------------------------------------------------
(* NewSequence                                                             *)

\* populateSequenceData: the index of a batch is that of its last block.
L1InfoTreeIndex(b) == b.blocks[Len(b.blocks)]

\* Mutant of getHighestL1InfoIndex: the last batch has the highest index.
getLastL1InfoIndex(batches) == L1InfoTreeIndex(batches[Len(batches)])

getHighestL1InfoIndex(batches) ==
    CHOOSE i \in {L1InfoTreeIndex(batches[k]) : k \in DOMAIN batches} :
        \A k \in DOMAIN batches : L1InfoTreeIndex(batches[k]) <= i

NewSequenceBanana(batches) ==
    CHOOSE t \in {batches[k].ts : k \in DOMAIN batches} : \A k \in DOMAIN batches : batches[k].ts <= t

CalculateAccInputHash(old, b, root, ts, coinbase) ==
    Append(old, [data |-> b.blocks, root |-> root, ts |-> ts, coinbase |-> coinbase])

AccInputHash(old, batches, root, ts) ==
    LET acc[i \in 0 .. Len(batches)] ==
          IF i = 0 THEN old
          ELSE CalculateAccInputHash(acc[i - 1], batches[i], root, ts, batches[i].coinbase)
    IN acc[Len(batches)]

\* Mutant of NewAccInputHash: the timestamp of the first batch.
AccOfFirstTimestamp(t) == AccInputHash(l1.acc, t.batches, t.root, t.batches[1].ts)

NewAccInputHash(t) == AccInputHash(l1.acc, t.batches, t.root, t.maxTs)

Banana   == {"banana zkevm", "banana validium"}
Kinds    == Banana \cup {"elderberry zkevm", "elderberry validium"}

\* Batches are taken once their last block is in the past.
NewSequence ==
    /\ seqTx.pc = "idle"
    /\ \E batches \in BatchLists, kind \in Kinds :
          /\ \A i \in DOMAIN batches : batches[i].ts <= clock
          /\ seqTx' = [NoSeqTx EXCEPT !.kind = kind, !.batches = batches,
                         !.pc = IF kind \in Banana THEN "header" ELSE "wait",
                         !.follows = Len(l1.acc), !.changed = ~InfoIsPrefix,
                         !.maxTs = IF kind \in Banana THEN NewSequenceBanana(batches)
                                   ELSE batches[Len(batches)].ts]
    /\ UNCHANGED <<l1, initCount, info, clock, l1Changes>>

\* Any of the calls can fail; the attempt starts again later.
Abandon == seqTx' = NoSeqTx

\* GetCounterL1InfoRoot: the header of the final block ...
ReadHeader ==
    /\ seqTx.pc = "header"
    /\ seqTx' = [seqTx EXCEPT !.pc = "counter", !.header = l1.final + 1] \/ Abandon
    /\ UNCHANGED <<l1, initCount, info, clock, l1Changes>>

\* ... then GetLatestInfoUntilBlock, which wants that block processed and then
\* returns the last leaf of the table; without leaves, GetInitL1InfoRootMap.
GetCounterL1InfoRoot ==
    /\ seqTx.pc = "counter"
    /\ LET counter == IF Len(info) = 0 THEN initCount ELSE Len(info)
           highest == getHighestL1InfoIndex(seqTx.batches)
       IN IF \/ Len(info) + 1 < seqTx.header
             \/ counter <= highest /\ ~(counter = 0 /\ highest = 0)
          THEN Abandon
          ELSE seqTx' = [seqTx EXCEPT !.pc = "root", !.counter = counter]
    /\ UNCHANGED <<l1, initCount, info, clock, l1Changes>>

\* The root the contract has for that count, and
\* CheckL1InfoTreeLeafCounterVsInitL1InfoMap.
getL1InfoRoot ==
    /\ seqTx.pc = "root"
    /\ \/ /\ seqTx.counter >= initCount
          /\ seqTx' = [seqTx EXCEPT !.pc = "acc", !.root = L1InfoRootMap(seqTx.counter)]
       \/ Abandon
    /\ UNCHANGED <<l1, initCount, info, clock, l1Changes>>

LastAccInputHash ==
    /\ seqTx.pc = "acc"
    /\ \/ seqTx' = [seqTx EXCEPT !.pc = "wait", !.old = l1.acc,
                      !.expected = NewAccInputHash(seqTx)]
       \/ Abandon
    /\ UNCHANGED <<l1, initCount, info, clock, l1Changes>>

-----------------------------------------------------------------------------
(* tryToSendSequence: the margins, BuildSequenceBatchesTx, EstimateGas     *)

\* Mutant of marginTimeElapsed: the difference has the wrong sign.
marginOfFuture(ts, now) == ts - now < TimeMargin

\* A block further ahead than the margin counts as elapsed.
marginTimeElapsed(ts, now) == ts - TimeMargin > now \/ now - ts >= TimeMargin

\* First against the last L1 block, then against the clock.
waitForMargin ==
    /\ \/ /\ seqTx.pc = "wait"
          /\ marginTimeElapsed(seqTx.batches[Len(seqTx.batches)].ts, l1.time)
          /\ seqTx' = [seqTx EXCEPT !.pc = "wait now"]
       \/ /\ seqTx.pc = "wait now"
          /\ marginTimeElapsed(seqTx.batches[Len(seqTx.batches)].ts, clock)
          /\ seqTx' = [seqTx EXCEPT !.pc = "build"]
       \/ seqTx.pc \in {"wait", "wait now"} /\ Abandon
    /\ UNCHANGED <<l1, initCount, info, clock, l1Changes>>

\* The arguments of the four contract methods.  A validium sends the hash of
\* the data of a batch, which stands for it.  No batch is forced: an RPCBatch has
\* no forced fields.
Data(t)     == [i \in DOMAIN t.batches |-> t.batches[i].blocks]
Coinbase(t) == t.batches[1].coinbase

BananaRollup(t) ==
    [data |-> Data(t), counter |-> t.counter, maxTs |-> t.maxTs, expected |-> t.expected,
     coinbase |-> Coinbase(t)]

\* The data committee hashes the sequence itself and compares.
BananaValidium(t) ==
    IF AccInputHash(t.old, t.batches, t.root, t.maxTs) = t.expected
    THEN {BananaRollup(t)} ELSE {}

\* getLastSequencedBatchNumber: the number before that of the first batch.
ElderberryRollup(t) ==
    [data |-> Data(t), maxTs |-> t.maxTs, follows |-> t.follows, coinbase |-> Coinbase(t)]

\* convertToBatchesData and PostSequenceElderberry compare nothing.
ElderberryValidium(t) == {ElderberryRollup(t)}

BuildTx(t) ==
    CASE t.kind = "banana zkevm"     -> {BananaRollup(t)}
      [] t.kind = "banana validium"  -> BananaValidium(t)
      [] t.kind = "elderberry zkevm" -> {ElderberryRollup(t)}
      [] OTHER                       -> ElderberryValidium(t)

\* Posting the data and building the transaction may also fail.
BuildSequenceBatchesTx ==
    /\ seqTx.pc = "build"
    /\ \/ BuildTx(seqTx) # {} /\ seqTx' = [seqTx EXCEPT !.pc = "built"]
       \/ Abandon
    /\ UNCHANGED <<l1, initCount, info, clock, l1Changes>>

\* sequenceBatches of the contract, which hashes every batch with the coinbase
\* of the sequence; of Elderberry it wants the number of the last batch.
sequenceBatches(tx) ==
    LET batches == [i \in DOMAIN tx.data |-> [blocks |-> tx.data[i], coinbase |-> tx.coinbase]] IN
    /\ tx.maxTs <= l1.time + TimestampRange
    /\ IF "follows" \in DOMAIN tx THEN Len(l1.acc) = tx.follows
       ELSE /\ L1InfoRootMap(tx.counter) # Zero
            /\ AccInputHash(l1.acc, batches, L1InfoRootMap(tx.counter), tx.maxTs) = tx.expected

\* EstimateGas runs the transaction; it is sent when that succeeds.
EstimateGas ==
    /\ seqTx.pc = "built"
    /\ \/ /\ \A tx \in BuildTx(seqTx) : sequenceBatches(tx)
          /\ seqTx' = [seqTx EXCEPT !.pc = "sent"]
       \/ Abandon
    /\ UNCHANGED <<l1, initCount, info, clock, l1Changes>>

BuilderNext ==
    \/ NewL1Leaf \/ FinalL1Leaf \/ L1Changes \/ SyncLeaf \/ Tick
    \/ NewSequence \/ ReadHeader \/ GetCounterL1InfoRoot \/ getL1InfoRoot \/ LastAccInputHash
    \/ waitForMargin \/ BuildSequenceBatchesTx \/ EstimateGas

BuilderSpec == BuilderInit /\ [][BuilderNext]_builderVars

-----------------------------------------------------------------------------
(* Properties                                                              *)

\* A transaction that BuildSequenceBatchesTx has built is one the contract
\* accepts, although its parts are read one after the other while leaves are
\* added and synced: only another sequence that is mined in between can spoil
\* it, or a reorganisation that happens or is not yet undone by l1infotreesync.
BuiltIsAccepted ==
    seqTx.pc \in {"built", "sent"} /\ ~seqTx.changed /\ seqTx.maxTs <= l1.time + TimestampRange =>
        \A tx \in BuildTx(seqTx) : sequenceBatches(tx)

\* Every L1 info index that a block of the sequence uses is below the number of
\* leaves the sequence names, or the batches could never be proved.  Excluded
\* are batches whose last block has a lower index than another of their blocks:
\* only the last one is looked at.
IndexesCovered ==
    seqTx.pc \in {"built", "sent"} /\ seqTx.kind \in Banana =>
        \A i \in DOMAIN seqTx.batches :
           LET blocks == seqTx.batches[i].blocks IN
           (\A k \in DOMAIN blocks : blocks[k] <= L1InfoTreeIndex(seqTx.batches[i])) =>
               \A k \in DOMAIN blocks : blocks[k] = 0 \/ blocks[k] < seqTx.counter

\* A sequence is built only when the node's clock is past the margin after its
\* last block, so the L1 block it is mined in is not older than its timestamps.
MarginIsKept ==
    seqTx.pc \in {"build", "built", "sent"} =>
        \A i \in DOMAIN seqTx.batches : clock >= seqTx.batches[i].ts + TimeMargin
=============================================================================
