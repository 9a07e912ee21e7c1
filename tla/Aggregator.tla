----------------------------- MODULE Aggregator -----------------------------
(***************************************************************************)
(* The aggregator: one goroutine per connected prover (Channel) proves     *)
(* batches, aggregates neighbouring proofs and turns an eligible one into  *)
(* a final proof; sendFinalProof settles final proofs on L1 one at a time; *)
(* the L1 synchronizer calls back on a rollback of sequenced batches and   *)
(* on an L1 reorganisation.  They share the tables aggregator.proof and    *)
(* aggregator.sequence and the map of accumulated input hashes.            *)
(*                                                                         *)
(* A batch's data is a number that tells sequencings of it apart, and its  *)
(* accumulated input hash is the sequence of the data of all batches up to *)
(* it.  A proof is its range with the hashes it starts from and ends in.   *)
(* Every batch is profitable.                                              *)
(***************************************************************************)
EXTENDS Integers, Sequences, FiniteSets

CONSTANTS
    Provers,       \* connected provers
    L1Sequences,   \* the batches of each sequence on L1: <<from, to>>, in order
    Backends,      \* values of SettlementBackend: "l1", "agglayer"
    MaxFailures,   \* bound: failed calls of provers, RPC and ethtxmanager
    MaxBusy,       \* bound: witness requests answered with an error
    MaxExpired,    \* bound: locks that expire while their owner still works
    MaxRollbacks,  \* bound: rollbacks of sequenced batches
    MaxReorgs,     \* bound: L1 reorganisations
    MaxRestarts,   \* bound: restarts of the process
    None           \* nil: no proof, no owner

MaxBatch == L1Sequences[Len(L1Sequences)][2]
Batch    == 1 .. MaxBatch

ASSUME AggregatorAssumption ==
    /\ IsFiniteSet(Provers) /\ Provers # {}
    /\ L1Sequences \in Seq(Nat \X Nat) /\ L1Sequences # << >> /\ L1Sequences[1][1] = 1
    /\ \A i \in DOMAIN L1Sequences : L1Sequences[i][1] <= L1Sequences[i][2]
    /\ \A i \in 2 .. Len(L1Sequences) : L1Sequences[i][1] = L1Sequences[i - 1][2] + 1
    /\ None \notin Provers /\ None \notin [old : Seq(Nat), new : Seq(Nat)]
    /\ None \notin [from : Nat, to : Nat, content : [old : Seq(Nat), new : Seq(Nat)],
                    locked : BOOLEAN]

VARIABLES
    virtual,         \* L1: the data of every sequenced batch
    verified,        \* L1: the last verified batch
    backend,         \* cfg.SettlementBackend
    pending,         \* ethtxmanager, AggLayer: verifications not mined yet
    failed,          \* ethtxmanager: some verification has reverted
    proofs,          \* aggregator.proof
    sequences,       \* aggregator.sequence
    accInputHashes,  \* the hashes in memory, << >> for a batch without one
    stateDBMutex,    \* its owner: a prover, or None
    verifyingProof, halted,
    prv,             \* the goroutine of every prover
    snd,             \* the goroutine sendFinalProof
    rb,              \* the callback of the synchronizer
    failures, busy, expired, rollbacks, reorgs, restarts

l1Vars    == <<backend, virtual, verified, pending, failed>>
dbVars    == <<proofs, sequences>>
memVars   == <<accInputHashes, stateDBMutex, verifyingProof, halted>>
boundVars == <<failures, busy, expired, rollbacks, reorgs, restarts>>
vars      == <<l1Vars, dbVars, memVars, prv, snd, rb, boundVars>>

-----------------------------------------------------------------------------
(* The tables                                                              *)

Hash == UNION {[1 .. n -> 0 .. MaxRollbacks + MaxReorgs] : n \in 0 .. MaxBatch}

Content == [old : Hash, new : Hash] \cup {None}

Proof == [from : Batch, to : Batch, content : Content, locked : BOOLEAN]

SameRange(r, p) == r.from = p.from /\ r.to = p.to

CheckProofExistsForBatch(b) == \E r \in proofs : r.from <= b /\ b <= r.to

CheckProofContainsCompleteSequences(p) ==
    \E s, t \in sequences : s[1] = p.from /\ t[2] = p.to

GetProofReadyToVerify(v) ==
    {r \in proofs : r.from = v + 1 /\ ~r.locked /\ CheckProofContainsCompleteSequences(r)}

\* Two neighbours of one sequence, or two runs of complete sequences; the query
\* takes the lowest pair.
GetProofsToAggregate ==
    LET pairs == {pq \in proofs \X proofs :
                    LET p == pq[1]
                        q == pq[2]
                    IN  /\ p.to = q.from - 1 /\ ~p.locked /\ ~q.locked
                        /\ p.content # None /\ q.content # None
                        /\ \/ \E s \in sequences : s[1] <= p.from /\ q.to <= s[2]
                           \/ /\ CheckProofContainsCompleteSequences(p)
                              /\ CheckProofContainsCompleteSequences(q)}
    IN  {pq \in pairs : \A other \in pairs : pq[1].from <= other[1].from}

UpdateGeneratedProof(table, p) == {IF SameRange(r, p) THEN p ELSE r : r \in table}

DeleteGeneratedProofs(table, from, to) == {r \in table : ~(r.from >= from /\ r.to <= to)}

DeleteUngeneratedProofs(table) == {r \in table : ~r.locked}

\* ON CONFLICT (from_batch_num) DO UPDATE
AddSequence(table, s) == {t \in table : t[1] # s[1]} \cup {s}

Lock(p)   == [p EXCEPT !.locked = TRUE]
Unlock(p) == [p EXCEPT !.locked = FALSE]

-----------------------------------------------------------------------------
(* L1, its synchronizer and ethtxmanager                                   *)

AccInputHash(b) == SubSeq(virtual, 1, b)

AllSequences == {L1Sequences[i] : i \in DOMAIN L1Sequences}

Boundaries == {0} \cup {L1Sequences[i][2] : i \in DOMAIN L1Sequences}

SequenceOf(b) == CHOOSE s \in AllSequences : s[1] <= b /\ b <= s[2]

\* The rollup contract verifies the batches up to p.to.
Accepts(p) ==
    /\ p.from - 1 <= verified /\ verified < p.to /\ p.to <= Len(virtual)
    /\ p.from - 1 \in Boundaries /\ p.to \in Boundaries
    /\ p.content = [old |-> AccInputHash(p.from - 1), new |-> AccInputHash(p.to)]

Sequence ==
    /\ Len(virtual) < MaxBatch /\ rb.pc = "none"
    /\ LET s == SequenceOf(Len(virtual) + 1) IN
       virtual' = virtual \o [i \in 1 .. s[2] - s[1] + 1 |-> rollbacks + reorgs]
    /\ UNCHANGED <<backend, verified, pending, failed, dbVars, memVars, prv, snd, rb, boundVars>>

\* The monitored transaction is mined: it verifies its batches or reverts.
MineVerification(p) ==
    /\ p \in pending
    /\ pending' = pending \ {p}
    /\ IF Accepts(p) THEN verified' = p.to /\ UNCHANGED failed
                     ELSE failed' = (failed \/ backend = "l1") /\ UNCHANGED verified
    /\ UNCHANGED <<backend, virtual, dbVars, memVars, prv, snd, rb, boundVars>>

-----------------------------------------------------------------------------
(* tryBuildFinalProof, with the proof the goroutine has in hand or with    *)
(* one of the table                                                        *)

Idle == [pc |-> "loop", inHand |-> FALSE, proof |-> None, other |-> None,
         last |-> 0, batch |-> 0, data |-> 0, acc |-> << >>]

Goto(p, pc)    == prv' = [prv EXCEPT ![p].pc = pc]
Become(p, rec) == prv' = [prv EXCEPT ![p] = rec]

\* Where the goroutine goes on when no final proof was built.
NotBuilt(p) == IF prv[p].inHand THEN "store" ELSE "aggregate"

\* What no step of a prover's goroutine changes.
others == <<l1Vars, verifyingProof, halted, snd, rb, busy, expired, rollbacks, reorgs, restarts>>

Channel(p) ==
    /\ prv[p].pc = "loop" /\ ~halted
    /\ Become(p, [Idle EXCEPT !.pc = "check"])
    /\ UNCHANGED <<others, dbVars, accInputHashes, stateDBMutex, failures>>

canVerifyProof(p) ==
    /\ prv[p].pc = "check" /\ ~verifyingProof
    /\ Goto(p, "ready")
    /\ UNCHANGED <<others, dbVars, accInputHashes, stateDBMutex, failures>>

\* A verification is in progress, or it is not time for the next one.
CannotVerifyProof(p) ==
    /\ prv[p].pc = "check"
    /\ Goto(p, NotBuilt(p))
    /\ UNCHANGED <<others, dbVars, accInputHashes, stateDBMutex, failures>>

GetLatestVerifiedBatchNum(p) ==
    /\ prv[p].pc = "ready"
    /\ Become(p, [prv[p] EXCEPT !.last = verified,
                                !.pc = IF prv[p].inHand THEN "validate" ELSE "lock"])
    /\ UNCHANGED <<others, dbVars, accInputHashes, stateDBMutex, failures>>

getAndLockProofReadyToVerify(p) ==
    /\ prv[p].pc = "lock" /\ stateDBMutex = None
    /\ LET ready == GetProofReadyToVerify(prv[p].last) IN
       \/ /\ ready = {}
          /\ Goto(p, "aggregate")
          /\ UNCHANGED proofs
       \/ \E r \in ready :
             /\ proofs' = UpdateGeneratedProof(proofs, Lock(r))
             /\ Become(p, [prv[p] EXCEPT !.pc = "build", !.proof = Lock(r)])
    /\ UNCHANGED <<others, sequences, accInputHashes, stateDBMutex, failures>>

\* A proof below the next batch is deleted; one that reaches over it, or starts
\* with it, is eligible when it contains complete sequences.
validateEligibleFinalProof(p) ==
    LET proof == prv[p].proof
        next  == prv[p].last + 1
    IN  /\ prv[p].pc = "validate"
        /\ proofs' = IF proof.to < next
                     THEN DeleteGeneratedProofs(proofs, proof.from, proof.to) ELSE proofs
        /\ Goto(p, IF /\ proof.from <= next /\ next <= proof.to
                      /\ CheckProofContainsCompleteSequences(proof)
                   THEN "build" ELSE "store")
        /\ UNCHANGED <<others, sequences, accInputHashes, stateDBMutex, failures>>

buildFinalProof(p) ==
    /\ prv[p].pc = "build"
    /\ Goto(p, "send")
    /\ UNCHANGED <<others, dbVars, accInputHashes, stateDBMutex, failures>>

\* A proof taken from the table is unlocked, one in hand is stored by its owner.
FinalProofFails(p) ==
    /\ prv[p].pc = "build"
    /\ failures < MaxFailures /\ failures' = failures + 1
    /\ proofs' = IF prv[p].inHand THEN proofs
                 ELSE UpdateGeneratedProof(proofs, Unlock(prv[p].proof))
    /\ Goto(p, NotBuilt(p))
    /\ UNCHANGED <<others, sequences, accInputHashes, stateDBMutex>>

\* a.finalProof <- msg: an unbuffered channel.
SendFinalProof(p) ==
    /\ prv[p].pc = "send" /\ snd.pc = "wait"
    /\ snd' = [pc |-> "received", proof |-> prv[p].proof]
    /\ Become(p, IF prv[p].inHand THEN Idle ELSE [Idle EXCEPT !.pc = "aggregate"])
    /\ UNCHANGED <<l1Vars, dbVars, memVars, rb, boundVars>>

\* The proof in hand has not become a final proof.
StoreProof(p) ==
    /\ prv[p].pc = "store"
    /\ proofs' = UpdateGeneratedProof(proofs, Unlock(prv[p].proof))
    /\ Become(p, Idle)
    /\ UNCHANGED <<others, sequences, accInputHashes, stateDBMutex, failures>>

-----------------------------------------------------------------------------
(* tryAggregateProofs                                                      *)

\* A mutant of getAndLockProofsToAggregate: the second proof is not locked.
LockFirstToAggregate(p) ==
    /\ prv[p].pc = "aggregate" /\ stateDBMutex = None
    /\ \/ /\ GetProofsToAggregate = {}
          /\ Goto(p, "pick")
          /\ UNCHANGED proofs
       \/ \E pq \in GetProofsToAggregate :
             /\ proofs' = UpdateGeneratedProof(proofs, Lock(pq[1]))
             /\ Become(p, [Idle EXCEPT !.pc = "aggregating", !.proof = Lock(pq[1]),
                                       !.other = pq[2]])
    /\ UNCHANGED <<others, sequences, accInputHashes, stateDBMutex, failures>>

getAndLockProofsToAggregate(p) ==
    /\ prv[p].pc = "aggregate" /\ stateDBMutex = None
    /\ \/ /\ GetProofsToAggregate = {}
          /\ Goto(p, "pick")
          /\ UNCHANGED proofs
       \/ \E pq \in GetProofsToAggregate :
             /\ proofs' = UpdateGeneratedProof(
                             UpdateGeneratedProof(proofs, Lock(pq[1])), Lock(pq[2]))
             /\ Become(p, [Idle EXCEPT !.pc = "aggregating", !.proof = Lock(pq[1]),
                                       !.other = Lock(pq[2])])
    /\ UNCHANGED <<others, sequences, accInputHashes, stateDBMutex, failures>>

\* The public inputs of a proof a prover makes of one batch, or of two proofs.
BatchProof(old, data)   == [old |-> old, new |-> Append(old, data)]
AggregatedProof(c1, c2) == [old |-> c1.old, new |-> c2.new]

\* A mutant of tryAggregateProofs: the range is the one of the second proof.
AggregateWrongRange(p) ==
    LET p1 == prv[p].proof
        p2 == prv[p].other
        joined == [p2 EXCEPT !.content.old = p1.content.old]
    IN  /\ prv[p].pc = "aggregating" /\ p1.content.new = p2.content.old
        /\ proofs' = DeleteGeneratedProofs(proofs, p1.from, p2.to) \cup {joined}
        /\ Become(p, [Idle EXCEPT !.pc = "check", !.inHand = TRUE, !.proof = joined])
        /\ UNCHANGED <<others, sequences, accInputHashes, stateDBMutex, failures>>

\* One transaction deletes what the proof covers and inserts it.  A prover only
\* joins two proofs of which the second starts where the first ends.
tryAggregateProofs(p) ==
    LET p1 == prv[p].proof
        p2 == prv[p].other
        joined == [from |-> p1.from, to |-> p2.to, locked |-> TRUE,
                   content |-> AggregatedProof(p1.content, p2.content)]
    IN  /\ prv[p].pc = "aggregating" /\ p1.content.new = p2.content.old
        /\ proofs' = DeleteGeneratedProofs(proofs, p1.from, p2.to) \cup {joined}
        /\ Become(p, [Idle EXCEPT !.pc = "check", !.inHand = TRUE, !.proof = joined])
        /\ UNCHANGED <<others, sequences, accInputHashes, stateDBMutex, failures>>

unlockProofsToAggregate(p) ==
    LET p1 == prv[p].proof
        p2 == prv[p].other
    IN  /\ prv[p].pc = "aggregating"
        /\ \/ p1.content.new # p2.content.old /\ UNCHANGED failures
           \/ failures < MaxFailures /\ failures' = failures + 1
        /\ proofs' = UpdateGeneratedProof(UpdateGeneratedProof(proofs, Unlock(p1)), Unlock(p2))
        /\ Become(p, [Idle EXCEPT !.pc = "pick"])
        /\ UNCHANGED <<others, sequences, accInputHashes, stateDBMutex>>

-----------------------------------------------------------------------------
(* tryGenerateBatchProof                                                   *)

MissingHash(b) == accInputHashes[b] = << >> /\ b > 0

\* The lowest batch without a proof.  A proof on top of a hash that is not in
\* memory makes all proofs disappear, and the batch before it is taken.
BatchToProve ==
    LET b == CHOOSE n \in verified + 1 .. MaxBatch + 1 :
                /\ ~CheckProofExistsForBatch(n) \/ MissingHash(n - 1)
                /\ \A m \in verified + 1 .. n - 1 :
                      CheckProofExistsForBatch(m) /\ ~MissingHash(m - 1)
        cleanup == CheckProofExistsForBatch(b)
    IN  [batch  |-> IF cleanup THEN b - 1 ELSE b,
         proofs |-> IF cleanup THEN {} ELSE proofs]

\* getAndLockBatchToProve up to the virtual batch, under stateDBMutex.
GetBatchToProve(p) ==
    /\ prv[p].pc = "pick" /\ stateDBMutex = None
    /\ proofs' = BatchToProve.proofs
    /\ LET b == BatchToProve.batch IN
       IF b > Len(virtual)
       THEN Become(p, Idle) /\ UNCHANGED stateDBMutex
       ELSE /\ stateDBMutex' = p
            /\ Become(p, [Idle EXCEPT !.pc = "hash", !.batch = b, !.data = virtual[b]])
    /\ UNCHANGED <<others, sequences, accInputHashes, failures>>

\* The RPC has answered: the accumulated input hash follows from the previous
\* one, when that is in memory ...
CalculateAccInputHash(p) ==
    LET b == prv[p].batch IN
    /\ prv[p].pc = "hash"
    /\ IF MissingHash(b - 1)
       THEN Become(p, Idle) /\ stateDBMutex' = None
       ELSE /\ Become(p, [prv[p] EXCEPT !.pc = "set",
                                        !.acc = Append(accInputHashes[b - 1], prv[p].data)])
            /\ UNCHANGED stateDBMutex
    /\ UNCHANGED <<others, dbVars, accInputHashes, failures>>

\* A mutant of setAccInputHash: stored under the number of the previous batch.
setAccInputHashBefore(p) ==
    /\ prv[p].pc = "set"
    /\ accInputHashes' = [accInputHashes EXCEPT ![prv[p].batch - 1] = prv[p].acc]
    /\ Goto(p, "witness")
    /\ UNCHANGED <<others, dbVars, stateDBMutex, failures>>

\* ... and is stored; handleRollbackBatches may have emptied the map meanwhile.
setAccInputHash(p) ==
    /\ prv[p].pc = "set"
    /\ accInputHashes' = [accInputHashes EXCEPT ![prv[p].batch] = prv[p].acc]
    /\ Goto(p, "witness")
    /\ UNCHANGED <<others, dbVars, stateDBMutex, failures>>

\* The witness has arrived: insert the sequence and the locked proof.
AddGeneratedProof(p) ==
    LET b   == prv[p].batch
        row == [from |-> b, to |-> b, content |-> None, locked |-> TRUE]
    IN  /\ prv[p].pc = "witness"
        /\ sequences' = AddSequence(sequences, SequenceOf(b))
        /\ IF \E r \in proofs : SameRange(r, row)
           THEN Become(p, Idle) /\ UNCHANGED proofs
           ELSE /\ proofs' = proofs \cup {row}
                /\ Become(p, [prv[p] EXCEPT !.pc = "input", !.proof = row])
        /\ stateDBMutex' = None
        /\ UNCHANGED <<others, accInputHashes, failures>>

\* for err != nil { ... }: the request is not repeated inside the loop.
GetWitnessFails(p) ==
    /\ prv[p].pc = "witness"
    /\ busy < MaxBusy /\ busy' = busy + 1
    /\ Goto(p, "stuck")
    /\ UNCHANGED <<l1Vars, dbVars, memVars, snd, rb, failures, expired, rollbacks,
                   reorgs, restarts>>

\* buildInputProver reads the hash of the previous batch once more.
buildInputProver(p) ==
    LET b == prv[p].batch IN
    /\ prv[p].pc = "input"
    /\ IF MissingHash(b - 1)
       THEN Become(p, Idle) /\ proofs' = DeleteGeneratedProofs(proofs, b, b)
       ELSE /\ Become(p, [prv[p] EXCEPT !.pc = "proving",
                             !.proof.content = BatchProof(accInputHashes[b - 1], prv[p].data)])
            /\ UNCHANGED proofs
    /\ UNCHANGED <<others, sequences, accInputHashes, stateDBMutex, failures>>

\* The sanity check halts the goroutine when the hash of the proof is not the
\* one calculated for the batch.
BatchProofGenerated(p) ==
    /\ prv[p].pc = "proving"
    /\ Become(p, IF prv[p].proof.content.new # prv[p].acc THEN [prv[p] EXCEPT !.pc = "halted"]
                 ELSE [Idle EXCEPT !.pc = "check", !.inHand = TRUE, !.proof = prv[p].proof])
    /\ UNCHANGED <<others, dbVars, accInputHashes, stateDBMutex, failures>>

BatchProofFails(p) ==
    /\ prv[p].pc \in {"input", "proving"}
    /\ failures < MaxFailures /\ failures' = failures + 1
    /\ proofs' = DeleteGeneratedProofs(proofs, prv[p].batch, prv[p].batch)
    /\ Become(p, Idle)
    /\ UNCHANGED <<others, sequences, accInputHashes, stateDBMutex>>

-----------------------------------------------------------------------------
(* sendFinalProof                                                          *)

Waiting == [pc |-> "wait", proof |-> None]

\* What no step of sendFinalProof changes.
outside == <<backend, virtual, verified, failed, sequences, stateDBMutex, halted, prv, rb,
             busy, expired, rollbacks, reorgs, restarts>>

startProofVerification ==
    /\ snd.pc = "received"
    /\ verifyingProof' = TRUE
    /\ snd' = [snd EXCEPT !.pc = "batch"]
    /\ UNCHANGED <<outside, pending, proofs, accInputHashes, failures>>

\* The error path unlocks nothing.
GetFinalBatchFails ==
    /\ snd.pc = "batch"
    /\ failures < MaxFailures /\ failures' = failures + 1
    /\ verifyingProof' = FALSE
    /\ snd' = Waiting
    /\ UNCHANGED <<outside, pending, proofs, accInputHashes>>

\* ethtxmanager estimates the gas of a transaction it is given: one that would
\* revert is refused.
settleDirect ==
    /\ snd.pc = "batch" /\ backend = "l1" /\ Accepts(snd.proof)
    /\ pending' = pending \cup {snd.proof}
    /\ snd' = [snd EXCEPT !.pc = "process"]
    /\ UNCHANGED <<outside, proofs, accInputHashes, verifyingProof, failures>>

\* The AggLayer checks the proof the same way before it takes the transaction.
settleWithAggLayer ==
    /\ snd.pc = "batch" /\ backend = "agglayer" /\ Accepts(snd.proof)
    /\ pending' = pending \cup {snd.proof}
    /\ snd' = [snd EXCEPT !.pc = "mining"]
    /\ UNCHANGED <<outside, proofs, accInputHashes, verifyingProof, failures>>

\* The transaction is mined.  Neither proofs nor hashes are removed.
WaitTxToBeMined ==
    /\ snd.pc = "mining" /\ snd.proof \notin pending
    /\ verifyingProof' = FALSE
    /\ snd' = Waiting
    /\ UNCHANGED <<outside, pending, proofs, accInputHashes, failures>>

\* The transaction is refused, or AggLayerTxTimeout passes before it is mined.
handleFailureToAddVerifyBatchToBeMonitored ==
    /\ \/ snd.pc = "batch" /\ ~Accepts(snd.proof) /\ UNCHANGED failures
       \/ /\ snd.pc \in {"batch", "mining"}
          /\ failures < MaxFailures /\ failures' = failures + 1
    /\ proofs' = UpdateGeneratedProof(proofs, Unlock(snd.proof))
    /\ verifyingProof' = FALSE
    /\ snd' = Waiting
    /\ UNCHANGED <<outside, pending, accInputHashes>>

\* A mutant of handleMonitoredTxResult: the last hash is removed as well.
handleMonitoredTxResultAll ==
    LET p == snd.proof IN
    /\ snd.pc = "process" /\ pending = {} /\ ~failed
    /\ proofs' = DeleteGeneratedProofs(proofs, p.from, p.to)
    /\ accInputHashes' = [b \in 0 .. MaxBatch |->
                             IF p.from <= b /\ b <= p.to THEN << >> ELSE accInputHashes[b]]
    /\ verifyingProof' = FALSE
    /\ snd' = Waiting
    /\ UNCHANGED <<outside, pending, failures>>

\* ProcessPendingMonitoredTxs returns when nothing is pending any more.  A
\* failed transaction ends the process; a finalized one frees its proofs and
\* the hashes below its last batch.
handleMonitoredTxResult ==
    LET p == snd.proof IN
    /\ snd.pc = "process" /\ pending = {} /\ ~failed
    /\ proofs' = DeleteGeneratedProofs(proofs, p.from, p.to)
    /\ accInputHashes' = [b \in 0 .. MaxBatch |->
                             IF p.from <= b /\ b < p.to THEN << >> ELSE accInputHashes[b]]
    /\ verifyingProof' = FALSE
    /\ snd' = Waiting
    /\ UNCHANGED <<outside, pending, failures>>

-----------------------------------------------------------------------------
(* cleanupLockedProofs, the callbacks of the synchronizer, and Start       *)

\* The batches that goroutine p, or sendFinalProof, works on.
Working(p) ==
    LET g == prv[p] IN
    IF g.pc \in {"build", "send", "validate", "store", "input", "proving"} \/ g.inHand
    THEN g.proof.from .. g.proof.to
    ELSE IF g.pc = "aggregating" THEN g.proof.from .. g.other.to ELSE {}

Settling == IF snd.proof = None THEN {} ELSE snd.proof.from .. snd.proof.to

Owned(r) == r.from .. r.to \subseteq Settling \cup UNION {Working(p) : p \in Provers}

\* A lock that nobody holds any more always expires; one that is held expires
\* when the work takes longer than GeneratingProofCleanupThreshold.
CleanupLockedProofs(r) ==
    /\ r \in proofs /\ r.locked
    /\ IF Owned(r) THEN expired < MaxExpired /\ expired' = expired + 1
                   ELSE UNCHANGED expired
    /\ proofs' = proofs \ {r}
    /\ UNCHANGED <<l1Vars, sequences, memVars, prv, snd, rb, failures, busy, rollbacks,
                   reorgs, restarts>>

NoCallback == [pc |-> "none", last |-> 0, reorg |-> FALSE]

\* L1 drops the batches above last, never a verified one: by a rollback of the
\* sequencer's or, with reorg, by a reorganisation.  The synchronizer has stored
\* it and calls back.
DropBatches(last, reorg) ==
    /\ rb.pc = "none" /\ ~halted
    /\ last \in Boundaries /\ verified <= last /\ last < Len(virtual)
    /\ virtual' = SubSeq(virtual, 1, last)
    /\ rb' = [pc |-> IF reorg THEN "ungenerated" ELSE "hashes", last |-> last, reorg |-> reorg]
    /\ UNCHANGED <<backend, verified, pending, failed, dbVars, memVars, prv, snd, failures, busy,
                   expired, restarts>>

RollbackBatches(last) ==
    /\ rollbacks < MaxRollbacks /\ rollbacks' = rollbacks + 1 /\ UNCHANGED reorgs
    /\ DropBatches(last, FALSE)

ReorgL1(last) ==
    /\ reorgs < MaxReorgs /\ reorgs' = reorgs + 1 /\ UNCHANGED rollbacks
    /\ DropBatches(last, TRUE)

\* The parts of handleRollbackBatches, and the last two of handleReorg.  They
\* take no stateDBMutex.
ResetAccInputHashes ==
    /\ rb.pc = "hashes"
    /\ accInputHashes' = [b \in 0 .. MaxBatch |->
                             IF b = verified THEN AccInputHash(b) ELSE << >>]
    /\ rb' = [rb EXCEPT !.pc = "ungenerated"]
    /\ UNCHANGED <<l1Vars, dbVars, stateDBMutex, verifyingProof, halted, prv, snd, boundVars>>

DeleteWipProofs ==
    /\ rb.pc = "ungenerated"
    /\ proofs' = DeleteUngeneratedProofs(proofs)
    /\ rb' = [rb EXCEPT !.pc = "generated"]
    /\ UNCHANGED <<l1Vars, sequences, memVars, prv, snd, boundVars>>

\* A reorganisation halts the aggregator until it is restarted.
DeleteRolledBackProofs ==
    /\ rb.pc = "generated"
    /\ proofs' = DeleteGeneratedProofs(proofs, rb.last + 1, MaxBatch)
    /\ halted' = rb.reorg
    /\ rb' = NoCallback
    /\ UNCHANGED <<l1Vars, sequences, accInputHashes, stateDBMutex, verifyingProof, prv, snd,
                   boundVars>>

\* A call that fails ends handleRollbackBatches, and halts the aggregator too;
\* handleReorg goes on with the next one.
CallbackFails ==
    /\ rb.pc # "none"
    /\ failures < MaxFailures /\ failures' = failures + 1
    /\ rb' = IF rb.reorg /\ rb.pc = "ungenerated" THEN [rb EXCEPT !.pc = "generated"]
                                                  ELSE NoCallback
    /\ halted' = (rb'.pc = "none")
    /\ UNCHANGED <<l1Vars, dbVars, accInputHashes, stateDBMutex, verifyingProof, prv, snd, busy,
                   expired, rollbacks, reorgs, restarts>>

\* The process ends and New and Start run.  The tables and the transactions of
\* ethtxmanager persist.
Start ==
    /\ restarts < MaxRestarts /\ restarts' = restarts + 1
    /\ proofs' = DeleteGeneratedProofs(proofs, verified, MaxBatch)
    /\ accInputHashes' = [b \in 0 .. MaxBatch |->
                             IF b = verified THEN AccInputHash(b) ELSE << >>]
    /\ stateDBMutex' = None /\ verifyingProof' = FALSE /\ halted' = FALSE
    /\ prv' = [p \in Provers |-> Idle]
    /\ snd' = Waiting /\ rb' = NoCallback
    /\ UNCHANGED <<l1Vars, sequences, failures, busy, expired, rollbacks, reorgs>>

-----------------------------------------------------------------------------
Init ==
    /\ backend \in Backends /\ virtual = << >> /\ verified = 0 /\ pending = {} /\ failed = FALSE
    /\ proofs = {} /\ sequences = {}
    /\ accInputHashes = [b \in 0 .. MaxBatch |-> << >>]
    /\ stateDBMutex = None /\ verifyingProof = FALSE /\ halted = FALSE
    /\ prv = [p \in Provers |-> Idle] /\ snd = Waiting /\ rb = NoCallback
    /\ failures = 0 /\ busy = 0 /\ expired = 0 /\ rollbacks = 0 /\ reorgs = 0 /\ restarts = 0

FinalProofStep(p) ==
    \/ canVerifyProof(p) \/ CannotVerifyProof(p) \/ GetLatestVerifiedBatchNum(p)
    \/ getAndLockProofReadyToVerify(p) \/ validateEligibleFinalProof(p)
    \/ buildFinalProof(p) \/ FinalProofFails(p) \/ SendFinalProof(p) \/ StoreProof(p)

AggregateStep(p) ==
    \/ getAndLockProofsToAggregate(p) \/ tryAggregateProofs(p) \/ unlockProofsToAggregate(p)

BatchStep(p) ==
    \/ GetBatchToProve(p) \/ CalculateAccInputHash(p) \/ setAccInputHash(p)
    \/ AddGeneratedProof(p) \/ GetWitnessFails(p) \/ buildInputProver(p) \/ BatchProofGenerated(p)
    \/ BatchProofFails(p)

Prover(p) == Channel(p) \/ FinalProofStep(p) \/ AggregateStep(p) \/ BatchStep(p)

Sender ==
    \/ startProofVerification \/ GetFinalBatchFails
    \/ settleDirect \/ settleWithAggLayer \/ WaitTxToBeMined
    \/ handleFailureToAddVerifyBatchToBeMonitored \/ handleMonitoredTxResult

L1 == Sequence \/ \E p \in pending : MineVerification(p)

Callback ==
    \/ \E last \in 0 .. MaxBatch : RollbackBatches(last) \/ ReorgL1(last)
    \/ ResetAccInputHashes \/ DeleteWipProofs \/ DeleteRolledBackProofs \/ CallbackFails

Next ==
    \/ L1 \/ Sender \/ Callback \/ Start
    \/ \E r \in proofs : CleanupLockedProofs(r)
    \/ \E p \in Provers : Prover(p)

Spec == Init /\ [][Next]_vars

\* The verification interval passes, provers answer, the calls that are repeated
\* succeed in the end, and L1 mines what it is given.
Fairness ==
    /\ WF_vars(L1) /\ WF_vars(Sender)
    /\ \A p \in Provers :
          /\ WF_vars(Prover(p)) /\ SF_vars(canVerifyProof(p)) /\ SF_vars(SendFinalProof(p))
          /\ SF_vars(getAndLockProofReadyToVerify(p)) /\ SF_vars(getAndLockProofsToAggregate(p))
          /\ SF_vars(GetBatchToProve(p))
    /\ WF_vars(\E r \in proofs : ~Owned(r) /\ CleanupLockedProofs(r))

FairSpec == Spec /\ Fairness

-----------------------------------------------------------------------------
(* Properties                                                              *)

\* Type invariant of the state of Aggregator, of its tables and of L1.
TypeOK ==
    /\ backend \in Backends /\ virtual \in Hash /\ verified \in 0 .. MaxBatch
    /\ pending \subseteq Proof /\ proofs \subseteq Proof
    /\ failed \in BOOLEAN /\ verifyingProof \in BOOLEAN /\ halted \in BOOLEAN
    /\ sequences \subseteq AllSequences
    /\ accInputHashes \in [0 .. MaxBatch -> Hash]
    /\ stateDBMutex \in Provers \cup {None}
    /\ \A p \in Provers : /\ prv[p].batch \in 0 .. MaxBatch /\ prv[p].last \in 0 .. MaxBatch
                          /\ prv[p].proof \in Proof \cup {None}
                          /\ prv[p].other \in Proof \cup {None}
    /\ snd.proof \in Proof \cup {None}
    /\ rb.last \in 0 .. MaxBatch

\* The locks of the rows (generating_since) and stateDBMutex keep the goroutines
\* of the provers and sendFinalProof apart: no batch is covered by two proofs of
\* the table, worked on by two goroutines, or worked on under an unlocked row.
NoDoubleWork ==
    /\ \A r, q \in proofs : r # q => (r.from .. r.to) \cap (q.from .. q.to) = {}
    /\ \A p, q \in Provers : p # q => Working(p) \cap Working(q) = {}
    /\ \A p \in Provers : Working(p) \cap Settling = {}
    /\ \A r \in proofs : ~r.locked => ~Owned(r)

\* Every proof of the table that is generated, by tryGenerateBatchProof or by any
\* sequence of tryAggregateProofs, starts from the accumulated input hash L1 has
\* for the batch before it and ends in the one L1 has for its last batch.  So no
\* transaction of settleDirect reverts, which would be fatal to
\* handleMonitoredTxResult.
ProofsValid ==
    /\ \A r \in proofs : r.content # None =>
          /\ r.to <= Len(virtual)
          /\ r.content = [old |-> AccInputHash(r.from - 1), new |-> AccInputHash(r.to)]
    /\ ~failed

\* As long as calls fail only finitely often, every sequenced batch is verified,
\* whichever goroutine proves, aggregates or settles it and whatever lock an
\* error path (sendFinalProof without the batch) leaves behind.
AllVerified == <>[](verified = MaxBatch)

\* Whatever rollbacks, reorganisations, restarts and failures interrupt, the
\* accumulated input hash getAndLockBatchToProve starts from, the one of the last
\* verified batch, is not in memory or is the one of L1.
BaseHash == ~MissingHash(verified) => accInputHashes[verified] = AccInputHash(verified)

\* handleRollbackBatches and handleReorg: "Delete any proof for the batches that
\* have been rolled back".  When the callback is done no proof of the table is
\* one of batches that L1 has dropped.
NoStaleProofs == rb.pc = "none" => ProofsValid

\* getAndLockBatchToProve: "Request the witness from the server, if it is busy
\* just keep looping until it is available".
WitnessComes ==
    \A p \in Provers :
       prv[p].pc \in {"witness", "stuck"} ~> prv[p].pc \notin {"witness", "stuck"}
=============================================================================
