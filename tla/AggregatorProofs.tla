-------------------------- MODULE AggregatorProofs --------------------------
(***************************************************************************)
(* What is proved about Aggregator, for any provers and sequences, any     *)
(* settlement backend and any bounds.  The steps are in the modules it     *)
(* extends.                                                                *)
(***************************************************************************)
EXTENDS AggregatorValidProofs, AggregatorWorkProofs

\* The facts about the hashes hold in every state.
LEMMA HashInvAlways == Spec => []HashInv
<1>1. Init => HashInv
  BY InitHash, Zenon
<1>2. HashInv /\ [Next]_vars => HashInv'
  BY StepHash, Zenon
<1>. QED  BY <1>1, <1>2, PTL DEF Spec

\* Whatever is rolled back, reorganised, restarted or fails, and however the steps of
\* the provers, of sendFinalProof and of the callbacks interleave: the hash that
\* getAndLockBatchToProve finds for the last verified batch is the one of L1.
THEOREM BaseHashHolds == Spec => []BaseHash
<1>1. HashInv => BaseHash
  <2>1. SUFFICES ASSUME HashInv, ~MissingHash(verified)
                 PROVE  accInputHashes[verified] = AccInputHash(verified)
    BY Zenon DEF BaseHash
  <2>2. /\ virtual \in Seq(Nat) /\ Len(virtual) \in Nat /\ verified \in 0 .. Len(virtual)
        /\ verified \in 0 .. MaxBatch /\ verified \in Nat
    BY <2>1, BoundariesAreBatches, SequenceTypes, SMTT(30) DEF HashInv, Types, L1Types
  <2>3. PICK h : h = AccInputHash(verified)
    BY Zenon
  <2>4. /\ h \in Seq(Nat) /\ Len(h) = verified /\ h \in Seen
        /\ \A i \in 1 .. verified : h[i] = virtual[i]
    BY <2>2, <2>3, SMTT(30) DEF AccInputHash, Seen
  <2>5. PICK a \in Seq(Nat) : a = accInputHashes[verified] /\ Len(a) \in {0, verified}
    BY <2>1, <2>2, Zenon DEF HashInv, HashesOK, Types, TableTypes
  <2>6. CASE verified = 0
    BY <2>3, <2>4, <2>5, <2>6, SMTT(30)
  <2>7. CASE verified > 0
    <3>1. a # << >> /\ Len(a) = verified
      BY <2>1, <2>2, <2>5, <2>7, SMTT(30) DEF MissingHash
    <3>2. Matches(h, verified) /\ verified \in 1 .. Len(h)
      BY <2>2, <2>4, <2>7, SMTT(30) DEF Matches
    <3>3. Matches(a, verified)
      BY <2>1, <2>4, <2>5, <3>1, <3>2, Zenon DEF HashInv, HashesOK, Supports
    <3>4. \A i \in 1 .. verified : a[i] = h[i]
      BY <2>4, <3>3, Zenon DEF Matches
    <3>. QED  BY <2>3, <2>4, <2>5, <3>1, <3>4, SMTT(30)
  <2>. QED  BY <2>2, <2>6, <2>7, SMTT(30)
<1>. QED  BY <1>1, HashInvAlways, PTL

\* Nothing but Start counts a restart, nothing but the end of a lock that is held an
\* expired one.
LEMMA OnlyStartRestarts ==
    ASSUME [Next]_vars PROVE /\ ~Start => restarts' = restarts
                             /\ (\A r \in proofs : ~CleanupLockedProofs(r)) => expired' = expired
<1>1. CASE UNCHANGED vars
  BY <1>1, Zenon DEF vars, boundVars
<1>2. CASE L1
  BY <1>2, Zenon DEF L1, Sequence, MineVerification, boundVars
<1>3. CASE Sender
  BY <1>3, Zenon DEF Sender, outside, startProofVerification, GetFinalBatchFails, settleDirect,
         settleWithAggLayer, WaitTxToBeMined, handleFailureToAddVerifyBatchToBeMonitored,
         handleMonitoredTxResult
<1>4. CASE Callback
  BY <1>4, Zenon DEF Callback, RollbackBatches, ReorgL1, DropBatches, ResetAccInputHashes,
         DeleteWipProofs, DeleteRolledBackProofs, CallbackFails, boundVars
<1>5. CASE Start
  BY <1>5, Zenon DEF Start
<1>6. ASSUME NEW r \in proofs, CleanupLockedProofs(r) PROVE restarts' = restarts
  BY <1>6, Zenon DEF CleanupLockedProofs
<1>7. ASSUME NEW p \in Provers, Prover(p) PROVE restarts' = restarts /\ expired' = expired
  <2>1. CASE Channel(p) \/ AggregateStep(p)
    BY <2>1, Zenon DEF Channel, AggregateStep, getAndLockProofsToAggregate, tryAggregateProofs,
           unlockProofsToAggregate, others
  <2>2. CASE FinalProofStep(p)
    BY <2>2, Zenon DEF FinalProofStep, canVerifyProof, CannotVerifyProof, GetLatestVerifiedBatchNum,
         getAndLockProofReadyToVerify, validateEligibleFinalProof, buildFinalProof,
         FinalProofFails, SendFinalProof, StoreProof, others, boundVars
  <2>3. CASE BatchStep(p)
    BY <2>3, Zenon DEF BatchStep, GetBatchToProve, CalculateAccInputHash, setAccInputHash,
         AddGeneratedProof, GetWitnessFails, buildInputProver, BatchProofGenerated,
         BatchProofFails, others, boundVars
  <2>. QED  BY <1>7, <2>1, <2>2, <2>3, Zenon DEF Prover
<1>. QED  BY <1>1, <1>2, <1>3, <1>4, <1>5, <1>6, <1>7, Zenon DEF Next

\* The proofs are valid in every state.
LEMMA ValidInvAlways ==
    ASSUME MaxRollbacks = 0, MaxReorgs = 0 PROVE Spec => [](HashInv /\ ValidInv)
<1>1. Init => HashInv /\ ValidInv
  BY InitHash, InitValid, Zenon
<1>2. HashInv /\ ValidInv /\ [Next]_vars => (HashInv /\ ValidInv)'
  BY StepHash, StepValid, Zenon
<1>. QED  BY <1>1, <1>2, PTL DEF Spec

\* The part of ProofsValid about the table.
TableFollowsL1 ==
    \A r \in proofs : r.content # None =>
       /\ r.to <= Len(virtual)
       /\ r.content = [old |-> AccInputHash(r.from - 1), new |-> AccInputHash(r.to)]

\* As long as L1 takes back no batch, every generated proof of aggregator.proof starts
\* from and ends in the accumulated input hashes that L1 has for its batches, whatever
\* fails, expires or is restarted and however tryGenerateBatchProof and
\* tryAggregateProofs of the provers interleave.
THEOREM TableIsValid ==
    ASSUME MaxRollbacks = 0, MaxReorgs = 0 PROVE Spec => []TableFollowsL1
<1>1. HashInv /\ ValidInv => TableFollowsL1
  BY Zenon DEF ValidInv, TableValid, Valid, TableFollowsL1
<1>. QED  BY <1>1, ValidInvAlways, PTL

\* If the process is not restarted either, no transaction of settleDirect reverts:
\* ProofsValid holds for any provers, sequences, backends, failures and expired locks.
THEOREM ProofsAreValid ==
    ASSUME MaxRollbacks = 0, MaxReorgs = 0, MaxRestarts = 0 PROVE Spec => []ProofsValid
<1>1. Init => restarts = 0
  BY Zenon DEF Init
<1>2. restarts = 0 /\ [Next]_vars => (restarts = 0)'
  <2>1. SUFFICES ASSUME restarts = 0, [Next]_vars PROVE restarts' = 0
    BY Zenon
  <2>2. ~Start
    BY <2>1 DEF Start
  <2>. QED  BY <2>1, <2>2, OnlyStartRestarts, Zenon
<1>3. HashInv /\ ValidInv /\ restarts = 0 => ProofsValid
  BY Zenon DEF ValidInv, TableValid, Valid, SettledOnce, ProofsValid
<1>. QED  BY <1>1, <1>2, <1>3, ValidInvAlways, PTL DEF Spec

\* As long as L1 takes back no batch, no lock expires under its owner and the process is
\* not restarted, no batch has two rows in aggregator.proof, is worked on twice, or is
\* worked on under an unlocked row: for any provers, sequences, backend and failures.
THEOREM WorkIsDoneOnce ==
    ASSUME MaxRollbacks = 0, MaxReorgs = 0, MaxRestarts = 0, MaxExpired = 0
    PROVE  Spec => []NoDoubleWork
<1>1. Init => WorkInv
  BY InitWork, Zenon
<1>2. HashInv /\ HashInv' /\ ValidInv /\ WorkInv /\ [Next]_vars => WorkInv'
  BY StepWork, Zenon
<1>3. HashInv /\ WorkInv => NoDoubleWork
  BY WorkIsApart, Zenon
<1>4. Spec => [](HashInv /\ ValidInv)
  BY ValidInvAlways, Zenon
<1>. QED  BY <1>1, <1>2, <1>3, <1>4, PTL DEF Spec
=============================================================================
