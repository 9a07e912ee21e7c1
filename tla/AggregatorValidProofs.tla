----------------------- MODULE AggregatorValidProofs ------------------------
(***************************************************************************)
(* Proofs about Aggregator: the steps of L1, of sendFinalProof, of the     *)
(* callbacks and of Start keep HashInv too, and while L1 takes back no     *)
(* batch every step keeps ValidInv, the proofs being those of the batches  *)
(* of L1.  AggregatorProofs has what follows.                              *)
(***************************************************************************)
EXTENDS AggregatorProverProofs

(* The steps of the others                                                 *)

\* What L1 does to the batches spoils no hash: none gets newer than L1, and none
\* agrees with L1 that did not before.
L1Kept ==
    /\ \A h : NotNewer(h) => NotNewer(h)'
    /\ \A h : NotNewer(h) => \A m \in 1 .. MaxBatch : Matches(h, m)' => Matches(h, m)
    /\ \A h : \A m \in 1 .. MaxBatch : m <= Len(virtual') /\ Matches(h, m) => Matches(h, m)'
    /\ \A b \in Batch, d \in Nat :
          (IF b <= Len(virtual) THEN d <= virtual[b] ELSE d < version)
             => IF b <= Len(virtual') THEN d <= virtual'[b] ELSE d < version'
    /\ \A i \in 1 .. Len(virtual') : virtual'[i] <= version'

\* A step that changes neither the batches nor the number of rollbacks is one.
LEMMA L1Stays == ASSUME HashInv, UNCHANGED <<virtual, rollbacks, reorgs>> PROVE L1Kept
<1>1. version' = version
  BY Zenon DEF version
<1>2. (\A h : NotNewer(h)' = NotNewer(h)) /\ (\A h, m : Matches(h, m)' = Matches(h, m))
  BY <1>1, Zenon DEF NotNewer, Matches
<1>. QED  BY <1>1, <1>2, Zenon DEF L1Kept, HashInv, HashesOK

\* Stored hashes may disappear or be replaced by ones that agree with L1.
HashesReplaced ==
    /\ \A n \in 0 .. MaxBatch : Len(accInputHashes'[n]) \in {0, n}
    /\ \A m \in 1 .. MaxBatch : \/ accInputHashes'[m] = accInputHashes[m]
                                \/ accInputHashes'[m] = << >>
                                \/ Matches(accInputHashes[m], m)'

\* A step that brings no hash of its own and takes no goroutine to where it stores one.
LEMMA HashesKept ==
    ASSUME HashInv, Types', L1Kept, HashesReplaced, Seen' \subseteq Seen,
           \A p \in Provers : prv'[p] = prv[p] \/ prv'[p].pc \notin {"hash", "set"}
    PROVE  HashInv'
<1>0. MaxBatch \in Nat /\ Len(virtual') \in 0 .. MaxBatch
  BY SequenceTypes, BoundariesAreBatches, Zenon DEF Types, L1Types
<1>1. ASSUME NEW h, NotNewer(h), NEW top \in Nat, Supports(h, top) PROVE Supports(h, top)'
  <2>1. SUFFICES ASSUME NEW m \in 1 .. top, Matches(h, m)'
                 PROVE  accInputHashes'[m] = << >> \/ Matches(accInputHashes[m], m)'
    BY ZenonT(30) DEF Supports
  <2>2. m <= Len(virtual') /\ m \in 1 .. MaxBatch
    BY <1>0, <2>1 DEF Matches
  <2>3. accInputHashes[m] = << >> \/ Matches(accInputHashes[m], m)
    <3>1. Matches(h, m)
      BY <1>1, <2>1, <2>2, Zenon DEF L1Kept
    <3>. QED  BY <1>1, <3>1, Zenon DEF Supports
  <2>4. CASE accInputHashes'[m] = accInputHashes[m]
    <3>1. PICK a : a = accInputHashes[m]
      BY Zenon
    <3>2. Matches(a, m) => Matches(a, m)'
      BY <2>2, Zenon DEF L1Kept
    <3>3. Matches(a, m)' => Matches(accInputHashes[m], m)'
      BY <2>4, <3>1, Zenon DEF Matches
    <3>. QED  BY <2>3, <2>4, <3>1, <3>2, <3>3, Zenon
  <2>. QED  BY <2>2, <2>4, ZenonT(30) DEF HashesReplaced
<1>2. ASSUME NEW h \in Seen' PROVE NotNewer(h)' /\ Supports(h, Len(h))'
  <2>1. h \in Seen /\ NotNewer(h) /\ Supports(h, Len(h)) /\ Len(h) \in Nat
    BY SMTT(30) DEF HashInv, HashesOK, NotNewer
  <2>2. NotNewer(h)'
    BY <2>1, Zenon DEF L1Kept
  <2>. QED  BY <1>1, <2>1, <2>2, Zenon
<1>3. ASSUME NEW p \in Provers PROVE SectionOK(prv[p])'
  <2>1. PICK g : g = prv'[p]
    BY Zenon
  <2>2. SUFFICES ASSUME g = prv[p], g.pc \in {"hash", "set"} PROVE SectionOK(g)'
    <3>1. g.pc \notin {"hash", "set"} => SectionOK(g)'
      BY Zenon DEF SectionOK
    <3>2. SectionOK(g)' => SectionOK(prv[p])'
      BY <2>1, Zenon DEF SectionOK
    <3>. QED  BY <2>1, <3>1, <3>2, Zenon
  <2>3. GoroutineOK(g) /\ SectionOK(g)
    BY <2>2, Zenon DEF HashInv, HashesOK, Types, ProverTypes
  <2>4. /\ g.batch \in Batch /\ g.data \in Nat /\ g.batch \in 1 .. MaxBatch /\ g.batch - 1 \in Nat
        /\ g.acc \in Seq(Nat)
    BY <1>0, <2>2, <2>3, SMTT(30) DEF GoroutineOK, Goroutine, Batch
  <2>5. /\ IF g.batch <= Len(virtual') THEN g.data <= virtual'[g.batch] ELSE g.data < version'
        /\ \A h \in Seen' : g.batch <= Len(h) => h[g.batch] <= g.data
    <3>1. /\ IF g.batch <= Len(virtual) THEN g.data <= virtual[g.batch] ELSE g.data < version
          /\ \A h \in Seen : g.batch <= Len(h) => h[g.batch] <= g.data
      BY <2>2, <2>3, Zenon DEF SectionOK
    <3>2. IF g.batch <= Len(virtual') THEN g.data <= virtual'[g.batch] ELSE g.data < version'
      BY <2>4, <3>1, Zenon DEF L1Kept
    <3>. QED  BY <3>1, <3>2, Zenon
  <2>6. ASSUME g.pc = "set"
        PROVE  /\ Len(g.acc) = g.batch /\ NotNewer(g.acc)' /\ Supports(g.acc, g.batch - 1)'
               /\ \A h \in Seen' : Matches(h, g.batch)' => Matches(g.acc, g.batch)'
    <3>1. /\ Len(g.acc) = g.batch /\ NotNewer(g.acc) /\ Supports(g.acc, g.batch - 1)
          /\ \A h \in Seen : Matches(h, g.batch) => Matches(g.acc, g.batch)
      BY <2>3, <2>6, Zenon DEF SectionOK
    <3>2. NotNewer(g.acc)' /\ Supports(g.acc, g.batch - 1)'
      BY <1>1, <2>4, <3>1, ZenonT(30) DEF L1Kept
    <3>3. ASSUME NEW h \in Seen', Matches(h, g.batch)' PROVE Matches(g.acc, g.batch)'
      <4>1. NotNewer(h) /\ h \in Seen
        BY Zenon DEF HashInv, HashesOK
      <4>2. Matches(h, g.batch)
        BY <2>4, <3>3, <4>1, Zenon DEF L1Kept
      <4>3. Matches(g.acc, g.batch)
        BY <3>1, <4>1, <4>2, Zenon
      <4>4. g.batch <= Len(virtual')
        BY <3>3, Zenon DEF Matches
      <4>. QED  BY <2>4, <4>3, <4>4, Zenon DEF L1Kept
    <3>. QED  BY <3>1, <3>2, <3>3, Zenon
  <2>. QED  BY <2>5, <2>6, Zenon DEF SectionOK
<1>4. HashesOK'
  BY <1>2, <1>3, Zenon DEF HashesOK, L1Kept, HashesReplaced
<1>. QED  BY <1>4, Zenon DEF HashInv

\* Nobody holds a proof in a hash that was never stored, when the goroutines of the
\* provers do not move.
LEMMA SeenKept ==
    ASSUME prv' = prv, UNCHANGED accInputHashes, SubSeq(virtual', 1, verified') \in Seen,
           \A r \in proofs' : r.content # None => r.content.new \in Seen,
           \A r \in pending' : r.content.new \in Seen,
           snd'.pc = "wait" \/ snd'.proof.content.new \in Seen
    PROVE  Seen' \subseteq Seen
<1>1. \A q \in Provers : HeldNew(prv[q])' = HeldNew(prv[q])
  BY Zenon DEF HeldNew, Holding
<1>2. \A q \in Provers : HeldNew(prv[q]) \subseteq Seen
  BY HeldAreSeen, Zenon
<1>3. ProvenHashes' \subseteq Seen
  BY <1>1, <1>2, Zenon DEF ProvenHashes
<1>4. \A n \in 0 .. MaxBatch : accInputHashes'[n] \in Seen
  BY Zenon DEF Seen
<1>5. \A q \in Provers : prv'[q].pc \in {"witness", "input", "proving"} => prv'[q].acc \in Seen
  BY HeldAreSeen, Zenon
<1>. QED  BY <1>3, <1>4, <1>5, Zenon DEF Seen

\* The same goroutines have the same types.
LEMMA ProversStay == ASSUME ProverTypes, UNCHANGED <<prv, stateDBMutex>> PROVE ProverTypes'
<1>1. \A q \in Provers : GoroutineOK(prv[q])' = GoroutineOK(prv[q])
  BY Zenon DEF GoroutineOK, Holding
<1>. QED  BY <1>1, Zenon DEF ProverTypes

\* A step that only removes or unlocks proofs, or hands one on.
LEMMA StillStep ==
    ASSUME HashInv, UNCHANGED <<virtual, verified, accInputHashes, rollbacks, reorgs, prv, stateDBMutex>>,
           TableOK(proofs'), SenderTypes', pending' \subseteq Generated,
           \A r \in pending' : r.content.new \in Seen,
           snd'.pc = "wait" \/ snd'.proof.content.new \in Seen
    PROVE  HashInv'
<1>1. Seen' \subseteq Seen
  <2>1. SubSeq(virtual', 1, verified') \in Seen
    BY Zenon DEF Seen
  <2>. QED  BY <2>1, SeenKept, Zenon DEF TableOK
<1>2. Types'
  <2>1. ProverTypes'
    BY ProversStay, Zenon DEF HashInv, Types
  <2>2. L1Types' /\ TableTypes'
    BY Zenon DEF HashInv, Types, L1Types, TableTypes, TableOK
  <2>. QED  BY <2>1, <2>2, Zenon DEF Types
<1>3. HashesReplaced
  BY Zenon DEF HashesReplaced, HashInv, HashesOK
<1>. QED  BY <1>1, <1>2, <1>3, L1Stays, HashesKept, Zenon
\* Where the sender waits for the next final proof.
LEMMA WaitingType == Waiting.pc = "wait" /\ Waiting \in [pc : {"wait"}, proof : {None}]
  BY Zenon DEF Waiting

\* The steps of sendFinalProof before handleMonitoredTxResult hand the proof on,
\* or unlock it.
LEMMA SenderStep ==
    ASSUME HashInv, Sender, ~handleMonitoredTxResult
    PROVE  HashInv'
<1>. USE DEF outside
<1>0. /\ TableOK(proofs) /\ SenderTypes /\ snd.pc \in {"wait", "received", "batch", "process", "mining"}
      /\ snd.pc # "wait" => snd.proof \in Generated /\ snd.proof.content.new \in Seen
      /\ pending \subseteq Generated /\ \A r \in pending : r.content.new \in Seen
  BY TableOperations, HeldAreSeen, Zenon DEF HashInv, Types, SenderTypes, L1Types
<1>1. UNCHANGED <<virtual, verified, accInputHashes, rollbacks, reorgs, prv, stateDBMutex, rb>>
  BY Zenon
     DEF Sender, startProofVerification, GetFinalBatchFails, settleDirect, settleWithAggLayer,
         WaitTxToBeMined, handleFailureToAddVerifyBatchToBeMonitored
<1>2. ASSUME NEW pc \in {"batch", "process", "mining"}, snd.pc # "wait",
             snd' = [snd EXCEPT !.pc = pc], pending' \subseteq pending \cup {snd.proof},
             proofs' = proofs
      PROVE  HashInv'
  <2>1. snd' \in [pc : {"batch", "process", "mining"}, proof : Generated] /\ snd'.proof = snd.proof
    BY <1>0, <1>2, Zenon DEF SenderTypes
  <2>2. SenderTypes'
    BY <1>0, <1>1, <2>1, Zenon DEF SenderTypes
  <2>. QED  BY <1>0, <1>1, <1>2, <2>1, <2>2, StillStep, Zenon
<1>3. ASSUME snd' = Waiting, pending' = pending, TableOK(proofs') PROVE HashInv'
  <2>1. SenderTypes' /\ snd'.pc = "wait"
    BY <1>0, <1>1, <1>3, WaitingType, Zenon DEF SenderTypes
  <2>. QED  BY <1>0, <1>1, <1>3, <2>1, StillStep, Zenon
<1>4. CASE startProofVerification
  BY <1>2, <1>4, Zenon DEF startProofVerification
<1>5. CASE GetFinalBatchFails
  BY <1>0, <1>3, <1>5, Zenon DEF GetFinalBatchFails
<1>6. CASE settleDirect
  BY <1>2, <1>6, Zenon DEF settleDirect
<1>7. CASE settleWithAggLayer
  BY <1>2, <1>7, Zenon DEF settleWithAggLayer
<1>8. CASE WaitTxToBeMined
  BY <1>0, <1>3, <1>8, Zenon DEF WaitTxToBeMined
<1>9. CASE handleFailureToAddVerifyBatchToBeMonitored
  <2>1. snd.pc # "wait"
    BY <1>9, Zenon DEF handleFailureToAddVerifyBatchToBeMonitored
  <2>2. Unlock(snd.proof) \in Generated /\ Unlock(snd.proof).content.new \in Seen
    BY <1>0, <2>1, RowFacts, Zenon
  <2>3. TableOK(UpdateGeneratedProof(proofs, Unlock(snd.proof)))
    BY <1>0, <2>2, TableOperations, Zenon
  <2>. QED  BY <1>3, <1>9, <2>3, Zenon DEF handleFailureToAddVerifyBatchToBeMonitored
<1>. QED  BY <1>4, <1>5, <1>6, <1>7, <1>8, <1>9, Zenon DEF Sender

\* The empty hash is one that is stored: it is the one of batch 0.
LEMMA EmptyHashSeen ==
    ASSUME HashInv PROVE << >> \in Seen /\ accInputHashes[0] = << >> /\ 0 \in 0 .. MaxBatch
<1>1. 0 \in 0 .. MaxBatch
  BY SequenceTypes
<1>2. Len(accInputHashes[0]) = 0 /\ accInputHashes[0] \in Seq(Nat)
  BY <1>1, Zenon DEF HashInv, HashesOK, Types, TableTypes
<1>. QED  BY <1>1, <1>2 DEF Seen

\* What is stored is replaced by nothing and by the hash of the verified batch.
LEMMA HashesRenewed ==
    ASSUME HashInv, L1Types',
           UNCHANGED <<virtual, verified, rollbacks, reorgs>>,
           accInputHashes' \in [0 .. MaxBatch -> Seq(Nat)],
           \A b \in 0 .. MaxBatch : \/ accInputHashes'[b] = accInputHashes[b]
                                    \/ accInputHashes'[b] = << >>
                                    \/ b = verified /\ accInputHashes'[b] = AccInputHash(b)
    PROVE  /\ HashesReplaced /\ L1Kept
           /\ \A b \in 0 .. MaxBatch : accInputHashes'[b] \in Seen
           /\ SubSeq(virtual', 1, verified') \in Seen
<1>1. virtual \in Seq(Nat) /\ verified \in 0 .. Len(virtual) /\ Len(virtual) \in Nat
  BY DEF HashInv, Types, L1Types
<1>2. PICK h : h = AccInputHash(verified)
  BY Zenon
<1>3. h \in Seen /\ Len(h) = verified /\ \A i \in 1 .. verified : h[i] = virtual[i]
  <2>1. h \in Seen
    BY <1>2, Zenon DEF AccInputHash, Seen
  <2>2. Len(h) = verified /\ \A i \in 1 .. verified : h[i] = virtual[i]
    BY <1>1, <1>2, SMTT(30) DEF AccInputHash
  <2>. QED  BY <2>1, <2>2, Zenon
<1>4. \A b \in 0 .. MaxBatch : accInputHashes'[b] \in Seen
  BY <1>2, <1>3, EmptyHashSeen, Zenon DEF Seen
<1>5. \A b \in 0 .. MaxBatch : Len(accInputHashes'[b]) \in {0, b}
  BY <1>2, <1>3, SMTT(30) DEF HashInv, HashesOK
<1>6. ASSUME NEW m \in 1 .. MaxBatch
      PROVE  \/ accInputHashes'[m] = accInputHashes[m]
             \/ accInputHashes'[m] = << >>
             \/ Matches(accInputHashes[m], m)'
  <2>1. m \in 0 .. MaxBatch
    BY SequenceTypes, SMTT(30)
  <2>2. CASE m = verified /\ accInputHashes'[m] = h
    BY <1>1, <1>3, <2>2, SMTT(30) DEF Matches
  <2>. QED  BY <1>2, <2>1, <2>2, Zenon
<1>. QED  BY <1>4, <1>5, <1>6, L1Stays, Zenon DEF HashesReplaced, Seen

\* A finalized transaction frees its proofs and the hashes below its last batch.
LEMMA FinalizedStep == ASSUME HashInv, handleMonitoredTxResult PROVE HashInv'
<1>. DEFINE p == snd.proof
<1>0. TableOK(proofs) /\ ProverTypes /\ L1Types /\ SenderTypes
  BY TableOperations, Zenon DEF HashInv, Types
<1>1. /\ UNCHANGED <<virtual, verified, pending, rollbacks, reorgs, prv, stateDBMutex, rb>>
      /\ snd' = Waiting /\ snd'.pc = "wait"
      /\ proofs' = DeleteGeneratedProofs(proofs, p.from, p.to)
      /\ accInputHashes' = [b \in 0 .. MaxBatch |->
                               IF p.from <= b /\ b < p.to THEN << >> ELSE accInputHashes[b]]
  BY WaitingType, Zenon DEF handleMonitoredTxResult, outside
<1>2. TableOK(proofs')
  BY <1>0, <1>1, TableOperations, Zenon
<1>3. /\ accInputHashes' \in [0 .. MaxBatch -> Seq(Nat)]
      /\ \A b \in 0 .. MaxBatch : accInputHashes'[b] = accInputHashes[b] \/ accInputHashes'[b] = << >>
  <2>1. accInputHashes \in [0 .. MaxBatch -> Seq(Nat)] /\ << >> \in Seq(Nat)
    BY SMTT(30) DEF HashInv, Types, TableTypes
  <2>. HIDE DEF p
  <2>. QED  BY <1>1, <2>1, Zenon
<1>4. ProverTypes'
  BY <1>0, <1>1, ProversStay, Zenon
<1>5. L1Types' /\ TableTypes' /\ SenderTypes'
  <2>1. L1Types'
    BY <1>0, <1>1, Zenon DEF L1Types
  <2>2. TableTypes'
    BY <1>2, <1>3, Zenon DEF TableTypes, TableOK
  <2>3. SenderTypes'
    BY <1>0, <1>1, WaitingType, Zenon DEF SenderTypes
  <2>. QED  BY <2>1, <2>2, <2>3, Zenon
<1>6. Types'
  BY <1>4, <1>5, Zenon DEF Types
<1>7. /\ HashesReplaced /\ L1Kept
      /\ \A b \in 0 .. MaxBatch : accInputHashes'[b] \in Seen
      /\ SubSeq(virtual', 1, verified') \in Seen
  BY <1>1, <1>3, <1>5, HashesRenewed, Zenon
<1>8. Seen' \subseteq Seen
  <2>1. \A q \in Provers : HeldNew(prv[q])' = HeldNew(prv[q])
    BY <1>1, Zenon DEF HeldNew, Holding
  <2>2. ProvenHashes' \subseteq Seen
    BY <1>1, <1>2, <2>1, HeldAreSeen, SMTT(30) DEF ProvenHashes, TableOK
  <2>3. \A q \in Provers : prv'[q].pc \in {"witness", "input", "proving"} => prv'[q].acc \in Seen
    BY <1>1, HeldAreSeen, Zenon
  <2>. QED  BY <1>7, <2>2, <2>3, ZenonT(30) DEF Seen
<1>. QED  BY <1>1, <1>6, <1>7, <1>8, HashesKept, Zenon
\* L1 moves, and nobody notices yet.
LEMMA L1Moves ==
    ASSUME HashInv, L1Types', L1Kept, SubSeq(virtual', 1, verified') \in Seen, pending' \subseteq pending,
           UNCHANGED <<proofs, accInputHashes, prv, stateDBMutex, snd>>, SenderTypes'
    PROVE  HashInv'
<1>1. Types'
  <2>1. ProverTypes'
    BY ProversStay, Zenon DEF HashInv, Types
  <2>. QED  BY <2>1, Zenon DEF HashInv, Types, TableTypes
<1>2. Seen' \subseteq Seen
  BY HeldAreSeen, SeenKept, Zenon
<1>3. HashesReplaced
  BY Zenon DEF HashesReplaced, HashInv, HashesOK
<1>. QED  BY <1>1, <1>2, <1>3, HashesKept, Zenon

\* New batches have the newest data: no hash that was stored has it.
LEMMA SequenceStep == ASSUME HashInv, Sequence PROVE HashInv'
<1>0. /\ virtual \in Seq(Nat) /\ Len(virtual) \in Boundaries /\ Len(virtual) \in Nat
      /\ verified \in 0 .. Len(virtual) /\ version \in Nat
      /\ \A i \in 1 .. Len(virtual) : virtual[i] \in Nat /\ virtual[i] <= version
  BY DEF HashInv, HashesOK, Types, L1Types, version
<1>1. /\ Len(virtual) < MaxBatch
      /\ UNCHANGED <<verified, pending, proofs, accInputHashes, stateDBMutex, prv, snd, rb,
                     rollbacks, reorgs>>
      /\ version' = version
  BY Zenon DEF Sequence, dbVars, memVars, boundVars, version
<1>2. PICK s : s = SequenceOf(Len(virtual) + 1)
  BY Zenon
<1>3. s[1] = Len(virtual) + 1 /\ s[2] \in Nat /\ Len(virtual) < s[2] /\ s[2] \in Boundaries
  BY <1>0, <1>1, <1>2, NextSequence, Zenon
<1>4. PICK t : t = [i \in 1 .. s[2] - s[1] + 1 |-> version]
  BY Zenon
<1>5. /\ t \in Seq(Nat) /\ Len(t) = s[2] - Len(virtual) /\ \A i \in 1 .. Len(t) : t[i] = version
  <2>1. s[2] - s[1] + 1 = s[2] - Len(virtual) /\ s[2] - Len(virtual) \in Nat
    BY <1>0, <1>3
  <2>. QED  BY <1>0, <1>4, <2>1
<1>6. virtual' = virtual \o t
  BY <1>2, <1>4, Zenon DEF Sequence, version
<1>7. /\ virtual' \in Seq(Nat) /\ Len(virtual') = s[2]
      /\ \A i \in 1 .. Len(virtual) : virtual'[i] = virtual[i]
      /\ \A i \in 1 .. s[2] : i > Len(virtual) => virtual'[i] = version
  <2>1. virtual' \in Seq(Nat) /\ Len(virtual') = s[2]
    <3>1. virtual \o t \in Seq(Nat) /\ Len(virtual \o t) = Len(virtual) + Len(t)
      BY <1>0, <1>5, JoinedSequence, Zenon
    <3>2. Len(virtual) + Len(t) = s[2]
      BY <1>0, <1>3, <1>5
    <3>. QED  BY <1>6, <3>1, <3>2, Zenon
  <2>2. ASSUME NEW i \in 1 .. Len(virtual) PROVE virtual'[i] = virtual[i]
    <3>1. i \in 1 .. Len(virtual) + Len(t)
      BY <1>0, <1>5, SMTT(30)
    <3>. QED  BY <1>0, <1>5, <1>6, <3>1
  <2>3. ASSUME NEW i \in 1 .. s[2], i > Len(virtual) PROVE virtual'[i] = version
    <3>1. i - Len(virtual) \in 1 .. Len(t)
      BY <1>0, <1>3, <1>5, <2>3, SMTT(30)
    <3>2. virtual'[i] = t[i - Len(virtual)]
      BY <1>0, <1>3, <1>5, <1>6, <2>3, <3>1, SMTT(30)
    <3>. QED  BY <1>5, <3>1, <3>2, Zenon
  <2>. QED  BY <2>1, <2>2, <2>3, Zenon
<1>8. L1Types'
  BY <1>0, <1>1, <1>3, <1>7, SMTT(30) DEF HashInv, Types, L1Types
<1>9. L1Kept
  <2>1. ASSUME NEW h, NotNewer(h) PROVE NotNewer(h)'
    <3>1. ASSUME NEW i \in 1 .. Len(h)
          PROVE  IF i <= s[2] THEN h[i] <= virtual'[i] ELSE h[i] < version'
      <4>1. h[i] \in Nat /\ IF i <= Len(virtual) THEN h[i] <= virtual[i] ELSE h[i] < version
        BY <2>1 DEF NotNewer
      <4>2. i \in Nat /\ (i <= Len(virtual) => i \in 1 .. Len(virtual))
            /\ (i <= s[2] => i \in 1 .. s[2])
        BY <1>0, <1>3, SMTT(30)
      <4>3. i <= Len(virtual) => virtual'[i] = virtual[i]
        BY <1>7, <4>2, Zenon
      <4>4. i <= s[2] /\ i > Len(virtual) => virtual'[i] = version
        BY <1>7, <4>2, Zenon
      <4>. QED  BY <1>0, <1>1, <1>3, <4>1, <4>2, <4>3, <4>4, SMTT(30)
    <3>. QED  BY <1>7, <2>1, <3>1, Zenon DEF NotNewer
  <2>2. ASSUME NEW h, NotNewer(h), NEW m \in 1 .. MaxBatch, Matches(h, m)' PROVE Matches(h, m)
    <3>1. h \in Seq(Nat) /\ m \in 1 .. Len(h) /\ m <= s[2] /\ m \in 1 .. s[2] /\ m \in Nat
      BY <1>3, <1>7, <2>2, SMTT(30) DEF Matches, NotNewer
    <3>2. CASE m > Len(virtual)
      <4>1. h[m] = virtual'[m]
        BY <2>2, <3>1, SMTT(30) DEF Matches
      <4>2. h[m] < version
        BY <1>0, <2>2, <3>1, <3>2, SMTT(30) DEF NotNewer
      <4>. QED  BY <1>0, <1>7, <3>1, <3>2, <4>1, <4>2, SMTT(30)
    <3>3. CASE m <= Len(virtual)
      BY <1>0, <1>7, <2>2, <3>1, <3>3, SMTT(30) DEF Matches
    <3>. QED  BY <1>0, <3>1, <3>2, <3>3
  <2>3. ASSUME NEW h, NEW m \in 1 .. MaxBatch, Matches(h, m) PROVE Matches(h, m)'
    <3>1. m <= Len(virtual) /\ m <= s[2] /\ \A i \in 1 .. m : i \in 1 .. Len(virtual)
      BY <1>0, <1>3, <2>3, SMTT(30) DEF Matches
    <3>. QED  BY <1>7, <2>3, <3>1, Zenon DEF Matches
  <2>4. ASSUME NEW b \in Batch, NEW d \in Nat,
               IF b <= Len(virtual) THEN d <= virtual[b] ELSE d < version
        PROVE  IF b <= Len(virtual') THEN d <= virtual'[b] ELSE d < version'
    <3>1. b \in Nat /\ (b <= Len(virtual) => b \in 1 .. Len(virtual)) /\ (b <= s[2] => b \in 1 .. s[2])
      BY <1>0, <1>3, SequenceTypes, SMTT(30) DEF Batch
    <3>2. b <= Len(virtual) => virtual'[b] = virtual[b]
      BY <1>7, <3>1, Zenon
    <3>3. b <= s[2] /\ b > Len(virtual) => virtual'[b] = version
      BY <1>7, <3>1, Zenon
    <3>4. /\ Len(virtual) \in Nat /\ s[2] \in Nat /\ version \in Nat /\ Len(virtual) < s[2]
          /\ version' = version /\ Len(virtual') = s[2]
      BY <1>0, <1>1, <1>3, <1>7, Zenon
    <3>. QED  BY <2>4, <3>1, <3>2, <3>3, <3>4, SMTT(30)
  <2>5. ASSUME NEW i \in 1 .. Len(virtual') PROVE virtual'[i] <= version'
    <3>1. i \in 1 .. s[2] /\ i \in Nat /\ (i <= Len(virtual) => i \in 1 .. Len(virtual))
      BY <1>0, <1>3, <1>7, SMTT(30)
    <3>2. i <= Len(virtual) => virtual'[i] = virtual[i]
      BY <1>7, <3>1, Zenon
    <3>3. i > Len(virtual) => virtual'[i] = version
      BY <1>7, <3>1, Zenon
    <3>. QED  BY <1>0, <1>1, <3>1, <3>2, <3>3, SMTT(30)
  <2>. QED  BY <2>1, <2>2, <2>3, <2>4, <2>5, Zenon DEF L1Kept
<1>10. SubSeq(virtual', 1, verified') \in Seen
  <2>1. SubSeq(virtual', 1, verified) = SubSeq(virtual, 1, verified)
    BY <1>0, <1>3, <1>7, SMTT(30)
  <2>. QED  BY <1>1, <2>1, Zenon DEF Seen
<1>11. SenderTypes'
  BY <1>1, Zenon DEF HashInv, Types, SenderTypes
<1>. QED  BY <1>1, <1>8, <1>9, <1>10, <1>11, L1Moves, Zenon

\* The last hash of an accepted proof is the one of the batch it verifies.
LEMMA MineStep == ASSUME HashInv, NEW p \in pending, MineVerification(p) PROVE HashInv'
<1>0. /\ virtual \in Seq(Nat) /\ Len(virtual) \in Nat /\ verified \in 0 .. Len(virtual)
      /\ p \in Generated /\ p.content.new \in Seen /\ p.to \in Nat
  BY HeldAreSeen, SequenceTypes DEF HashInv, Types, L1Types, Generated, Batch
<1>1. UNCHANGED <<virtual, proofs, accInputHashes, stateDBMutex, prv, snd, rb, rollbacks, reorgs>>
      /\ pending' \subseteq pending
  BY Zenon DEF MineVerification, dbVars, memVars, boundVars
<1>2. L1Types' /\ SubSeq(virtual', 1, verified') \in Seen
  <2>1. CASE Accepts(p)
    <3>1. /\ verified' = p.to /\ p.to <= Len(virtual)
          /\ p.content = [old |-> AccInputHash(p.from - 1), new |-> AccInputHash(p.to)]
      BY <2>1, Zenon DEF MineVerification, Accepts
    <3>2. p.content.new = AccInputHash(p.to)
      BY <3>1, SMTT(30)
    <3>3. verified' \in 0 .. Len(virtual)
      BY <1>0, <3>1, SMTT(30)
    <3>. QED  BY <1>0, <1>1, <3>1, <3>2, <3>3, ZenonT(30) DEF AccInputHash, HashInv, Types, L1Types
  <2>2. CASE ~Accepts(p)
    <3>1. verified' = verified
      BY <2>2, Zenon DEF MineVerification
    <3>. QED  BY <1>1, <3>1, Zenon DEF HashInv, Types, L1Types, Seen
  <2>. QED  BY <2>1, <2>2, Zenon
<1>3. SenderTypes'
  BY <1>1, Zenon DEF HashInv, Types, SenderTypes
<1>. QED  BY <1>1, <1>2, <1>3, L1Stays, L1Moves, Zenon

\* A rollback or a reorganisation drops batches, and what follows is newer.
LEMMA DropStep ==
    ASSUME HashInv, NEW last, NEW reorg \in BOOLEAN, DropBatches(last, reorg),
           rollbacks' \in Nat, reorgs' \in Nat, version' = version + 1
    PROVE  HashInv'
<1>0. /\ virtual \in Seq(Nat) /\ Len(virtual) \in Nat /\ verified \in 0 .. Len(virtual)
      /\ version \in Nat /\ \A i \in 1 .. Len(virtual) : virtual[i] \in Nat /\ virtual[i] <= version
  BY SMTT(30) DEF HashInv, HashesOK, Types, L1Types, version
<1>1. /\ last \in Boundaries /\ last \in Nat /\ verified <= last /\ last < Len(virtual)
      /\ virtual' = SubSeq(virtual, 1, last)
      /\ UNCHANGED <<verified, pending, proofs, accInputHashes, stateDBMutex, prv, snd>>
      /\ rb' = [pc |-> IF reorg THEN "ungenerated" ELSE "hashes", last |-> last, reorg |-> reorg]
  BY BoundariesAreBatches, SMTT(30) DEF DropBatches, dbVars, memVars
<1>2. /\ virtual' \in Seq(Nat) /\ Len(virtual') = last
      /\ \A i \in 1 .. last : virtual'[i] = virtual[i]
  BY <1>0, <1>1, SMTT(30)
<1>3. L1Types'
  BY <1>0, <1>1, <1>2, SMTT(30) DEF HashInv, Types, L1Types
<1>4. L1Kept
  <2>1. ASSUME NEW h, NotNewer(h) PROVE NotNewer(h)'
    <3>1. ASSUME NEW i \in 1 .. Len(h)
          PROVE  IF i <= last THEN h[i] <= virtual'[i] ELSE h[i] < version'
      <4>1. h[i] \in Nat /\ IF i <= Len(virtual) THEN h[i] <= virtual[i] ELSE h[i] < version
        BY <2>1, SMTT(30) DEF NotNewer
      <4>2. i \in Nat /\ (i <= Len(virtual) => i \in 1 .. Len(virtual))
        BY <1>0
      <4>3. CASE i <= last
        <5>1. i \in 1 .. last /\ i <= Len(virtual)
          BY <1>0, <1>1, <4>2, <4>3
        <5>. QED  BY <1>2, <4>1, <4>3, <5>1, Zenon
      <4>4. CASE ~(i <= last) /\ i <= Len(virtual)
        <5>1. virtual[i] \in Nat /\ virtual[i] <= version /\ h[i] <= virtual[i]
          BY <1>0, <4>1, <4>2, <4>4, Zenon
        <5>2. h[i] \in Nat /\ version \in Nat /\ version' = version + 1
          BY <1>0, <4>1, Zenon
        <5>3. h[i] < version'
          BY <5>1, <5>2
        <5>. QED  BY <4>4, <5>3, Zenon
      <4>5. CASE ~(i <= last) /\ ~(i <= Len(virtual))
        BY <1>0, <4>1, <4>5
      <4>. QED  BY <4>3, <4>4, <4>5, Zenon
    <3>. QED  BY <1>2, <2>1, <3>1, Zenon DEF NotNewer
  <2>2. ASSUME NEW h, NEW m \in 1 .. MaxBatch, Matches(h, m)' PROVE Matches(h, m)
    <3>1. m \in Nat /\ m <= Len(h) /\ m <= last /\ \A i \in 1 .. m : h[i] = virtual'[i]
      BY <1>2, <2>2, SequenceTypes DEF Matches
    <3>2. \A i \in 1 .. m : i \in 1 .. last
      BY <1>1, <3>1
    <3>3. m <= Len(virtual)
      BY <1>0, <1>1, <3>1
    <3>. QED  BY <1>2, <3>1, <3>2, <3>3, Zenon DEF Matches
  <2>3. ASSUME NEW h, NEW m \in 1 .. MaxBatch, m <= Len(virtual'), Matches(h, m) PROVE Matches(h, m)'
    <3>1. \A i \in 1 .. m : i \in 1 .. last
      BY <1>1, <1>2, <2>3, SMTT(30)
    <3>. QED  BY <1>2, <2>3, <3>1, Zenon DEF Matches
  <2>4. ASSUME NEW b \in Batch, NEW d \in Nat,
               IF b <= Len(virtual) THEN d <= virtual[b] ELSE d < version
        PROVE  IF b <= Len(virtual') THEN d <= virtual'[b] ELSE d < version'
    <3>1. b \in Nat /\ b >= 1
      BY SequenceTypes DEF Batch
    <3>. QED  BY <1>0, <1>1, <1>2, <2>4, <3>1, SMTT(30)
  <2>5. ASSUME NEW i \in 1 .. Len(virtual') PROVE virtual'[i] <= version'
    <3>1. i \in 1 .. last /\ i \in 1 .. Len(virtual)
      BY <1>0, <1>1, <1>2, SMTT(30)
    <3>2. virtual'[i] = virtual[i] /\ virtual[i] \in Nat /\ virtual[i] <= version /\ version \in Nat
      BY <1>0, <1>2, <3>1, Zenon
    <3>. QED  BY <3>2, SMTT(30)
  <2>. QED  BY <2>1, <2>2, <2>3, <2>4, <2>5, Zenon DEF L1Kept
<1>5. SubSeq(virtual', 1, verified') \in Seen
  <2>1. SubSeq(virtual', 1, verified) = SubSeq(virtual, 1, verified)
    BY <1>0, <1>1, <1>2, SMTT(30)
  <2>. QED  BY <1>1, <2>1, Zenon DEF Seen
<1>6. SenderTypes'
  <2>1. rb' \in [pc : {"none", "hashes", "ungenerated", "generated"}, last : Nat, reorg : BOOLEAN]
    BY <1>1, Zenon
  <2>. QED  BY <1>1, <2>1, Zenon DEF HashInv, Types, SenderTypes
<1>. QED  BY <1>1, <1>3, <1>4, <1>5, <1>6, L1Moves, Zenon
\* The map that handleRollbackBatches and Start begin with.
LEMMA RenewedTypes ==
    ASSUME L1Types
    PROVE  [b \in 0 .. MaxBatch |-> IF b = verified THEN AccInputHash(b) ELSE << >>]
              \in [0 .. MaxBatch -> Seq(Nat)]
<1>1. AccInputHash(verified) \in Seq(Nat) /\ << >> \in Seq(Nat)
  BY DEF L1Types, AccInputHash
<1>. QED  BY <1>1, Zenon

\* handleRollbackBatches keeps the hash of the last verified batch only.
LEMMA ResetStep == ASSUME HashInv, ResetAccInputHashes PROVE HashInv'
<1>0. TableOK(proofs) /\ ProverTypes /\ L1Types /\ SenderTypes
  BY TableOperations, Zenon DEF HashInv, Types
<1>1. /\ UNCHANGED <<virtual, verified, pending, rollbacks, reorgs, prv, stateDBMutex, snd, proofs>>
      /\ rb' = [rb EXCEPT !.pc = "ungenerated"]
      /\ accInputHashes' = [b \in 0 .. MaxBatch |->
                               IF b = verified THEN AccInputHash(b) ELSE << >>]
  BY Zenon DEF ResetAccInputHashes, l1Vars, dbVars, boundVars
<1>2. accInputHashes' \in [0 .. MaxBatch -> Seq(Nat)]
  BY <1>0, <1>1, RenewedTypes, Zenon
<1>3. ProverTypes'
  BY <1>0, <1>1, ProversStay, Zenon
<1>4. L1Types' /\ TableTypes' /\ SenderTypes'
  <2>1. L1Types'
    BY <1>0, <1>1, Zenon DEF L1Types
  <2>2. TableTypes'
    BY <1>0, <1>1, <1>2, Zenon DEF TableTypes, TableOK
  <2>3. SenderTypes'
    BY <1>0, <1>1, Zenon DEF SenderTypes
  <2>. QED  BY <2>1, <2>2, <2>3, Zenon
<1>5. Types'
  BY <1>3, <1>4, Zenon DEF Types
<1>6. \A b \in 0 .. MaxBatch : \/ accInputHashes'[b] = << >>
                               \/ b = verified /\ accInputHashes'[b] = AccInputHash(b)
  BY <1>1, Zenon
<1>7. /\ HashesReplaced /\ L1Kept
      /\ \A b \in 0 .. MaxBatch : accInputHashes'[b] \in Seen
      /\ SubSeq(virtual', 1, verified') \in Seen
  BY <1>1, <1>2, <1>4, <1>6, HashesRenewed, Zenon
<1>8. Seen' \subseteq Seen
  <2>1. \A q \in Provers : HeldNew(prv[q])' = HeldNew(prv[q])
    BY <1>1, Zenon DEF HeldNew, Holding
  <2>2. ProvenHashes' \subseteq Seen
    BY <1>1, <2>1, HeldAreSeen, ZenonT(30) DEF ProvenHashes
  <2>3. \A q \in Provers : prv'[q].pc \in {"witness", "input", "proving"} => prv'[q].acc \in Seen
    BY <1>1, HeldAreSeen, Zenon
  <2>. QED  BY <1>7, <2>2, <2>3, Zenon DEF Seen
<1>. QED  BY <1>1, <1>5, <1>7, <1>8, HashesKept, Zenon

\* A restart begins with the hash of the last verified batch, and forgets the proofs
\* above it.
LEMMA StartStep == ASSUME HashInv, Start PROVE HashInv'
<1>0. TableOK(proofs) /\ ProverTypes /\ L1Types /\ SenderTypes
  BY TableOperations, Zenon DEF HashInv, Types
<1>1. /\ UNCHANGED <<virtual, verified, pending, rollbacks, reorgs>>
      /\ proofs' = DeleteGeneratedProofs(proofs, verified, MaxBatch)
      /\ rb' = NoCallback /\ snd' = Waiting /\ snd'.pc = "wait" /\ stateDBMutex' = None
      /\ prv' = [p \in Provers |-> Idle]
      /\ accInputHashes' = [b \in 0 .. MaxBatch |->
                               IF b = verified THEN AccInputHash(b) ELSE << >>]
  BY WaitingType, Zenon DEF Start, l1Vars
<1>2. accInputHashes' \in [0 .. MaxBatch -> Seq(Nat)] /\ TableOK(proofs')
  BY <1>0, <1>1, RenewedTypes, TableOperations, Zenon
<1>3. PICK i : i = Idle
  BY Zenon
<1>4. /\ GoroutineOK(i) /\ i.pc = "loop" /\ HeldNew(i) = {} /\ i.pc \notin Section
      /\ DOMAIN prv' = Provers /\ \A p \in Provers : prv'[p] = i
  <2>1. [Idle EXCEPT !.pc = "loop"] = Idle
    BY IdleType, Zenon DEF Goroutine
  <2>2. GoroutineOK(i) /\ i.pc = "loop" /\ HeldNew(i) = {} /\ i.pc \notin Section
    BY <1>3, <2>1, IdleOK, Zenon
  <2>. QED  BY <1>1, <1>3, <2>2, Zenon
<1>5. ProverTypes'
  <2>1. \A p \in Provers : GoroutineOK(prv[p])'
    BY <1>4, Zenon DEF GoroutineOK, Holding
  <2>2. \A p \in Provers : prv'[p].pc \notin Section /\ stateDBMutex' # p
    BY <1>1, <1>4, AggregatorAssumption, Zenon
  <2>. QED  BY <1>4, <2>1, <2>2, Zenon DEF ProverTypes
<1>6. L1Types' /\ TableTypes' /\ SenderTypes'
  <2>1. L1Types'
    BY <1>0, <1>1, Zenon DEF L1Types
  <2>2. TableTypes'
    BY <1>2, Zenon DEF TableTypes, TableOK
  <2>3. SenderTypes'
    BY <1>1, WaitingType, Zenon DEF SenderTypes, NoCallback
  <2>. QED  BY <2>1, <2>2, <2>3, Zenon
<1>7. Types'
  BY <1>5, <1>6, Zenon DEF Types
<1>8. \A b \in 0 .. MaxBatch : \/ accInputHashes'[b] = << >>
                               \/ b = verified /\ accInputHashes'[b] = AccInputHash(b)
  BY <1>1, Zenon
<1>9. /\ HashesReplaced /\ L1Kept
      /\ \A b \in 0 .. MaxBatch : accInputHashes'[b] \in Seen
      /\ SubSeq(virtual', 1, verified') \in Seen
  BY <1>1, <1>2, <1>6, <1>8, HashesRenewed, Zenon
<1>10. Seen' \subseteq Seen
  <2>1. \A q \in Provers : HeldNew(prv[q])' = {}
    BY <1>4, Zenon DEF HeldNew, Holding
  <2>2. ProvenHashes' \subseteq Seen
    BY <1>1, <1>2, <2>1, HeldAreSeen, ZenonT(30) DEF ProvenHashes, TableOK
  <2>. QED  BY <1>4, <1>9, <2>2, ZenonT(30) DEF Seen
<1>11. \A p \in Provers : prv'[p].pc \notin {"hash", "set"}
  BY <1>4, Zenon
<1>. QED  BY <1>7, <1>9, <1>10, <1>11, HashesKept, Zenon

\* The rest of the callbacks, and cleanupLockedProofs, only remove proofs.
LEMMA RemovingStep ==
    ASSUME HashInv,
           \/ DeleteWipProofs \/ DeleteRolledBackProofs \/ CallbackFails
           \/ \E r \in proofs : CleanupLockedProofs(r)
    PROVE  HashInv'
<1>0. TableOK(proofs) /\ SenderTypes /\ pending \subseteq Generated
  BY TableOperations, Zenon DEF HashInv, Types, L1Types
<1>1. /\ UNCHANGED <<virtual, verified, accInputHashes, rollbacks, reorgs, prv, stateDBMutex, snd, pending>>
      /\ proofs' \subseteq proofs
  BY Zenon
     DEF DeleteWipProofs, DeleteRolledBackProofs, CallbackFails, CleanupLockedProofs, l1Vars, memVars,
         dbVars, boundVars, DeleteUngeneratedProofs, DeleteGeneratedProofs
<1>2. TableOK(proofs')
  BY <1>0, <1>1, Zenon DEF TableOK
<1>3. rb' = rb \/ rb' = NoCallback \/ \E pc \in {"ungenerated", "generated"} : rb' = [rb EXCEPT !.pc = pc]
  BY Zenon DEF DeleteWipProofs, DeleteRolledBackProofs, CallbackFails, CleanupLockedProofs
<1>4. rb' \in [pc : {"none", "hashes", "ungenerated", "generated"}, last : Nat, reorg : BOOLEAN]
  <2>1. NoCallback \in [pc : {"none", "hashes", "ungenerated", "generated"}, last : Nat, reorg : BOOLEAN]
    BY Zenon DEF NoCallback
  <2>2. ASSUME NEW pc \in {"ungenerated", "generated"}, rb' = [rb EXCEPT !.pc = pc]
        PROVE  rb' \in [pc : {"none", "hashes", "ungenerated", "generated"}, last : Nat, reorg : BOOLEAN]
    BY <1>0, <2>2, Zenon DEF SenderTypes
  <2>. QED  BY <1>0, <1>3, <2>1, <2>2, Zenon DEF SenderTypes
<1>5. SenderTypes'
  BY <1>0, <1>1, <1>4, Zenon DEF SenderTypes
<1>. QED  BY <1>0, <1>1, <1>2, <1>5, HeldAreSeen, StillStep, Zenon

\* Nothing is stored at first.
LEMMA InitHash == Init => HashInv
<1>. SUFFICES ASSUME Init PROVE HashInv
  BY Zenon
<1>1. MaxBatch \in Nat /\ 0 \in 0 .. MaxBatch
  BY SequenceTypes
<1>2. PICK e \in Seq(Nat) : e = << >> /\ Len(e) = 0
  <2>1. << >> \in Seq(Nat) /\ Len(<< >>) = 0
    OBVIOUS
  <2>. QED  BY <2>1, Zenon
<1>3. /\ virtual = e /\ verified = 0 /\ pending = {} /\ proofs = {}
      /\ accInputHashes = [b \in 0 .. MaxBatch |-> e]
      /\ rollbacks = 0 /\ reorgs = 0
  BY <1>2, Zenon DEF Init
<1>4. PICK i : i = Idle
  BY Zenon
<1>5. /\ GoroutineOK(i) /\ i.pc = "loop" /\ HeldNew(i) = {} /\ i.pc \notin Section
      /\ DOMAIN prv = Provers /\ \A p \in Provers : prv[p] = i
  <2>1. [Idle EXCEPT !.pc = "loop"] = Idle
    BY IdleType, Zenon DEF Goroutine
  <2>2. GoroutineOK(i) /\ i.pc = "loop" /\ HeldNew(i) = {} /\ i.pc \notin Section
    BY <1>4, <2>1, IdleOK, Zenon
  <2>. QED  BY <1>4, <2>2, Zenon DEF Init
<1>6. ProverTypes
  <2>1. \A p \in Provers : prv[p].pc \notin Section /\ stateDBMutex # p
    BY <1>5, AggregatorAssumption, Zenon DEF Init
  <2>. QED  BY <1>5, <2>1, Zenon DEF ProverTypes
<1>7. L1Types
  BY <1>2, <1>3 DEF L1Types, Boundaries
<1>8. TableTypes
  BY <1>3, Zenon DEF TableTypes
<1>9. SenderTypes /\ snd.pc = "wait"
  BY WaitingType, Zenon DEF SenderTypes, Init, NoCallback
<1>10. \A h \in Seen : h = e
  <2>1. ProvenHashes = {}
    BY <1>3, <1>5, <1>9, ZenonT(30) DEF ProvenHashes
  <2>2. SubSeq(virtual, 1, verified) = e
    BY <1>2, <1>3
  <2>. QED  BY <1>3, <1>5, <2>1, <2>2, Zenon DEF Seen
<1>11. NotNewer(e) /\ Supports(e, Len(e))
  BY <1>2 DEF NotNewer, Supports
<1>12. HashesOK
  <2>1. \A p \in Provers : SectionOK(prv[p])
    BY <1>5, Zenon DEF SectionOK
  <2>. QED  BY <1>2, <1>3, <1>10, <1>11, <2>1 DEF HashesOK
<1>. QED  BY <1>6, <1>7, <1>8, <1>9, <1>12, Zenon DEF HashInv, Types

\* No step of anybody spoils the hashes.
LEMMA StepHash == ASSUME HashInv, [Next]_vars PROVE HashInv'
<1>1. CASE UNCHANGED vars
  <2>1. UNCHANGED <<virtual, verified, accInputHashes, rollbacks, reorgs, prv, stateDBMutex, proofs,
                    snd, rb, pending>>
    BY <1>1, Zenon DEF vars, l1Vars, dbVars, memVars, boundVars
  <2>2. TableOK(proofs') /\ SenderTypes' /\ pending' \subseteq Generated
    BY <2>1, TableOperations, Zenon DEF HashInv, Types, L1Types, SenderTypes
  <2>. QED  BY <2>1, <2>2, HeldAreSeen, StillStep, Zenon
<1>2. CASE L1
  BY <1>2, SequenceStep, MineStep, Zenon DEF L1
<1>3. CASE Sender
  BY <1>3, SenderStep, FinalizedStep, Zenon
<1>4. CASE Callback
  <2>1. ASSUME NEW last, RollbackBatches(last) PROVE HashInv'
    <3>1. rollbacks' \in Nat /\ reorgs' \in Nat /\ version' = version + 1
      BY <2>1 DEF RollbackBatches, version, HashInv, Types, L1Types
    <3>. QED  BY <2>1, <3>1, DropStep, Zenon DEF RollbackBatches
  <2>2. ASSUME NEW last, ReorgL1(last) PROVE HashInv'
    <3>1. rollbacks' \in Nat /\ reorgs' \in Nat /\ version' = version + 1
      BY <2>2 DEF ReorgL1, version, HashInv, Types, L1Types
    <3>. QED  BY <2>2, <3>1, DropStep, Zenon DEF ReorgL1
  <2>. QED  BY <1>4, <2>1, <2>2, ResetStep, RemovingStep, Zenon DEF Callback
<1>5. CASE Start
  BY <1>5, StartStep, Zenon
<1>6. CASE \E r \in proofs : CleanupLockedProofs(r)
  BY <1>6, RemovingStep, Zenon
<1>7. ASSUME NEW p \in Provers, Prover(p) PROVE HashInv'
  <2>1. CASE Channel(p)
    BY <2>1, ChannelStep, Zenon
  <2>2. CASE FinalProofStep(p)
    BY <2>2, CanVerifyStep, LatestVerifiedStep, LockReadyStep, ValidateStep, BuildFinalStep,
       SendFinalStep, StoreStep, Zenon DEF FinalProofStep
  <2>3. CASE AggregateStep(p)
    BY <2>3, LockPairStep, AggregateStepKeeps, UnlockPairStep, Zenon DEF AggregateStep
  <2>4. CASE BatchStep(p)
    BY <2>4, PickStep, CalculateStep, StoreHashStep, AddProofStep, WitnessFailsStep, InputStep,
       GeneratedStep, BatchFailsStep, Zenon DEF BatchStep
  <2>. QED  BY <1>7, <2>1, <2>2, <2>3, <2>4, Zenon DEF Prover
<1>. QED  BY <1>1, <1>2, <1>3, <1>4, <1>5, <1>6, <1>7, Zenon DEF Next

-----------------------------------------------------------------------------
(* What keeps the proofs valid                                             *)

\* What is known of the lengths.
LEMMA Lengths ==
    ASSUME HashInv
    PROVE  /\ virtual \in Seq(Nat) /\ Len(virtual) \in Nat /\ MaxBatch \in Nat
           /\ verified \in Nat /\ verified <= Len(virtual) /\ Len(virtual) <= MaxBatch
  BY BoundariesAreBatches, SequenceTypes DEF HashInv, Types, L1Types

\* The hash of a batch of L1 has the data of every batch up to it.
LEMMA HashOfBatch ==
    ASSUME virtual \in Seq(Nat), NEW b \in 0 .. Len(virtual)
    PROVE  /\ AccInputHash(b) \in Seq(Nat) /\ Len(AccInputHash(b)) = b
           /\ \A i \in 1 .. b : AccInputHash(b)[i] = virtual[i]
<1>1. Len(virtual) \in Nat /\ b \in Nat /\ b <= Len(virtual)
  OBVIOUS
<1>2. \A i \in 1 .. b : virtual[i] \in Nat
  BY <1>1
<1>3. SubSeq(virtual, 1, b) = [i \in 1 .. b |-> virtual[i]]
  BY <1>1
<1>4. [i \in 1 .. b |-> virtual[i]] \in Seq(Nat) /\ Len([i \in 1 .. b |-> virtual[i]]) = b
  BY <1>1, <1>2
<1>. QED  BY <1>3, <1>4, Zenon DEF AccInputHash

\* As long as L1 does not move, a proof stays as valid as it is.
LEMMA ValidSame ==
    ASSUME UNCHANGED virtual
    PROVE  /\ \A k : Valid(k)' <=> Valid(k)
           /\ \A T : TableValid(T)' <=> TableValid(T)
           /\ \A A : MemoryValid(A)' <=> MemoryValid(A)
           /\ \A g : GoroutineValid(g)' <=> GoroutineValid(g)
<1>1. \A b : AccInputHash(b)' = AccInputHash(b)
  BY Zenon DEF AccInputHash
<1>2. \A k : Valid(k)' <=> Valid(k)
  BY <1>1, Zenon DEF Valid
<1>3. \A T : TableValid(T)' <=> TableValid(T)
  BY <1>2, Zenon DEF TableValid
<1>4. \A A : MemoryValid(A)' <=> MemoryValid(A)
  BY <1>1, Zenon DEF MemoryValid
<1>5. \A g : GoroutineValid(g)' <=> GoroutineValid(g)
  BY <1>1, <1>2, Zenon DEF GoroutineValid, Holding
<1>. QED  BY <1>2, <1>3, <1>4, <1>5, Zenon

\* A step that does not move L1 and after which all that anybody has is valid.
LEMMA ValidKept ==
    ASSUME UNCHANGED virtual, rb'.pc = "none", restarts' \in Nat,
           MemoryValid(accInputHashes'), TableValid(proofs'), \A k \in pending' : Valid(k),
           snd'.pc # "wait" => Valid(snd'.proof),
           \A p \in Provers : GoroutineValid(prv'[p]),
           SettledOnce'
    PROVE  ValidInv'
<1>1. MemoryValid(accInputHashes)' /\ TableValid(proofs)'
  <2>1. PICK A, T : A = accInputHashes' /\ T = proofs'
    BY Zenon
  <2>2. MemoryValid(A)' /\ TableValid(T)'
    BY <2>1, ValidSame, Zenon
  <2>. QED  BY <2>1, <2>2, Zenon DEF MemoryValid, TableValid
<1>2. (\A k \in pending : Valid(k))'
  BY ValidSame, Zenon
<1>3. (snd.pc # "wait" => Valid(snd.proof))'
  <2>1. PICK k : k = snd'.proof
    BY Zenon
  <2>2. Valid(k)' <=> Valid(k)
    BY ValidSame, Zenon
  <2>. QED  BY <2>1, <2>2, Zenon DEF Valid
<1>4. ASSUME NEW p \in Provers PROVE GoroutineValid(prv[p])'
  <2>1. PICK g : g = prv'[p]
    BY Zenon
  <2>2. GoroutineValid(g)'
    BY <2>1, ValidSame, Zenon
  <2>. QED  BY <2>1, <2>2, Zenon DEF GoroutineValid, Holding, Valid
<1>. QED  BY <1>1, <1>2, <1>3, <1>4, Zenon DEF ValidInv

\* A step of goroutine p after which what it has, the hashes and the table are valid.
LEMMA ValidProver ==
    ASSUME HashInv, ValidInv, NEW p \in Provers, NEW g, prv' = [prv EXCEPT ![p] = g],
           GoroutineValid(g), UNCHANGED <<l1Vars, snd, rb, restarts>>,
           MemoryValid(accInputHashes'), TableValid(proofs')
    PROVE  ValidInv'
<1>1. /\ UNCHANGED <<virtual, verified, backend, pending, failed, snd, rb, restarts>>
  BY Zenon DEF l1Vars
<1>2. \A q \in Provers : GoroutineValid(prv'[q])
  <2>1. \A q \in Provers : prv'[q] = g \/ prv'[q] = prv[q]
    BY Goroutines, Zenon
  <2>. QED  BY <2>1, Zenon DEF ValidInv
<1>3. SettledOnce'
  BY <1>1, Zenon DEF ValidInv, SettledOnce, Accepts, AccInputHash
<1>. QED  BY <1>1, <1>2, <1>3, ValidKept, Zenon DEF ValidInv

\* The operations on the table keep it valid.
LEMMA ValidTables ==
    /\ \A T : TableValid(T) => \A from, to : TableValid(DeleteGeneratedProofs(T, from, to))
    /\ \A T : TableValid(T) => \A k : Valid(k) => TableValid(UpdateGeneratedProof(T, k))
    /\ \A T : TableValid(T) => \A k : Valid(k) \/ k.content = None => TableValid(T \cup {k})
    /\ \A k \in Generated : Valid(k) => Valid(Lock(k)) /\ Valid(Unlock(k))
<1>1. \A T : TableValid(T) => \A from, to : TableValid(DeleteGeneratedProofs(T, from, to))
  BY Zenon DEF TableValid, DeleteGeneratedProofs
<1>2. \A T : TableValid(T) => \A k : Valid(k) => TableValid(UpdateGeneratedProof(T, k))
  BY Zenon DEF TableValid, UpdateGeneratedProof
<1>3. \A T : TableValid(T) => \A k : Valid(k) \/ k.content = None => TableValid(T \cup {k})
  BY Zenon DEF TableValid
<1>4. ASSUME NEW k \in Generated, Valid(k) PROVE Valid(Lock(k)) /\ Valid(Unlock(k))
  <2>1. /\ Lock(k).from = k.from /\ Lock(k).to = k.to /\ Lock(k).content = k.content
        /\ Unlock(k).from = k.from /\ Unlock(k).to = k.to /\ Unlock(k).content = k.content
    BY Zenon DEF Lock, Unlock, Generated
  <2>. QED  BY <1>4, <2>1, Zenon DEF Valid
<1>. QED  BY <1>1, <1>2, <1>3, <1>4, Zenon

\* What is known of a goroutine and of the table before a step.
LEMMA ValidBefore ==
    ASSUME HashInv, ValidInv, NEW p \in Provers
    PROVE  /\ GoroutineOK(prv[p]) /\ prv[p] \in Goroutine /\ GoroutineValid(prv[p])
           /\ DOMAIN prv = Provers /\ MemoryValid(accInputHashes) /\ TableValid(proofs)
           /\ proofs \subseteq Rows
  BY Goroutines, Zenon DEF ValidInv, HashInv, Types, TableTypes

\* A goroutine that has nothing.
LEMMA IdleValid ==
    ASSUME NEW pc \in {"loop", "check", "aggregate", "pick"}
    PROVE  GoroutineValid([Idle EXCEPT !.pc = pc])
<1>. DEFINE g == [Idle EXCEPT !.pc = pc]
<1>1. g.pc = pc /\ g.inHand = FALSE
  BY IdleType, Zenon DEF Goroutine
<1>. HIDE DEF g
<1>2. GoroutineValid(g)
  BY <1>1, Zenon DEF GoroutineValid, Holding
<1>. QED  BY <1>2, Zenon DEF g

\* A goroutine that goes on with what it has.
LEMMA ValidGoto ==
    ASSUME HashInv, ValidInv, NEW p \in Provers, NEW pc, prv' = [prv EXCEPT ![p].pc = pc],
           pc \in {"ready", "lock", "validate", "build", "send", "store", "aggregate", "pick",
                   "witness", "stuck"},
           pc \in {"validate", "build", "send", "store"} => Holding(prv[p]),
           pc = "witness" => prv[p].pc = "set",
           UNCHANGED <<l1Vars, snd, rb, restarts>>, MemoryValid(accInputHashes'), TableValid(proofs')
    PROVE  ValidInv'
<1>. DEFINE g == [prv[p] EXCEPT !.pc = pc]
<1>0. GoroutineValid(prv[p]) /\ prv[p] \in Goroutine /\ DOMAIN prv = Provers
  BY ValidBefore, Zenon
<1>1. /\ g.pc = pc /\ g.inHand = prv[p].inHand /\ g.proof = prv[p].proof
      /\ g.batch = prv[p].batch /\ g.data = prv[p].data
  BY <1>0, Zenon DEF Goroutine
<1>2. prv' = [prv EXCEPT ![p] = g]
  BY <1>0, Zenon
<1>. HIDE DEF g
<1>3. Holding(g) => Holding(prv[p])
  BY <1>1, Zenon DEF Holding
<1>4. GoroutineValid(g)
  BY <1>0, <1>1, <1>3, Zenon DEF GoroutineValid
<1>. QED  BY <1>2, <1>4, ValidProver, Zenon
-----------------------------------------------------------------------------
(* The steps of a prover's goroutine keep the proofs valid                 *)

\* tryBuildFinalProof stores and settles proofs it got from the table or in hand.
LEMMA ValidFinalProof ==
    ASSUME HashInv, ValidInv, NEW p \in Provers, FinalProofStep(p), ~SendFinalProof(p)
    PROVE  ValidInv'
<1>0. /\ GoroutineOK(prv[p]) /\ prv[p] \in Goroutine /\ GoroutineValid(prv[p])
      /\ DOMAIN prv = Provers /\ MemoryValid(accInputHashes) /\ TableValid(proofs)
  BY ValidBefore, Zenon
<1>1. UNCHANGED <<l1Vars, snd, rb, restarts>> /\ MemoryValid(accInputHashes')
  BY <1>0, Zenon DEF others, FinalProofStep, canVerifyProof, CannotVerifyProof, GetLatestVerifiedBatchNum,
         getAndLockProofReadyToVerify, validateEligibleFinalProof, buildFinalProof,
         FinalProofFails, StoreProof
<1>2. ASSUME NEW pc \in {"ready", "store", "aggregate", "build", "send"},
             prv' = [prv EXCEPT ![p].pc = pc], TableValid(proofs'),
             pc \in {"build", "send", "store"} => Holding(prv[p])
      PROVE  ValidInv'
  BY <1>1, <1>2, ValidGoto, Zenon
<1>3. CASE canVerifyProof(p) \/ CannotVerifyProof(p)
  <2>1. PICK pc \in {"ready", IF prv[p].inHand THEN "store" ELSE "aggregate"} :
           prv' = [prv EXCEPT ![p].pc = pc]
    BY <1>3, Zenon DEF canVerifyProof, CannotVerifyProof, Goto, NotBuilt
  <2>2. TableValid(proofs')
    BY <1>0, <1>3, Zenon DEF canVerifyProof, CannotVerifyProof, dbVars
  <2>. QED  BY <1>2, <2>1, <2>2, Zenon DEF Holding
<1>4. CASE GetLatestVerifiedBatchNum(p)
  <2>. DEFINE g == [prv[p] EXCEPT !.last = verified,
                                  !.pc = IF prv[p].inHand THEN "validate" ELSE "lock"]
  <2>1. prv' = [prv EXCEPT ![p] = g] /\ TableValid(proofs')
    BY <1>0, <1>4, Zenon DEF GetLatestVerifiedBatchNum, Become, dbVars
  <2>2. /\ g.pc \in {"validate", "lock"} /\ g.inHand = prv[p].inHand /\ g.proof = prv[p].proof
        /\ g.pc = "validate" => prv[p].inHand
    BY <1>0, Zenon DEF Goroutine
  <2>. HIDE DEF g
  <2>3. GoroutineValid(g)
    BY <1>0, <2>2, Zenon DEF GoroutineValid, Holding
  <2>. QED  BY <1>1, <2>1, <2>3, ValidProver, Zenon
<1>5. CASE getAndLockProofReadyToVerify(p)
  <2>1. ASSUME NEW r \in GetProofReadyToVerify(prv[p].last),
               proofs' = UpdateGeneratedProof(proofs, Lock(r)),
               Become(p, [prv[p] EXCEPT !.pc = "build", !.proof = Lock(r)])
        PROVE  ValidInv'
    <3>. DEFINE g == [prv[p] EXCEPT !.pc = "build", !.proof = Lock(r)]
    <3>1. r \in Generated /\ Valid(r)
      BY <1>0, RowFacts, Zenon DEF GetProofReadyToVerify, TableValid, HashInv, Types, TableTypes
    <3>2. Valid(Lock(r)) /\ TableValid(proofs')
      BY <1>0, <2>1, <3>1, ValidTables, Zenon
    <3>3. g.pc = "build" /\ g.proof = Lock(r) /\ prv' = [prv EXCEPT ![p] = g]
      BY <1>0, <2>1, Zenon DEF Goroutine, Become
    <3>. HIDE DEF g
    <3>4. GoroutineValid(g)
      BY <3>2, <3>3, Zenon DEF GoroutineValid
    <3>. QED  BY <1>1, <3>2, <3>3, <3>4, ValidProver, Zenon
  <2>2. CASE prv' = [prv EXCEPT ![p].pc = "aggregate"] /\ proofs' = proofs
    BY <1>0, <1>2, <2>2, Zenon
  <2>. QED  BY <1>5, <2>1, <2>2, Zenon DEF getAndLockProofReadyToVerify, Goto
<1>6. CASE validateEligibleFinalProof(p)
  <2>1. PICK pc \in {"build", "store"} : prv' = [prv EXCEPT ![p].pc = pc]
    BY <1>6, Zenon DEF validateEligibleFinalProof, Goto
  <2>2. Holding(prv[p])
    BY <1>6, Zenon DEF validateEligibleFinalProof, Holding
  <2>3. TableValid(proofs')
    BY <1>0, <1>6, ValidTables, Zenon DEF validateEligibleFinalProof
  <2>. QED  BY <1>2, <2>1, <2>2, <2>3, ZenonT(30)
<1>7. CASE buildFinalProof(p) \/ FinalProofFails(p)
  <2>1. PICK pc \in {"send", IF prv[p].inHand THEN "store" ELSE "aggregate"} :
           prv' = [prv EXCEPT ![p].pc = pc]
    BY <1>7, Zenon DEF buildFinalProof, FinalProofFails, Goto, NotBuilt
  <2>2. Holding(prv[p])
    BY <1>7, Zenon DEF buildFinalProof, FinalProofFails, Holding
  <2>3. prv[p].proof \in Generated /\ Valid(prv[p].proof)
    BY <1>0, <2>2, ZenonT(30) DEF GoroutineOK, GoroutineValid
  <2>4. TableValid(proofs')
    BY <1>0, <1>7, <2>3, ValidTables, Zenon DEF buildFinalProof, FinalProofFails, dbVars
  <2>. QED  BY <1>2, <2>1, <2>2, <2>4, ZenonT(30)
<1>8. CASE StoreProof(p)
  <2>. DEFINE g == [Idle EXCEPT !.pc = "loop"]
  <2>1. /\ prv[p].pc = "store" /\ prv' = [prv EXCEPT ![p] = g]
        /\ proofs' = UpdateGeneratedProof(proofs, Unlock(prv[p].proof))
    BY <1>8, Zenon DEF StoreProof, Become, Idle
  <2>2. GoroutineValid(g)
    BY IdleValid, Zenon
  <2>. HIDE DEF g
  <2>3. prv[p].proof \in Generated /\ Valid(prv[p].proof)
    BY <1>0, <2>1, ZenonT(30) DEF GoroutineOK, GoroutineValid, Holding
  <2>4. TableValid(proofs')
    BY <1>0, <2>1, <2>3, ValidTables, ZenonT(30)
  <2>. QED  BY <1>1, <2>1, <2>2, <2>4, ValidProver, Zenon
<1>. QED  BY <1>3, <1>4, <1>5, <1>6, <1>7, <1>8, Zenon DEF FinalProofStep

\* Two valid proofs of which the second starts in the hash where the first ends are
\* neighbours, and the joined proof is valid.
LEMMA JoinedValid ==
    ASSUME HashInv, NEW k \in Generated, NEW l \in Generated, Valid(k), Valid(l),
           k.content.new = l.content.old
    PROVE  /\ l.from = k.to + 1
           /\ Valid([from |-> k.from, to |-> l.to, locked |-> TRUE,
                     content |-> AggregatedProof(k.content, l.content)])
<1>0. /\ k.from \in Nat /\ k.to \in Nat /\ l.from \in Nat \ {0} /\ l.to \in Nat
      /\ virtual \in Seq(Nat) /\ Len(virtual) \in Nat
  BY Lengths DEF Generated, Batch
<1>1. AccInputHash(k.to) = AccInputHash(l.from - 1)
  <2>1. /\ k.content = [old |-> AccInputHash(k.from - 1), new |-> AccInputHash(k.to)]
        /\ l.content = [old |-> AccInputHash(l.from - 1), new |-> AccInputHash(l.to)]
    BY Zenon DEF Valid
  <2>2. k.content.new = AccInputHash(k.to) /\ l.content.old = AccInputHash(l.from - 1)
    BY <2>1
  <2>. QED  BY <2>2, Zenon
<1>2. \A b \in 0 .. Len(virtual) : Len(AccInputHash(b)) = b
  BY <1>0, HashOfBatch, Zenon
<1>3. k.to \in 0 .. Len(virtual) /\ l.from - 1 \in 0 .. Len(virtual)
  BY <1>0 DEF Valid
<1>4. k.to = l.from - 1
  BY <1>1, <1>2, <1>3, Zenon
<1>5. PICK j : j = [from |-> k.from, to |-> l.to, locked |-> TRUE,
                    content |-> AggregatedProof(k.content, l.content)]
  BY Zenon
<1>6. /\ j.from = k.from /\ j.to = l.to
      /\ j.content = [old |-> k.content.old, new |-> l.content.new]
  BY <1>5, Zenon DEF AggregatedProof
<1>7. /\ k.content = [old |-> AccInputHash(k.from - 1), new |-> AccInputHash(k.to)]
      /\ l.content = [old |-> AccInputHash(l.from - 1), new |-> AccInputHash(l.to)]
      /\ k.from <= k.to /\ l.from <= l.to /\ l.to <= Len(virtual)
  BY Zenon DEF Valid
<1>8. k.content.old = AccInputHash(k.from - 1) /\ l.content.new = AccInputHash(l.to)
  BY <1>7
<1>9. k.from <= l.to /\ l.from = k.to + 1
  BY <1>0, <1>4, <1>7
<1>10. Valid(j)
  BY <1>6, <1>7, <1>8, <1>9, Zenon DEF Valid
<1>. QED  BY <1>5, <1>9, <1>10, Zenon

\* A step of tryAggregateProofs joins valid proofs to a valid one, or gives them back.
LEMMA ValidAggregate ==
    ASSUME HashInv, ValidInv, NEW p \in Provers, AggregateStep(p)
    PROVE  ValidInv'
<1>0. /\ GoroutineOK(prv[p]) /\ prv[p] \in Goroutine /\ GoroutineValid(prv[p])
      /\ DOMAIN prv = Provers /\ MemoryValid(accInputHashes) /\ TableValid(proofs)
      /\ proofs \subseteq Rows
  BY ValidBefore, Zenon
<1>1. UNCHANGED <<l1Vars, snd, rb, restarts>> /\ MemoryValid(accInputHashes')
  BY <1>0, Zenon DEF others, AggregateStep, getAndLockProofsToAggregate, tryAggregateProofs,
         unlockProofsToAggregate
<1>2. CASE getAndLockProofsToAggregate(p)
  <2>1. ASSUME NEW pq \in GetProofsToAggregate,
               proofs' = UpdateGeneratedProof(UpdateGeneratedProof(proofs, Lock(pq[1])), Lock(pq[2])),
               Become(p, [Idle EXCEPT !.pc = "aggregating", !.proof = Lock(pq[1]),
                                      !.other = Lock(pq[2])])
        PROVE  ValidInv'
    <3>0. PICK r1, r2 : r1 = Lock(pq[1]) /\ r2 = Lock(pq[2])
      BY Zenon
    <3>. DEFINE g == [Idle EXCEPT !.pc = "aggregating", !.proof = r1, !.other = r2]
    <3>1. Valid(r1) /\ Valid(r2)
      BY <1>0, <3>0, PairsToAggregate, RowFacts, ValidTables, Zenon DEF TableValid
    <3>2. TableValid(proofs')
      BY <1>0, <2>1, <3>0, <3>1, ValidTables, Zenon
    <3>3. g.pc = "aggregating" /\ g.inHand = FALSE /\ g.proof = r1 /\ g.other = r2
      BY IdleType, Zenon DEF Goroutine
    <3>4. prv' = [prv EXCEPT ![p] = g]
      BY <2>1, <3>0, Zenon DEF Become
    <3>. HIDE DEF g
    <3>5. GoroutineValid(g)
      BY <3>1, <3>3, Zenon DEF GoroutineValid
    <3>. QED  BY <1>1, <3>2, <3>4, <3>5, ValidProver, Zenon
  <2>2. CASE prv' = [prv EXCEPT ![p].pc = "pick"] /\ proofs' = proofs
    BY <1>0, <1>1, <2>2, ValidGoto, Zenon
  <2>. QED  BY <1>2, <2>1, <2>2, Zenon DEF getAndLockProofsToAggregate, Goto
<1>3. CASE tryAggregateProofs(p)
  <2>1. PICK p1, p2 : p1 = prv[p].proof /\ p2 = prv[p].other
    BY Zenon
  <2>. DEFINE joined == [from |-> p1.from, to |-> p2.to, locked |-> TRUE,
                         content |-> AggregatedProof(p1.content, p2.content)]
              g == [Idle EXCEPT !.pc = "check", !.inHand = TRUE, !.proof = joined]
  <2>2. /\ prv[p].pc = "aggregating" /\ p1.content.new = p2.content.old
        /\ proofs' = DeleteGeneratedProofs(proofs, p1.from, p2.to) \cup {joined}
        /\ prv' = [prv EXCEPT ![p] = g]
    BY <1>3, <2>1, Zenon DEF tryAggregateProofs, Become
  <2>3. p1 \in Generated /\ p2 \in Generated /\ Valid(p1) /\ Valid(p2)
    BY <1>0, <2>1, <2>2, Zenon DEF GoroutineOK, GoroutineValid
  <2>4. Valid(joined)
    BY <2>2, <2>3, JoinedValid, Zenon
  <2>. HIDE DEF joined
  <2>5. TableValid(proofs')
    BY <1>0, <2>2, <2>4, ValidTables, Zenon
  <2>6. g.pc = "check" /\ g.inHand = TRUE /\ g.proof = joined
    BY IdleType, Zenon DEF Goroutine
  <2>. HIDE DEF g
  <2>7. GoroutineValid(g)
    BY <2>4, <2>6, Zenon DEF GoroutineValid
  <2>. QED  BY <1>1, <2>2, <2>5, <2>7, ValidProver, Zenon
<1>4. CASE unlockProofsToAggregate(p)
  <2>. DEFINE g == [Idle EXCEPT !.pc = "pick"]
  <2>1. /\ prv[p].pc = "aggregating" /\ prv' = [prv EXCEPT ![p] = g]
        /\ proofs' = UpdateGeneratedProof(UpdateGeneratedProof(proofs, Unlock(prv[p].proof)),
                                          Unlock(prv[p].other))
    BY <1>4, Zenon DEF unlockProofsToAggregate, Become
  <2>2. GoroutineValid(g)
    BY IdleValid, Zenon
  <2>. HIDE DEF g
  <2>3. /\ prv[p].proof \in Generated /\ Valid(prv[p].proof)
        /\ prv[p].other \in Generated /\ Valid(prv[p].other)
    BY <1>0, <2>1, ZenonT(30) DEF GoroutineOK, GoroutineValid
  <2>4. TableValid(proofs')
    BY <1>0, <2>1, <2>3, ValidTables, Zenon
  <2>. QED  BY <1>1, <2>1, <2>2, <2>4, ValidProver, Zenon
<1>. QED  BY <1>2, <1>3, <1>4, Zenon DEF AggregateStep

\* The hash of a batch follows from the one of the batch before, as on L1.
LEMMA NextHash ==
    ASSUME HashInv, ValidInv, NEW b \in Batch, b <= Len(virtual), ~MissingHash(b - 1)
    PROVE  /\ accInputHashes[b - 1] = AccInputHash(b - 1)
           /\ Append(accInputHashes[b - 1], virtual[b]) = AccInputHash(b)
<1>0. /\ b \in Nat \ {0} /\ b - 1 \in 0 .. MaxBatch /\ virtual \in Seq(Nat) /\ Len(virtual) \in Nat
      /\ b \in 1 .. Len(virtual)
  BY Lengths DEF Batch
<1>1. accInputHashes[b - 1] = AccInputHash(b - 1)
  <2>1. CASE accInputHashes[b - 1] # << >>
    BY <1>0, <2>1, Zenon DEF ValidInv, MemoryValid
  <2>2. CASE accInputHashes[b - 1] = << >> /\ b - 1 = 0
    BY <1>0, <2>2 DEF AccInputHash
  <2>. QED  BY <1>0, <2>1, <2>2 DEF MissingHash
<1>2. PICK h \in Seq(Nat) : h = AccInputHash(b - 1) /\ Len(h) = b - 1
                            /\ \A i \in 1 .. b - 1 : h[i] = virtual[i]
  <2>1. b - 1 \in 0 .. Len(virtual)
    BY <1>0
  <2>. QED  BY <1>0, <2>1, HashOfBatch, Zenon
<1>3. PICK k \in Seq(Nat) : k = AccInputHash(b) /\ Len(k) = b
                            /\ \A i \in 1 .. b : k[i] = virtual[i]
  <2>1. b \in 0 .. Len(virtual)
    BY <1>0
  <2>. QED  BY <1>0, <2>1, HashOfBatch, Zenon
<1>4. PICK a \in Seq(Nat) : a = Append(h, virtual[b]) /\ Len(a) = b /\ a[b] = virtual[b]
                            /\ \A i \in 1 .. b - 1 : a[i] = h[i]
  <2>1. virtual[b] \in Nat
    BY <1>0
  <2>2. /\ Append(h, virtual[b]) \in Seq(Nat) /\ Len(Append(h, virtual[b])) = Len(h) + 1
        /\ Append(h, virtual[b])[Len(h) + 1] = virtual[b]
        /\ \A i \in 1 .. Len(h) : Append(h, virtual[b])[i] = h[i]
    BY <2>1
  <2>3. Len(h) + 1 = b
    BY <1>0, <1>2
  <2>. QED  BY <1>2, <2>2, <2>3, Zenon
<1>5. \A i \in 1 .. b : a[i] = k[i]
  <2>1. \A i \in 1 .. b : i = b \/ i \in 1 .. b - 1
    BY <1>0
  <2>2. b \in 1 .. b
    BY <1>0
  <2>. QED  BY <1>2, <1>3, <1>4, <2>1, <2>2, Zenon
<1>6. a = k
  BY <1>3, <1>4, <1>5, SMTT(30)
<1>. QED  BY <1>1, <1>2, <1>3, <1>4, <1>6, Zenon

\* getAndLockBatchToProve reads a batch of L1, and stores the hash that L1 has for it.
LEMMA ValidPick ==
    ASSUME HashInv, ValidInv, NEW p \in Provers,
           GetBatchToProve(p) \/ CalculateAccInputHash(p) \/ setAccInputHash(p)
    PROVE  ValidInv'
<1>0. /\ GoroutineOK(prv[p]) /\ prv[p] \in Goroutine /\ GoroutineValid(prv[p])
      /\ DOMAIN prv = Provers /\ MemoryValid(accInputHashes) /\ TableValid(proofs)
  BY ValidBefore, Zenon
<1>1. UNCHANGED <<l1Vars, snd, rb, restarts>>
  BY Zenon DEF others, GetBatchToProve, CalculateAccInputHash, setAccInputHash
<1>2. ASSUME prv' = [prv EXCEPT ![p] = Idle], MemoryValid(accInputHashes'), TableValid(proofs')
      PROVE  ValidInv'
  <2>1. [Idle EXCEPT !.pc = "loop"] = Idle
    BY IdleType, Zenon DEF Goroutine
  <2>2. GoroutineValid(Idle)
    BY <2>1, IdleValid, Zenon
  <2>. QED  BY <1>1, <1>2, <2>2, ValidProver, Zenon
<1>3. CASE GetBatchToProve(p)
  <2>1. PICK b \in Nat \ {0} : b = BatchToProve.batch
    BY PickedBatch, Zenon
  <2>2. TableValid(proofs') /\ MemoryValid(accInputHashes')
    <3>1. BatchToProve.proofs \in {proofs, {}}
      BY Zenon DEF BatchToProve
    <3>2. TableValid({})
      BY Zenon DEF TableValid
    <3>. QED  BY <1>0, <1>3, <3>1, <3>2, Zenon DEF GetBatchToProve
  <2>3. CASE b > Len(virtual)
    BY <1>2, <1>3, <2>1, <2>2, <2>3, Zenon DEF GetBatchToProve, Become
  <2>4. CASE ~(b > Len(virtual))
    <3>. DEFINE g == [Idle EXCEPT !.pc = "hash", !.batch = b, !.data = virtual[b]]
    <3>1. prv' = [prv EXCEPT ![p] = g]
      BY <1>3, <2>1, <2>4, Zenon DEF GetBatchToProve, Become
    <3>2. g.pc = "hash" /\ g.inHand = FALSE /\ g.batch = b /\ g.data = virtual[b]
      BY IdleType, Zenon DEF Goroutine
    <3>. HIDE DEF g
    <3>3. b <= Len(virtual)
      BY <2>4, Lengths
    <3>4. GoroutineValid(g)
      BY <3>2, <3>3, Zenon DEF GoroutineValid, Holding
    <3>. QED  BY <1>1, <2>2, <3>1, <3>4, ValidProver, Zenon
  <2>. QED  BY <2>3, <2>4, Zenon
<1>4. CASE CalculateAccInputHash(p)
  <2>0. prv[p].pc = "hash" /\ TableValid(proofs') /\ MemoryValid(accInputHashes')
    BY <1>0, <1>4, Zenon DEF CalculateAccInputHash, dbVars
  <2>1. CASE MissingHash(prv[p].batch - 1)
    BY <1>2, <1>4, <2>0, <2>1, Zenon DEF CalculateAccInputHash, Become
  <2>2. CASE ~MissingHash(prv[p].batch - 1)
    <3>. DEFINE a == Append(accInputHashes[prv[p].batch - 1], prv[p].data)
                g == [prv[p] EXCEPT !.pc = "set", !.acc = a]
    <3>1. prv' = [prv EXCEPT ![p] = g]
      BY <1>4, <2>2, Zenon DEF CalculateAccInputHash, Become
    <3>2. /\ prv[p].batch \in Batch /\ prv[p].batch <= Len(virtual)
          /\ prv[p].data = virtual[prv[p].batch] /\ prv[p].inHand = FALSE
      BY <1>0, <2>0, ZenonT(30) DEF GoroutineOK, GoroutineValid, Goroutine
    <3>3. a = AccInputHash(prv[p].batch)
      BY <2>2, <3>2, NextHash, Zenon
    <3>. HIDE DEF a
    <3>4. /\ g.pc = "set" /\ g.inHand = FALSE /\ g.batch = prv[p].batch /\ g.data = prv[p].data
          /\ g.acc = a
      BY <1>0, <3>2, Zenon DEF Goroutine
    <3>. HIDE DEF g
    <3>5. GoroutineValid(g)
      BY <3>2, <3>3, <3>4, Zenon DEF GoroutineValid, Holding
    <3>. QED  BY <1>1, <2>0, <3>1, <3>5, ValidProver, Zenon
  <2>. QED  BY <2>1, <2>2, Zenon
<1>5. CASE setAccInputHash(p)
  <2>1. /\ prv[p].pc = "set" /\ prv' = [prv EXCEPT ![p].pc = "witness"] /\ TableValid(proofs')
        /\ accInputHashes' = [accInputHashes EXCEPT ![prv[p].batch] = prv[p].acc]
    BY <1>0, <1>5, Zenon DEF setAccInputHash, Goto, dbVars
  <2>2. prv[p].batch <= Len(virtual) /\ prv[p].acc = AccInputHash(prv[p].batch)
    BY <1>0, <2>1, Zenon DEF GoroutineValid
  <2>3. accInputHashes \in [0 .. MaxBatch -> Seq(Nat)]
    BY Zenon DEF HashInv, Types, TableTypes
  <2>4. MemoryValid(accInputHashes')
    BY <1>0, <2>1, <2>2, <2>3, Zenon DEF MemoryValid
  <2>. QED  BY <1>1, <2>1, <2>4, ValidGoto, Zenon
<1>. QED  BY <1>3, <1>4, <1>5, Zenon

\* A batch proof starts from the hash of the batch before; a failed one is deleted.
LEMMA ValidGenerate ==
    ASSUME HashInv, ValidInv, NEW p \in Provers,
           AddGeneratedProof(p) \/ GetWitnessFails(p) \/ buildInputProver(p)
              \/ BatchProofGenerated(p) \/ BatchProofFails(p)
    PROVE  ValidInv'
<1>0. /\ GoroutineOK(prv[p]) /\ prv[p] \in Goroutine /\ GoroutineValid(prv[p])
      /\ DOMAIN prv = Provers /\ MemoryValid(accInputHashes) /\ TableValid(proofs)
  BY ValidBefore, Zenon
<1>1. UNCHANGED <<l1Vars, snd, rb, restarts>> /\ MemoryValid(accInputHashes')
  BY <1>0, Zenon DEF others, memVars, AddGeneratedProof, GetWitnessFails, buildInputProver,
     BatchProofGenerated, BatchProofFails
<1>2. ASSUME prv' = [prv EXCEPT ![p] = Idle], TableValid(proofs')
      PROVE  ValidInv'
  <2>1. [Idle EXCEPT !.pc = "loop"] = Idle
    BY IdleType, Zenon DEF Goroutine
  <2>2. GoroutineValid(Idle)
    BY <2>1, IdleValid, Zenon
  <2>. QED  BY <1>1, <1>2, <2>2, ValidProver, Zenon
<1>3. CASE AddGeneratedProof(p)
  <2>. DEFINE b   == prv[p].batch
              row == [from |-> b, to |-> b, content |-> None, locked |-> TRUE]
              g   == [prv[p] EXCEPT !.pc = "input", !.proof = row]
  <2>1. /\ prv[p].pc = "witness"
        /\ \/ prv' = [prv EXCEPT ![p] = Idle] /\ proofs' = proofs
           \/ prv' = [prv EXCEPT ![p] = g] /\ proofs' = proofs \cup {row}
    BY <1>3, Zenon DEF AddGeneratedProof, Become
  <2>2. row.content = None /\ row.from = b /\ row.to = b
    BY Zenon
  <2>. HIDE DEF row
  <2>3. /\ g.pc = "input" /\ g.inHand = prv[p].inHand /\ g.batch = b /\ g.data = prv[p].data
        /\ g.proof = row
    BY <1>0, Zenon DEF Goroutine
  <2>. HIDE DEF g
  <2>4. GoroutineValid(g)
    <3>1. b <= Len(virtual) /\ prv[p].data = virtual[b] /\ prv[p].inHand = FALSE
      BY <1>0, <2>1, ZenonT(30) DEF GoroutineOK, GoroutineValid, Goroutine
    <3>. QED  BY <2>2, <2>3, <3>1, ZenonT(30) DEF GoroutineValid, Holding
  <2>5. TableValid(proofs) /\ TableValid(proofs \cup {row})
    BY <1>0, <2>2, ValidTables, Zenon
  <2>. QED  BY <1>1, <1>2, <2>1, <2>4, <2>5, ValidProver, Zenon
<1>4. CASE GetWitnessFails(p)
  BY <1>0, <1>1, <1>4, ValidGoto, Zenon DEF GetWitnessFails, Goto, dbVars
<1>5. CASE buildInputProver(p)
  <2>0. prv[p].pc = "input"
    BY <1>5, Zenon DEF buildInputProver
  <2>1. CASE MissingHash(prv[p].batch - 1)
    <3>1. /\ prv' = [prv EXCEPT ![p] = Idle]
          /\ proofs' = DeleteGeneratedProofs(proofs, prv[p].batch, prv[p].batch)
      BY <1>5, <2>1, Zenon DEF buildInputProver, Become
    <3>. QED  BY <1>0, <1>2, <3>1, ValidTables, Zenon
  <2>2. CASE ~MissingHash(prv[p].batch - 1)
    <3>. DEFINE c == BatchProof(accInputHashes[prv[p].batch - 1], prv[p].data)
                g == [prv[p] EXCEPT !.pc = "proving", !.proof.content = c]
    <3>1. prv' = [prv EXCEPT ![p] = g] /\ TableValid(proofs')
      BY <1>0, <1>5, <2>2, Zenon DEF buildInputProver, Become
    <3>2. /\ prv[p].batch \in Batch /\ prv[p].batch <= Len(virtual) /\ prv[p].proof \in Rows
          /\ prv[p].data = virtual[prv[p].batch] /\ prv[p].inHand = FALSE
          /\ prv[p].proof.from = prv[p].batch /\ prv[p].proof.to = prv[p].batch
      BY <1>0, <2>0, ZenonT(30) DEF GoroutineOK, GoroutineValid, Goroutine
    <3>3. c = [old |-> AccInputHash(prv[p].batch - 1), new |-> AccInputHash(prv[p].batch)]
      BY <2>2, <3>2, NextHash, Zenon DEF BatchProof
    <3>. HIDE DEF c
    <3>4. PICK r : r = [prv[p].proof EXCEPT !.content = c]
      BY Zenon
    <3>5. r.from = prv[p].batch /\ r.to = prv[p].batch /\ r.content = c
      BY <3>2, <3>4, Zenon DEF Rows
    <3>6. g.pc = "proving" /\ g.inHand = FALSE /\ g.proof = r
      BY <1>0, <3>2, <3>4, Zenon DEF Goroutine
    <3>. HIDE DEF g
    <3>7. Valid(r)
      <4>1. prv[p].batch <= prv[p].batch
        BY <3>2, SequenceTypes DEF Batch
      <4>2. r.content = [old |-> AccInputHash(r.from - 1), new |-> AccInputHash(r.to)]
        BY <3>3, <3>5, Zenon
      <4>. QED  BY <3>2, <3>5, <4>1, <4>2, Zenon DEF Valid
    <3>8. GoroutineValid(g)
      BY <3>6, <3>7, Zenon DEF GoroutineValid, Holding
    <3>. QED  BY <1>1, <3>1, <3>8, ValidProver, Zenon
  <2>. QED  BY <2>1, <2>2, Zenon
<1>6. CASE BatchProofGenerated(p)
  <2>0. prv[p].pc = "proving" /\ TableValid(proofs') /\ Valid(prv[p].proof) /\ prv[p].inHand = FALSE
    BY <1>0, <1>6, Zenon DEF BatchProofGenerated, dbVars, GoroutineValid, GoroutineOK, Goroutine
  <2>1. ASSUME NEW g, prv' = [prv EXCEPT ![p] = g],
               g = [prv[p] EXCEPT !.pc = "halted"]
                 \/ g = [Idle EXCEPT !.pc = "check", !.inHand = TRUE, !.proof = prv[p].proof]
        PROVE  ValidInv'
    <3>1. \/ g.pc = "halted" /\ g.inHand = FALSE
          \/ g.pc = "check" /\ g.proof = prv[p].proof
      BY <1>0, <2>0, <2>1, IdleType, Zenon DEF Goroutine
    <3>2. GoroutineValid(g)
      BY <2>0, <3>1, Zenon DEF GoroutineValid, Holding
    <3>. QED  BY <1>1, <2>0, <2>1, <3>2, ValidProver, Zenon
  <2>. QED  BY <1>6, <2>1, Zenon DEF BatchProofGenerated, Become
<1>7. CASE BatchProofFails(p)
  BY <1>0, <1>2, <1>7, ValidTables, Zenon DEF BatchProofFails, Become
<1>. QED  BY <1>3, <1>4, <1>5, <1>6, <1>7, Zenon

\* sendFinalProof gets a valid proof.
LEMMA ValidSend == ASSUME HashInv, ValidInv, NEW p \in Provers, SendFinalProof(p) PROVE ValidInv'
<1>0. /\ GoroutineOK(prv[p]) /\ GoroutineValid(prv[p])
      /\ DOMAIN prv = Provers /\ MemoryValid(accInputHashes) /\ TableValid(proofs)
  BY ValidBefore, Zenon
<1>1. /\ prv[p].pc = "send" /\ snd.pc = "wait"
      /\ snd' = [pc |-> "received", proof |-> prv[p].proof]
      /\ UNCHANGED <<backend, virtual, verified, pending, failed, proofs, accInputHashes, rb, restarts>>
  BY Zenon DEF SendFinalProof, l1Vars, dbVars, memVars, boundVars
<1>2. Valid(snd'.proof) /\ snd'.pc = "received"
  BY <1>0, <1>1, Zenon DEF GoroutineValid, Holding
<1>3. PICK pc \in {"loop", "aggregate"} : prv' = [prv EXCEPT ![p] = [Idle EXCEPT !.pc = pc]]
  BY Zenon DEF SendFinalProof, Become, Idle
<1>4. \A q \in Provers : GoroutineValid(prv'[q])
  <2>1. PICK g : g = [Idle EXCEPT !.pc = pc] /\ GoroutineValid(g)
    BY IdleValid, Zenon
  <2>2. \A q \in Provers : prv'[q] = g \/ prv'[q] = prv[q]
    BY <1>0, <1>3, <2>1, Zenon
  <2>. QED  BY <2>1, <2>2, Zenon DEF ValidInv
<1>5. SettledOnce'
  BY <1>1, <1>2, Zenon DEF ValidInv, SettledOnce
<1>. QED  BY <1>0, <1>1, <1>2, <1>4, <1>5, ValidKept, Zenon DEF ValidInv

-----------------------------------------------------------------------------
(* The steps of the others keep the proofs valid                           *)

\* sendFinalProof sends no transaction while one of it is pending.
LEMMA ValidSender == ASSUME HashInv, ValidInv, Sender PROVE ValidInv'
<1>0. /\ MemoryValid(accInputHashes) /\ TableValid(proofs) /\ \A k \in pending : Valid(k)
      /\ snd.pc # "wait" => Valid(snd.proof) /\ snd.proof \in Generated
      /\ \A q \in Provers : GoroutineValid(prv[q])
      /\ SettledOnce /\ SenderTypes /\ rb.pc = "none" /\ restarts \in Nat
  BY Zenon DEF ValidInv, HashInv, Types, SenderTypes
<1>1. /\ UNCHANGED <<backend, virtual, verified, failed, prv, rb, restarts>> /\ snd.pc # "wait"
  BY Zenon DEF Sender, outside, startProofVerification, GetFinalBatchFails, settleDirect,
         settleWithAggLayer, WaitTxToBeMined, handleFailureToAddVerifyBatchToBeMonitored,
         handleMonitoredTxResult
<1>2. \A k : Accepts(k)' <=> Accepts(k)
  BY <1>1, Zenon DEF Accepts, AccInputHash
<1>3. ASSUME MemoryValid(accInputHashes'), TableValid(proofs'), \A k \in pending' : Valid(k),
             snd'.pc = "wait" \/ snd'.proof = snd.proof, SettledOnce'
      PROVE  ValidInv'
  BY <1>0, <1>1, <1>3, ValidKept, Zenon
<1>4. ASSUME NEW pc \in {"batch", "mining", "process"}, snd' = [snd EXCEPT !.pc = pc]
      PROVE  snd'.pc = pc /\ snd'.proof = snd.proof
  BY <1>0, <1>4, Zenon DEF SenderTypes
<1>5. ASSUME snd' = Waiting, pending' = pending, snd.pc # "process" PROVE SettledOnce'
  <2>1. snd'.pc = "wait"
    BY <1>5, WaitingType, Zenon
  <2>. QED  BY <1>0, <1>1, <1>5, <2>1, Zenon DEF SettledOnce
<1>6. CASE startProofVerification
  <2>1. /\ snd.pc = "received" /\ snd'.pc = "batch" /\ snd'.proof = snd.proof
        /\ UNCHANGED <<pending, proofs, accInputHashes>>
    BY <1>4, <1>6, Zenon DEF startProofVerification
  <2>2. SettledOnce'
    BY <1>0, <1>1, <2>1, Zenon DEF SettledOnce
  <2>. QED  BY <1>0, <1>3, <2>1, <2>2, Zenon
<1>7. CASE GetFinalBatchFails
  BY <1>0, <1>3, <1>5, <1>7, WaitingType, Zenon DEF GetFinalBatchFails
<1>8. CASE settleDirect
  <2>1. /\ snd.pc = "batch" /\ backend = "l1" /\ Accepts(snd.proof)
        /\ snd'.pc = "process" /\ snd'.proof = snd.proof /\ pending' = pending \cup {snd.proof}
        /\ UNCHANGED <<proofs, accInputHashes>>
    BY <1>4, <1>8, Zenon DEF settleDirect
  <2>2. PICK k : k = snd.proof /\ Accepts(k)' /\ Valid(k)
    BY <1>0, <1>2, <2>1, Zenon
  <2>3. restarts = 0 => pending' = {k}
    BY <1>0, <2>1, <2>2, Zenon DEF SettledOnce
  <2>4. SettledOnce'
    BY <1>0, <1>1, <2>1, <2>2, <2>3, ZenonT(30) DEF SettledOnce
  <2>. QED  BY <1>0, <1>3, <2>1, <2>2, <2>4, Zenon
<1>9. CASE settleWithAggLayer
  <2>1. /\ backend = "agglayer"
        /\ snd'.pc = "mining" /\ snd'.proof = snd.proof /\ pending' = pending \cup {snd.proof}
        /\ UNCHANGED <<proofs, accInputHashes>>
    BY <1>4, <1>9, Zenon DEF settleWithAggLayer
  <2>2. SettledOnce'
    BY <1>0, <1>1, <2>1, Zenon DEF SettledOnce
  <2>3. \A k \in pending' : Valid(k)
    BY <1>0, <1>1, <2>1, Zenon
  <2>. QED  BY <1>0, <1>3, <2>1, <2>2, <2>3, Zenon
<1>10. CASE WaitTxToBeMined
  BY <1>0, <1>3, <1>5, <1>10, WaitingType, Zenon DEF WaitTxToBeMined
<1>11. CASE handleFailureToAddVerifyBatchToBeMonitored
  <2>1. /\ snd.pc # "process" /\ snd' = Waiting /\ UNCHANGED <<pending, accInputHashes>>
        /\ proofs' = UpdateGeneratedProof(proofs, Unlock(snd.proof))
    BY <1>11, Zenon DEF handleFailureToAddVerifyBatchToBeMonitored
  <2>2. TableValid(proofs')
    BY <1>0, <1>1, <2>1, ValidTables, ZenonT(30)
  <2>. QED  BY <1>0, <1>3, <1>5, <2>1, <2>2, WaitingType, Zenon
<1>12. CASE handleMonitoredTxResult
  <2>1. /\ snd' = Waiting /\ snd'.pc = "wait" /\ pending = {} /\ pending' = {}
        /\ proofs' = DeleteGeneratedProofs(proofs, snd.proof.from, snd.proof.to)
        /\ \A b \in 0 .. MaxBatch : accInputHashes'[b] \in {<< >>, accInputHashes[b]}
    BY <1>12, WaitingType, Zenon DEF handleMonitoredTxResult
  <2>2. TableValid(proofs') /\ MemoryValid(accInputHashes')
    BY <1>0, <2>1, ValidTables, Zenon DEF MemoryValid
  <2>3. SettledOnce'
    BY <1>0, <1>1, <2>1, ZenonT(30) DEF SettledOnce
  <2>. QED  BY <1>3, <2>1, <2>2, <2>3, Zenon
<1>. QED  BY <1>6, <1>7, <1>8, <1>9, <1>10, <1>11, <1>12, Zenon DEF Sender

\* A transaction that was sent once is accepted when it is mined.
LEMMA ValidMine == ASSUME HashInv, ValidInv, NEW k \in pending, MineVerification(k) PROVE ValidInv'
<1>1. /\ UNCHANGED <<backend, virtual, proofs, accInputHashes, prv, snd, rb, restarts>>
      /\ pending' = pending \ {k}
      /\ IF Accepts(k) THEN verified' = k.to /\ UNCHANGED failed
                       ELSE failed' = (failed \/ backend = "l1") /\ UNCHANGED verified
  BY Zenon DEF MineVerification, dbVars, memVars, boundVars
<1>2. SettledOnce'
  <2>1. CASE restarts = 0 /\ backend = "l1"
    <3>1. ~failed /\ snd.pc = "process" /\ k = snd.proof /\ Accepts(k) /\ pending' = {}
      BY <1>1, <2>1, Zenon DEF ValidInv, SettledOnce
    <3>2. verified' = snd.proof.to /\ snd.proof.to <= snd.proof.to /\ UNCHANGED failed
      <4>1. k \in Generated /\ k.to \in Nat
        BY SequenceTypes DEF HashInv, Types, L1Types, Generated, Batch
      <4>. QED  BY <1>1, <3>1, <4>1
    <3>. QED  BY <1>1, <2>1, <3>1, <3>2, ZenonT(30) DEF SettledOnce
  <2>2. CASE restarts = 0 /\ backend # "l1"
    BY <1>1, <2>2, Zenon DEF ValidInv, SettledOnce
  <2>3. CASE restarts # 0
    BY <1>1, <2>3, Zenon DEF SettledOnce
  <2>. QED  BY <2>1, <2>2, <2>3, Zenon
<1>. QED  BY <1>1, <1>2, ValidKept, Zenon DEF ValidInv

\* Sequenced batches are appended to what L1 has.
LEMMA BatchesAppended ==
    ASSUME HashInv, Sequence
    PROVE  /\ virtual' \in Seq(Nat) /\ Len(virtual') \in Nat /\ Len(virtual) <= Len(virtual')
           /\ \A i \in 1 .. Len(virtual) : virtual'[i] = virtual[i]
<1>0. /\ virtual \in Seq(Nat) /\ Len(virtual) \in Nat /\ Len(virtual) \in Boundaries
      /\ rollbacks + reorgs \in Nat
  BY Lengths DEF HashInv, Types, L1Types
<1>1. PICK s : s = SequenceOf(Len(virtual) + 1)
  BY Zenon
<1>2. s[1] = Len(virtual) + 1 /\ s[2] \in Nat /\ Len(virtual) < s[2]
  BY <1>0, <1>1, NextSequence, Zenon DEF Sequence
<1>3. PICK v \in Nat : v = rollbacks + reorgs
  BY <1>0, Zenon
<1>4. PICK n \in Nat : n = s[2] - s[1] + 1
  BY <1>0, <1>2
<1>5. PICK t \in Seq(Nat) : t = [i \in 1 .. n |-> v]
  <2>1. [i \in 1 .. n |-> v] \in Seq(Nat)
    OBVIOUS
  <2>. QED  BY <2>1, Zenon
<1>6. virtual' = virtual \o t
  BY <1>1, <1>3, <1>4, <1>5, Zenon DEF Sequence
<1>7. /\ virtual \o t \in Seq(Nat) /\ Len(virtual \o t) = Len(virtual) + Len(t) /\ Len(t) \in Nat
      /\ \A i \in 1 .. Len(virtual) : (virtual \o t)[i] = virtual[i]
  BY <1>0, JoinedSequence
<1>. QED  BY <1>0, <1>6, <1>7

\* The hashes of the batches that L1 has stay as they are.
LEMMA HashesStay ==
    ASSUME HashInv, Sequence, NEW b \in 0 .. Len(virtual)
    PROVE  AccInputHash(b)' = AccInputHash(b) /\ b <= Len(virtual')
<1>0. virtual \in Seq(Nat) /\ Len(virtual) \in Nat /\ b \in Nat /\ b <= Len(virtual)
  BY Lengths
<1>1. /\ virtual' \in Seq(Nat) /\ Len(virtual') \in Nat /\ b <= Len(virtual')
      /\ \A i \in 1 .. Len(virtual) : virtual'[i] = virtual[i]
  BY <1>0, BatchesAppended
<1>2. \A i \in 1 .. b : virtual'[i] = virtual[i]
  BY <1>0, <1>1
<1>3. SubSeq(virtual, 1, b) = [i \in 1 .. b |-> virtual[i]]
  BY <1>0
<1>4. SubSeq(virtual', 1, b) = [i \in 1 .. b |-> virtual'[i]]
  BY <1>0, <1>1
<1>. QED  BY <1>1, <1>2, <1>3, <1>4, Zenon DEF AccInputHash

\* New batches leave the proofs of the earlier ones valid.
LEMMA ValidSequence == ASSUME HashInv, ValidInv, Sequence PROVE ValidInv'
<1>0. virtual \in Seq(Nat) /\ Len(virtual) \in Nat /\ MaxBatch \in Nat /\ Len(virtual') \in Nat
  BY Lengths, BatchesAppended, Zenon
<1>1. UNCHANGED <<backend, verified, pending, failed, proofs, accInputHashes, prv, snd, rb, restarts>>
  BY Zenon DEF Sequence, dbVars, memVars, boundVars
<1>2. ASSUME NEW k \in Generated, Valid(k) PROVE Valid(k)'
  <2>1. k.to \in 0 .. Len(virtual) /\ k.from - 1 \in 0 .. Len(virtual)
    BY <1>0, <1>2 DEF Generated, Batch, Valid
  <2>2. /\ AccInputHash(k.to)' = AccInputHash(k.to) /\ k.to <= Len(virtual')
        /\ AccInputHash(k.from - 1)' = AccInputHash(k.from - 1)
    BY <2>1, HashesStay, Zenon
  <2>. QED  BY <1>2, <2>2, Zenon DEF Valid
<1>3. MemoryValid(accInputHashes)'
  <2>1. ASSUME NEW n \in 0 .. MaxBatch, accInputHashes[n] # << >>
        PROVE  n <= Len(virtual') /\ accInputHashes[n] = AccInputHash(n)'
    <3>1. n <= Len(virtual) /\ accInputHashes[n] = AccInputHash(n)
      BY <2>1, Zenon DEF ValidInv, MemoryValid
    <3>2. n \in 0 .. Len(virtual)
      BY <1>0, <3>1
    <3>. QED  BY <3>1, <3>2, HashesStay, Zenon
  <2>. QED  BY <1>1, <2>1, Zenon DEF MemoryValid
<1>4. TableValid(proofs)'
  <2>1. \A r \in proofs : r.content # None => r \in Generated /\ Valid(r)
    BY RowFacts, Zenon DEF ValidInv, TableValid, HashInv, Types, TableTypes
  <2>. QED  BY <1>1, <1>2, <2>1, Zenon DEF TableValid
<1>5. (\A k \in pending : Valid(k))'
  BY <1>1, <1>2, Zenon DEF ValidInv, HashInv, Types, L1Types
<1>6. (snd.pc # "wait" => Valid(snd.proof))'
  <2>1. PICK k : k = snd.proof
    BY Zenon
  <2>2. snd.pc # "wait" => Valid(k)'
    BY <1>2, <2>1, Zenon DEF ValidInv, HashInv, Types, SenderTypes
  <2>. QED  BY <1>1, <2>1, <2>2, Zenon DEF Valid
<1>7. ASSUME NEW p \in Provers PROVE GoroutineValid(prv[p])'
  <2>0. PICK g : g = prv[p] /\ g = prv'[p] /\ GoroutineOK(g) /\ GoroutineValid(g)
    BY <1>1, ValidBefore, Zenon
  <2>1. /\ Holding(g) \/ g.pc = "proving" => Valid(g.proof)'
        /\ g.pc = "aggregating" => Valid(g.proof)' /\ Valid(g.other)'
    BY <1>2, <2>0, Zenon DEF GoroutineOK, GoroutineValid
  <2>2. ASSUME g.pc \in {"hash", "set", "witness", "input"}
        PROVE  /\ g.batch <= Len(virtual') /\ g.data = virtual'[g.batch]
               /\ g.pc = "set" => g.acc = AccInputHash(g.batch)'
    <3>1. /\ g.batch \in Batch /\ g.batch <= Len(virtual) /\ g.data = virtual[g.batch]
          /\ g.pc = "set" => g.acc = AccInputHash(g.batch)
      BY <2>0, <2>2, Zenon DEF GoroutineOK, GoroutineValid
    <3>2. g.batch \in 0 .. Len(virtual) /\ g.batch \in 1 .. Len(virtual)
      BY <1>0, <3>1 DEF Batch
    <3>3. virtual'[g.batch] = virtual[g.batch]
      BY <3>2, BatchesAppended, Zenon
    <3>. QED  BY <3>1, <3>2, <3>3, HashesStay, Zenon
  <2>3. GoroutineValid(g)'
    BY <2>0, <2>1, <2>2, ZenonT(30) DEF GoroutineValid, Holding
  <2>. QED  BY <2>0, <2>3, Zenon DEF GoroutineValid, Holding, Valid
<1>8. SettledOnce'
  <2>1. ASSUME NEW k \in pending, Accepts(k) PROVE Accepts(k)'
    <3>1. k \in Generated /\ Valid(k)
      BY Zenon DEF ValidInv, HashInv, Types, L1Types
    <3>2. Valid(k)'
      BY <1>2, <3>1, Zenon
    <3>. QED  BY <1>1, <2>1, <3>2, Zenon DEF Accepts, Valid
  <2>. QED  BY <1>1, <2>1, ZenonT(30) DEF ValidInv, SettledOnce
<1>. QED  BY <1>1, <1>3, <1>4, <1>5, <1>6, <1>7, <1>8, Zenon DEF ValidInv

\* Start deletes proofs and hashes, and reads the hash of the verified batch from L1.
LEMMA ValidStart == ASSUME HashInv, ValidInv, Start PROVE ValidInv'
<1>1. /\ UNCHANGED <<virtual, verified, pending>> /\ snd' = Waiting /\ rb' = NoCallback
      /\ restarts' = restarts + 1 /\ prv' = [p \in Provers |-> Idle]
      /\ proofs' = DeleteGeneratedProofs(proofs, verified, MaxBatch)
      /\ accInputHashes' = [b \in 0 .. MaxBatch |->
                               IF b = verified THEN AccInputHash(b) ELSE << >>]
  BY Zenon DEF Start, l1Vars
<1>2. restarts' \in Nat /\ restarts' # 0 /\ rb'.pc = "none" /\ snd'.pc = "wait"
  BY <1>1, WaitingType DEF ValidInv, NoCallback
<1>3. TableValid(proofs')
  BY <1>1, ValidTables, Zenon DEF ValidInv
<1>4. MemoryValid(accInputHashes')
  BY <1>1, Lengths, Zenon DEF MemoryValid
<1>5. \A p \in Provers : GoroutineValid(prv'[p])
  <2>1. GoroutineValid([Idle EXCEPT !.pc = "loop"]) /\ [Idle EXCEPT !.pc = "loop"] = Idle
    BY IdleValid, IdleType, Zenon DEF Goroutine
  <2>. QED  BY <1>1, <2>1, Zenon
<1>6. SettledOnce'
  BY <1>2, Zenon DEF SettledOnce
<1>. QED  BY <1>1, <1>2, <1>3, <1>4, <1>5, <1>6, ValidKept, ZenonT(30) DEF ValidInv

\* A lock that expires takes a row away.
LEMMA ValidCleanup ==
    ASSUME HashInv, ValidInv, NEW r \in proofs, CleanupLockedProofs(r) PROVE ValidInv'
<1>1. /\ UNCHANGED <<backend, virtual, verified, pending, failed, accInputHashes, prv, snd, rb, restarts>>
      /\ proofs' = proofs \ {r}
  BY Zenon DEF CleanupLockedProofs, l1Vars, memVars
<1>2. TableValid(proofs')
  BY <1>1, Zenon DEF ValidInv, TableValid
<1>3. SettledOnce'
  BY <1>1, Zenon DEF ValidInv, SettledOnce, Accepts, AccInputHash
<1>. QED  BY <1>1, <1>2, <1>3, ValidKept, Zenon DEF ValidInv

\* Nothing is proved in the beginning.
LEMMA InitValid == Init => ValidInv
<1>1. SUFFICES ASSUME Init PROVE ValidInv
  BY Zenon
<1>2. rb.pc = "none" /\ restarts \in Nat /\ snd.pc = "wait" /\ pending = {} /\ proofs = {}
  BY <1>1, WaitingType, Zenon DEF Init, NoCallback
<1>3. MemoryValid(accInputHashes) /\ TableValid(proofs)
  BY <1>1, <1>2, Zenon DEF Init, MemoryValid, TableValid
<1>4. \A p \in Provers : GoroutineValid(prv[p])
  <2>1. GoroutineValid([Idle EXCEPT !.pc = "loop"]) /\ [Idle EXCEPT !.pc = "loop"] = Idle
    BY IdleValid, IdleType, Zenon DEF Goroutine
  <2>. QED  BY <1>1, <2>1, Zenon DEF Init
<1>5. SettledOnce
  BY <1>1, <1>2, Zenon DEF SettledOnce, Init
<1>. QED  BY <1>2, <1>3, <1>4, <1>5, Zenon DEF ValidInv

\* Every step keeps the proofs valid, as long as L1 takes back no batch.
LEMMA StepValid ==
    ASSUME MaxRollbacks = 0, MaxReorgs = 0, HashInv, ValidInv, [Next]_vars PROVE ValidInv'
<1>1. CASE UNCHANGED vars
  <2>1. UNCHANGED <<backend, virtual, verified, pending, failed, proofs, accInputHashes, prv, snd, rb,
                    restarts>>
    BY <1>1, Zenon DEF vars, l1Vars, dbVars, memVars, boundVars
  <2>2. SettledOnce'
    BY <2>1, Zenon DEF ValidInv, SettledOnce, Accepts, AccInputHash
  <2>. QED  BY <2>1, <2>2, ValidKept, Zenon DEF ValidInv
<1>2. CASE L1
  BY <1>2, ValidSequence, ValidMine, Zenon DEF L1
<1>3. CASE Sender
  BY <1>3, ValidSender, Zenon
<1>4. CASE Callback
  BY <1>4, NoCallbacks, Zenon
<1>5. CASE Start
  BY <1>5, ValidStart, Zenon
<1>6. CASE \E r \in proofs : CleanupLockedProofs(r)
  BY <1>6, ValidCleanup, Zenon
<1>7. ASSUME NEW p \in Provers, Prover(p) PROVE ValidInv'
  <2>1. CASE Channel(p)
    <3>1. prv' = [prv EXCEPT ![p] = [Idle EXCEPT !.pc = "check"]]
          /\ UNCHANGED <<l1Vars, snd, rb, restarts, proofs, accInputHashes>>
      BY <2>1, Zenon DEF Channel, Become, others, dbVars
    <3>2. MemoryValid(accInputHashes') /\ TableValid(proofs')
      BY <3>1, Zenon DEF ValidInv
    <3>3. GoroutineValid([Idle EXCEPT !.pc = "check"])
      BY IdleValid, Zenon
    <3>. QED  BY <3>1, <3>2, <3>3, ValidProver, Zenon
  <2>2. CASE FinalProofStep(p)
    BY <2>2, ValidFinalProof, ValidSend, Zenon
  <2>3. CASE AggregateStep(p)
    BY <2>3, ValidAggregate, Zenon
  <2>4. CASE BatchStep(p)
    BY <2>4, ValidPick, ValidGenerate, Zenon DEF BatchStep
  <2>. QED  BY <1>7, <2>1, <2>2, <2>3, <2>4, Zenon DEF Prover
<1>. QED  BY <1>1, <1>2, <1>3, <1>4, <1>5, <1>6, <1>7, Zenon DEF Next
=============================================================================
