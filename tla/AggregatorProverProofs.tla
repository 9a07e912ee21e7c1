----------------------- MODULE AggregatorProverProofs -----------------------
(***************************************************************************)
(* Proofs about the goroutines of the provers of Aggregator: every step of *)
(* tryBuildFinalProof, tryAggregateProofs and tryGenerateBatchProof keeps  *)
(* HashInv, the invariant of the accumulated input hashes, for any provers *)
(* and sequences and any bounds.  AggregatorProofs has the steps of the    *)
(* others and what follows from the invariant.                             *)
(*                                                                         *)
(* The argument: data on L1 only gets newer, so a hash in memory that      *)
(* agrees with L1 up to its last batch was made after every change of L1   *)
(* that it depends on, and the hashes it was made of agree with L1 too.    *)
(***************************************************************************)
EXTENDS Aggregator, WellFoundedInduction, TLAPS

(* The state of the goroutines                                             *)

Contents == [old : Seq(Nat), new : Seq(Nat)]

Rows == [from : Batch, to : Batch, content : Contents \cup {None}, locked : BOOLEAN]

\* A proof that a prover has generated.
Generated == [from : Batch, to : Batch, content : Contents, locked : BOOLEAN]

\* The parts of getAndLockBatchToProve that hold stateDBMutex.
Section == {"hash", "set", "witness", "stuck"}

ProverPC ==
    Section \cup {"loop", "check", "ready", "lock", "validate", "build", "send", "store",
                  "aggregate", "aggregating", "pick", "input", "proving", "halted"}

Goroutine == [pc : ProverPC, inHand : BOOLEAN, proof : Rows \cup {None}, other : Rows \cup {None},
              last : Nat, batch : 0 .. MaxBatch, data : Nat, acc : Seq(Nat)]

\* tryBuildFinalProof has a proof, from the table or in hand.
Holding(g) == g.inHand \/ g.pc \in {"build", "send", "validate", "store"}

GoroutineOK(g) ==
    /\ g \in Goroutine
    /\ g.inHand => g.pc \in {"check", "ready", "validate", "build", "send", "store"}
    /\ g.pc \in {"validate", "store"} => g.inHand
    /\ Holding(g) => g.proof \in Generated
    /\ g.pc = "aggregating" => g.proof \in Generated /\ g.other \in Generated
    /\ g.pc = "input" => g.proof \in Rows
    /\ g.pc = "proving" => g.proof \in Generated
    /\ g.pc \in {"hash", "set", "witness", "input", "proving"} => g.batch \in Batch

L1Types ==
    /\ virtual \in Seq(Nat) /\ Len(virtual) \in Boundaries /\ verified \in 0 .. Len(virtual)
    /\ pending \subseteq Generated
    /\ rollbacks \in Nat /\ reorgs \in Nat

TableTypes ==
    /\ proofs \subseteq Rows /\ \A r \in proofs : ~r.locked => r.content # None
    /\ accInputHashes \in [0 .. MaxBatch -> Seq(Nat)]

ProverTypes ==
    /\ DOMAIN prv = Provers /\ \A p \in Provers : GoroutineOK(prv[p])
    /\ \A p \in Provers : prv[p].pc \in Section <=> stateDBMutex = p

SenderTypes ==
    /\ snd \in [pc : {"wait", "received", "batch", "process", "mining"}, proof : Generated \cup {None}]
    /\ snd.pc # "wait" => snd.proof \in Generated
    /\ rb \in [pc : {"none", "hashes", "ungenerated", "generated"}, last : Nat, reorg : BOOLEAN]

Types == L1Types /\ TableTypes /\ ProverTypes /\ SenderTypes

-----------------------------------------------------------------------------
(* The accumulated input hashes                                            *)

version == rollbacks + reorgs

\* The hashes that the proofs somebody has end in: those of the table, those in
\* hand, and those on their way to L1.
HeldNew(g) ==
    (IF Holding(g) \/ g.pc = "aggregating" THEN {g.proof.content.new} ELSE {})
        \cup (IF g.pc = "aggregating" THEN {g.other.content.new} ELSE {})

ProvenHashes ==
    {r.content.new : r \in {q \in proofs : q.content # None} \cup pending}
        \cup (IF snd.pc # "wait" THEN {snd.proof.content.new} ELSE {})
        \cup UNION {HeldNew(prv[p]) : p \in Provers}

\* The hashes that were stored in accInputHashes once: the sanity check after
\* BatchProof lets no other into a proof.
Seen ==
    {SubSeq(virtual, 1, verified)} \cup {accInputHashes[n] : n \in 0 .. MaxBatch} \cup ProvenHashes
        \cup {prv[p].acc : p \in {q \in Provers : prv[q].pc \in {"witness", "input", "proving"}}}

\* A hash was made of data that is not newer than what L1 has for the batches.
NotNewer(h) ==
    /\ h \in Seq(Nat)
    /\ \A i \in 1 .. Len(h) :
          IF i <= Len(virtual) THEN h[i] <= virtual[i] ELSE h[i] < version

\* h agrees with L1 on the batches up to m.
Matches(h, m) ==
    m <= Len(h) /\ m <= Len(virtual) /\ \A i \in 1 .. m : h[i] = virtual[i]

\* No hash below the ones that h went through contradicts L1 where h agrees with L1.
Supports(h, top) ==
    \A m \in 1 .. top : Matches(h, m) =>
       accInputHashes[m] = << >> \/ Matches(accInputHashes[m], m)

\* Whoever is about to store a hash read the batch after every hash that was stored
\* for that batch, and starts from the right one if any of these is right.
SectionOK(g) ==
    /\ g.pc \in {"hash", "set"} =>
          /\ IF g.batch <= Len(virtual) THEN g.data <= virtual[g.batch] ELSE g.data < version
          /\ \A h \in Seen : g.batch <= Len(h) => h[g.batch] <= g.data
    /\ g.pc = "set" =>
          /\ Len(g.acc) = g.batch /\ NotNewer(g.acc) /\ Supports(g.acc, g.batch - 1)
          /\ \A h \in Seen : Matches(h, g.batch) => Matches(g.acc, g.batch)

HashesOK ==
    /\ \A i \in 1 .. Len(virtual) : virtual[i] <= version
    /\ \A n \in 0 .. MaxBatch : Len(accInputHashes[n]) \in {0, n}
    /\ \A h \in Seen : NotNewer(h) /\ Supports(h, Len(h))
    /\ \A p \in Provers : SectionOK(prv[p])

HashInv == Types /\ HashesOK

-----------------------------------------------------------------------------
(* The proofs agree with L1                                                *)

\* A generated proof of batches of L1, with the hashes that L1 has for them.
Valid(k) ==
    /\ k.from <= k.to /\ k.to <= Len(virtual)
    /\ k.content = [old |-> AccInputHash(k.from - 1), new |-> AccInputHash(k.to)]

MemoryValid(hashes) ==
    \A n \in 0 .. MaxBatch : hashes[n] # << >> => n <= Len(virtual) /\ hashes[n] = AccInputHash(n)

TableValid(T) == \A r \in T : r.content # None => Valid(r)

GoroutineValid(g) ==
    /\ Holding(g) \/ g.pc = "proving" => Valid(g.proof)
    /\ g.pc = "aggregating" => Valid(g.proof) /\ Valid(g.other)
    /\ g.pc \in {"hash", "set", "witness", "input"} =>
          g.batch <= Len(virtual) /\ g.data = virtual[g.batch]
    /\ g.pc = "set" => g.acc = AccInputHash(g.batch)
    /\ g.pc = "input" => g.proof.from = g.batch /\ g.proof.to = g.batch

\* Before a restart the only transaction that settleDirect has sent is the one that
\* sendFinalProof waits for, and L1 is going to accept it or has accepted it.
SettledOnce ==
    restarts = 0 =>
       /\ ~failed
       /\ backend = "l1" => \A k \in pending : snd.pc = "process" /\ k = snd.proof /\ Accepts(k)
       /\ snd.pc = "process" => backend = "l1" /\ (pending = {} => snd.proof.to <= verified)

ValidInv ==
    /\ rb.pc = "none" /\ restarts \in Nat
    /\ MemoryValid(accInputHashes) /\ TableValid(proofs) /\ \A k \in pending : Valid(k)
    /\ snd.pc # "wait" => Valid(snd.proof)
    /\ \A p \in Provers : GoroutineValid(prv[p])
    /\ SettledOnce
-----------------------------------------------------------------------------
(* The sequences on L1                                                     *)

\* A nonempty set of batch numbers has a least element.
LEMMA LeastExists ==
    ASSUME NEW S \in SUBSET Nat, S # {}
    PROVE  \E x \in S : \A y \in S : x <= y
<1>1. PICK x \in S : \A y \in S : ~(<<y, x>> \in OpToRel(<, Nat))
  BY NatLessThanWellFounded, WFMin, Zenon
<1>2. \A y \in S : ~(y < x)
  BY <1>1, Zenon DEF OpToRel
<1>. QED  BY <1>2

\* The data of batches that are appended to others.
LEMMA JoinedSequence ==
    ASSUME NEW s \in Seq(Nat), NEW t \in Seq(Nat)
    PROVE  /\ s \o t \in Seq(Nat) /\ Len(s \o t) = Len(s) + Len(t)
           /\ \A i \in 1 .. Len(s) : (s \o t)[i] = s[i]
           /\ \A i \in 1 .. Len(t) : (s \o t)[Len(s) + i] = t[i]
  OBVIOUS

\* The bounds of a sequence are numbers.
LEMMA SequenceTypes ==
    /\ Len(L1Sequences) \in Nat \ {0} /\ DOMAIN L1Sequences = 1 .. Len(L1Sequences)
    /\ \A i \in 1 .. Len(L1Sequences) :
          /\ L1Sequences[i] \in Nat \X Nat
          /\ L1Sequences[i][1] \in Nat /\ L1Sequences[i][2] \in Nat
          /\ L1Sequences[i][1] <= L1Sequences[i][2]
          /\ i > 1 => L1Sequences[i][1] = L1Sequences[i - 1][2] + 1
    /\ MaxBatch \in Nat
<1>1. L1Sequences \in Seq(Nat \X Nat) /\ L1Sequences # << >>
  BY AggregatorAssumption, Zenon
<1>2. Len(L1Sequences) \in Nat \ {0} /\ DOMAIN L1Sequences = 1 .. Len(L1Sequences)
  BY <1>1
<1>3. \A i \in 1 .. Len(L1Sequences) : L1Sequences[i] \in Nat \X Nat
  BY <1>1, <1>2
<1>4. \A i \in 1 .. Len(L1Sequences) : L1Sequences[i][1] \in Nat /\ L1Sequences[i][2] \in Nat
  BY <1>3, Zenon
<1>5. \A i \in 1 .. Len(L1Sequences) : L1Sequences[i][1] <= L1Sequences[i][2]
  BY <1>2, AggregatorAssumption, Zenon
<1>6. \A i \in 1 .. Len(L1Sequences) : i > 1 => i \in 2 .. Len(L1Sequences)
  BY <1>2
<1>7. \A i \in 1 .. Len(L1Sequences) : i > 1 => L1Sequences[i][1] = L1Sequences[i - 1][2] + 1
  BY <1>6, AggregatorAssumption, Zenon
<1>. QED  BY <1>2, <1>3, <1>4, <1>5, <1>7 DEF MaxBatch

\* A sequence ends before any later one starts.
LEMMA SequencesInOrder ==
    ASSUME NEW i \in 1 .. Len(L1Sequences), NEW j \in 1 .. Len(L1Sequences), i < j
    PROVE  L1Sequences[i][2] < L1Sequences[j][1]
<1>. DEFINE C == {k \in 1 .. Len(L1Sequences) :
                     i < k /\ ~(L1Sequences[i][2] < L1Sequences[k][1])}
<1>1. SUFFICES ASSUME C # {} PROVE FALSE
  BY Zenon
<1>2. C \in SUBSET Nat
  BY SequenceTypes
<1>3. PICK k \in C : \A l \in C : k <= l
  BY <1>1, <1>2, LeastExists, Zenon
<1>4. k - 1 \in 1 .. Len(L1Sequences) /\ k - 1 \notin C /\ k > 1
  BY <1>3, SequenceTypes
<1>5. L1Sequences[k][1] = L1Sequences[k - 1][2] + 1
  BY <1>3, <1>4, SequenceTypes, Zenon
<1>6. CASE k - 1 = i
  BY <1>3, <1>5, <1>6, SequenceTypes
<1>7. CASE i < k - 1
  <2>1. L1Sequences[i][2] < L1Sequences[k - 1][1]
    BY <1>4, <1>7, Zenon
  <2>. QED  BY <1>3, <1>4, <1>5, <2>1, SequenceTypes, SMTT(30)
<1>8. k - 1 = i \/ i < k - 1
  BY <1>3, SequenceTypes
<1>. QED  BY <1>6, <1>7, <1>8, Zenon

\* The boundaries are batch numbers.
LEMMA BoundariesAreBatches == Boundaries \in SUBSET (0 .. MaxBatch)
<1>1. ASSUME NEW i \in 1 .. Len(L1Sequences) PROVE L1Sequences[i][2] \in 0 .. MaxBatch
  <2>1. CASE i = Len(L1Sequences)
    BY <2>1, SequenceTypes DEF MaxBatch
  <2>2. CASE i < Len(L1Sequences)
    BY <2>2, SequenceTypes, SequencesInOrder, SMTT(30) DEF MaxBatch
  <2>3. Len(L1Sequences) \in Nat
    BY SequenceTypes, Zenon
  <2>. QED  BY <2>1, <2>2, <2>3
<1>2. 0 \in 0 .. MaxBatch
  BY SequenceTypes
<1>. QED  BY <1>1, <1>2, SequenceTypes DEF Boundaries

\* The batch after the end of a sequence is the first one of the next sequence.
LEMMA NextSequence ==
    ASSUME NEW b \in Boundaries, b < MaxBatch
    PROVE  /\ SequenceOf(b + 1)[1] = b + 1 /\ SequenceOf(b + 1)[2] \in Nat
           /\ b < SequenceOf(b + 1)[2] /\ SequenceOf(b + 1)[2] \in Boundaries
<1>0. b \in Nat
  BY BoundariesAreBatches
<1>1. \E i \in 1 .. Len(L1Sequences) : L1Sequences[i][1] <= b + 1 /\ b + 1 <= L1Sequences[i][2]
  <2>1. CASE b = 0
    <3>1. 1 \in 1 .. Len(L1Sequences)
      BY SequenceTypes
    <3>2. L1Sequences[1][1] = 1
      BY AggregatorAssumption, Zenon
    <3>. QED  BY <2>1, <3>1, <3>2, SequenceTypes
  <2>2. ASSUME NEW i \in 1 .. Len(L1Sequences), b = L1Sequences[i][2]
        PROVE  L1Sequences[i + 1][1] <= b + 1 /\ b + 1 <= L1Sequences[i + 1][2]
               /\ i + 1 \in 1 .. Len(L1Sequences)
    <3>0. L1Sequences[Len(L1Sequences)][2] = MaxBatch /\ MaxBatch \in Nat /\ Len(L1Sequences) \in Nat
      BY SequenceTypes, Zenon DEF MaxBatch
    <3>1. i # Len(L1Sequences)
      BY <1>0, <2>2, <3>0
    <3>2. i + 1 \in 1 .. Len(L1Sequences) /\ i + 1 > 1 /\ (i + 1) - 1 = i
      BY <3>0, <3>1
    <3>3. L1Sequences[i + 1][1] = L1Sequences[i][2] + 1
      <4>1. L1Sequences[i + 1][1] = L1Sequences[(i + 1) - 1][2] + 1
        BY <3>2, SequenceTypes, Zenon
      <4>. QED  BY <3>2, <4>1, Zenon
    <3>. QED  BY <2>2, <3>2, <3>3, SequenceTypes
  <2>. QED  BY <2>1, <2>2, SequenceTypes, Zenon DEF Boundaries
<1>2. \E s \in AllSequences : s[1] <= b + 1 /\ b + 1 <= s[2]
  BY <1>1, SequenceTypes, Zenon DEF AllSequences
<1>3. PICK s \in AllSequences : s = SequenceOf(b + 1) /\ s[1] <= b + 1 /\ b + 1 <= s[2]
  BY <1>2, Zenon DEF SequenceOf
<1>4. PICK j \in 1 .. Len(L1Sequences) : s = L1Sequences[j]
  BY <1>3, SequenceTypes, Zenon DEF AllSequences
<1>5. s[1] \in Nat /\ s[2] \in Nat /\ s[2] \in Boundaries
  BY <1>4, SequenceTypes, Zenon DEF Boundaries
<1>6. b + 1 <= s[1]
  <2>1. CASE b = 0
    <3>1. j = 1 \/ L1Sequences[1][2] < L1Sequences[j][1]
      BY SequencesInOrder, SequenceTypes
    <3>2. L1Sequences[1][1] = 1 /\ 1 \in 1 .. Len(L1Sequences)
      BY AggregatorAssumption, SequenceTypes
    <3>. QED  BY <1>4, <2>1, <3>1, <3>2, SequenceTypes
  <2>2. ASSUME NEW i \in 1 .. Len(L1Sequences), b = L1Sequences[i][2] PROVE b + 1 <= s[1]
    <3>1. CASE j = i
      BY <1>0, <1>3, <1>4, <2>2, <3>1
    <3>2. CASE j < i
      <4>1. L1Sequences[j][2] < L1Sequences[i][1]
        BY <3>2, SequencesInOrder, Zenon
      <4>. QED  BY <1>0, <1>3, <1>4, <2>2, <4>1, SequenceTypes
    <3>3. CASE i < j
      <4>1. L1Sequences[i][2] < L1Sequences[j][1]
        BY <3>3, SequencesInOrder, Zenon
      <4>. QED  BY <1>0, <1>4, <1>5, <2>2, <4>1
    <3>. QED  BY <3>1, <3>2, <3>3, SequenceTypes
  <2>. QED  BY <2>1, <2>2, SequenceTypes, Zenon DEF Boundaries
<1>. QED  BY <1>0, <1>3, <1>5, <1>6
-----------------------------------------------------------------------------
(* What a step keeps                                                       *)

\* A row with a content is a proof that was generated.
LEMMA RowFacts ==
    /\ \A r \in Rows : r.content # None => r \in Generated
    /\ \A r \in Generated : r \in Rows /\ r.content # None /\ r.content \in Contents
    /\ \A r \in Generated : /\ Lock(r) \in Generated /\ Lock(r).content = r.content
                            /\ Unlock(r) \in Generated /\ Unlock(r).content = r.content
  BY AggregatorAssumption, Zenon DEF Rows, Generated, Contents, Lock, Unlock

\* UpdateGeneratedProof with a generated proof keeps the types of the table.
LEMMA UpdateTypes ==
    ASSUME NEW T, T \subseteq Rows, \A r \in T : ~r.locked => r.content # None, NEW k \in Generated
    PROVE  /\ UpdateGeneratedProof(T, k) \subseteq Rows
           /\ \A r \in UpdateGeneratedProof(T, k) : ~r.locked => r.content # None
           /\ \A r \in UpdateGeneratedProof(T, k) : r \in T \/ r = k
  BY RowFacts, Zenon DEF UpdateGeneratedProof

\* A step that stores no new hash, makes no proof out of one, and leaves L1 alone.
Quiet ==
    /\ UNCHANGED <<virtual, verified, accInputHashes, rollbacks, reorgs>>
    /\ ProvenHashes' \subseteq Seen
    /\ \A p \in Provers : prv'[p] = prv[p] \/ SectionOK(prv'[p])
    /\ \A p \in Provers : prv'[p].pc \in {"witness", "input", "proving"} => prv'[p].acc \in Seen

\* Such a step keeps the facts about the hashes.
LEMMA QuietKeeps == ASSUME HashesOK, Quiet PROVE HashesOK'
<1>1. Seen' \subseteq Seen
  BY Zenon DEF Quiet, Seen
<1>2. version' = version
  BY Zenon DEF Quiet, version
<1>3. \A h : NotNewer(h)' = NotNewer(h)
  BY <1>2, Zenon DEF Quiet, NotNewer
<1>4. \A h, m : Matches(h, m)' = Matches(h, m)
  BY Zenon DEF Quiet, Matches
<1>5. \A h, m : Supports(h, m)' = Supports(h, m)
  BY <1>4, Zenon DEF Quiet, Supports
<1>6. ASSUME NEW p \in Provers PROVE SectionOK(prv[p])'
  <2>1. PICK g : g = prv'[p]
    BY Zenon
  <2>3. SectionOK(g)
    BY <2>1, Zenon DEF HashesOK, Quiet
  <2>. QED  BY <1>1, <1>2, <1>3, <1>4, <1>5, <2>1, <2>3, Zenon DEF SectionOK, Quiet
<1>. QED  BY <1>1, <1>2, <1>3, <1>5, <1>6, Zenon DEF HashesOK, Quiet

\* The new state of goroutine p, when no other goroutine moves.
MutexMoves(p, pc) ==
    \/ stateDBMutex' = stateDBMutex /\ (pc \in Section <=> prv[p].pc \in Section)
    \/ stateDBMutex = None /\ stateDBMutex' = p /\ pc \in Section
    \/ prv[p].pc \in Section /\ stateDBMutex' = None /\ pc \notin Section

\* The types of the goroutines after a step of one of them.
LEMMA ProverMoves ==
    ASSUME ProverTypes, NEW p \in Provers, NEW g, GoroutineOK(g),
           prv' = [prv EXCEPT ![p] = g], MutexMoves(p, g.pc)
    PROVE  ProverTypes' /\ prv'[p] = g /\ \A q \in Provers \ {p} : prv'[q] = prv[q]
<1>1. prv'[p] = g /\ DOMAIN prv' = Provers /\ \A q \in Provers \ {p} : prv'[q] = prv[q]
  BY Zenon DEF ProverTypes
<1>2. \A q \in Provers : GoroutineOK(prv[q])'
  <2>1. \A q \in Provers : GoroutineOK(prv'[q])
    BY <1>1, Zenon DEF ProverTypes
  <2>. QED  BY <2>1, Zenon DEF GoroutineOK, Holding
<1>3. \A q \in Provers : prv'[q].pc \in Section <=> stateDBMutex' = q
  BY <1>1, AggregatorAssumption DEF ProverTypes, MutexMoves
<1>. QED  BY <1>1, <1>2, <1>3, Zenon DEF ProverTypes

\* Where proofs of the table and in hand end is stored or has been.
LEMMA HeldAreSeen ==
    /\ \A r \in proofs : r.content # None => r.content.new \in Seen
    /\ \A p \in Provers : HeldNew(prv[p]) \subseteq Seen
    /\ snd.pc # "wait" => snd.proof.content.new \in Seen
    /\ \A r \in pending : r.content.new \in Seen
    /\ \A p \in Provers : prv[p].pc \in {"witness", "input", "proving"} => prv[p].acc \in Seen
<1>1. ProvenHashes \subseteq Seen
  BY Zenon DEF Seen
<1>2. \A r \in proofs : r.content # None => r.content.new \in ProvenHashes
  BY Zenon DEF ProvenHashes
<1>3. \A p \in Provers : HeldNew(prv[p]) \subseteq ProvenHashes
  BY Zenon DEF ProvenHashes
<1>4. snd.pc # "wait" => snd.proof.content.new \in ProvenHashes
  BY Zenon DEF ProvenHashes
<1>5. \A r \in pending : r.content.new \in ProvenHashes
  BY Zenon DEF ProvenHashes
<1>6. \A p \in Provers : prv[p].pc \in {"witness", "input", "proving"} => prv[p].acc \in Seen
  BY Zenon DEF Seen
<1>. QED  BY <1>1, <1>2, <1>3, <1>4, <1>5, <1>6, Zenon

\* The hashes of the proofs after a step of goroutine p.
LEMMA HashesOfProofs ==
    ASSUME NEW p \in Provers, NEW g, prv'[p] = g, \A q \in Provers \ {p} : prv'[q] = prv[q],
           \A r \in proofs' : r.content # None => r.content.new \in Seen,
           pending' = pending, snd'.pc = "wait" \/ snd' = snd \/ snd'.proof.content.new \in Seen,
           HeldNew(g) \subseteq Seen
    PROVE  ProvenHashes' \subseteq Seen
<1>1. \A q \in Provers : HeldNew(prv'[q]) \subseteq Seen
  BY HeldAreSeen, Zenon
<1>2. \A r \in pending' : r.content.new \in Seen
  BY HeldAreSeen, Zenon
<1>3. snd'.pc # "wait" => snd'.proof.content.new \in Seen
  BY HeldAreSeen, Zenon
<1>4. \A q \in Provers : HeldNew(prv[q])' = HeldNew(prv'[q])
  BY Zenon DEF HeldNew, Holding
<1>5. \A q \in Provers : HeldNew(prv[q])' \subseteq Seen
  BY <1>1, <1>4, Zenon
<1>. QED  BY <1>2, <1>3, <1>5, Zenon DEF ProvenHashes

\* A table of well-typed rows whose proofs end in hashes that were stored.
TableOK(T) ==
    /\ T \subseteq Rows
    /\ \A r \in T : ~r.locked => r.content # None
    /\ \A r \in T : r.content # None => r.content.new \in Seen

\* The operations on aggregator.proof keep that.
LEMMA TableOperations ==
    ASSUME HashInv
    PROVE  /\ TableOK(proofs)
           /\ \A T : TableOK(T) => \A from, to : TableOK(DeleteGeneratedProofs(T, from, to))
           /\ \A T : TableOK(T) => \A k \in Generated :
                 k.content.new \in Seen => TableOK(UpdateGeneratedProof(T, k))
           /\ \A T : TableOK(T) => \A k \in Rows :
                 k.locked /\ (k.content # None => k.content.new \in Seen) => TableOK(T \cup {k})
<1>1. TableOK(proofs)
  BY HeldAreSeen, Zenon DEF HashInv, Types, TableTypes, TableOK
<1>2. \A T : TableOK(T) => \A from, to : TableOK(DeleteGeneratedProofs(T, from, to))
  BY Zenon DEF TableOK, DeleteGeneratedProofs
<1>3. ASSUME NEW T, TableOK(T), NEW k \in Generated, k.content.new \in Seen
      PROVE  TableOK(UpdateGeneratedProof(T, k))
  <2>1. T \subseteq Rows /\ \A r \in T : ~r.locked => r.content # None
    BY <1>3, Zenon DEF TableOK
  <2>2. /\ UpdateGeneratedProof(T, k) \subseteq Rows
        /\ \A r \in UpdateGeneratedProof(T, k) : ~r.locked => r.content # None
        /\ \A r \in UpdateGeneratedProof(T, k) : r \in T \/ r = k
    BY <2>1, UpdateTypes, Zenon
  <2>. QED  BY <1>3, <2>2, Zenon DEF TableOK
<1>4. \A T : TableOK(T) => \A k \in Rows :
         k.locked /\ (k.content # None => k.content.new \in Seen) => TableOK(T \cup {k})
  BY Zenon DEF TableOK
<1>. QED  BY <1>1, <1>2, <1>3, <1>4, Zenon

\* A step of goroutine p that stores no hash.
LEMMA ProverStep ==
    ASSUME HashInv, NEW p \in Provers, NEW g, GoroutineOK(g),
           prv' = [prv EXCEPT ![p] = g], MutexMoves(p, g.pc),
           UNCHANGED <<virtual, verified, pending, accInputHashes, rollbacks, reorgs, rb>>,
           TableOK(proofs'),
           snd' = snd \/ (/\ snd' \in [pc : {"received"}, proof : Generated]
                          /\ snd'.proof.content.new \in Seen),
           HeldNew(g) \subseteq Seen,
           SectionOK(g),
           g.pc \in {"witness", "input", "proving"} => g.acc \in Seen
    PROVE  HashInv'
<1>1. ProverTypes' /\ prv'[p] = g /\ \A q \in Provers \ {p} : prv'[q] = prv[q]
  BY ProverMoves, Zenon DEF HashInv, Types
<1>2. L1Types'
  BY Zenon DEF HashInv, Types, L1Types
<1>3. TableTypes'
  BY Zenon DEF HashInv, Types, TableTypes, TableOK
<1>4. SenderTypes'
  BY Zenon DEF HashInv, Types, SenderTypes
<1>5. ProvenHashes' \subseteq Seen
  <2>1. \A r \in proofs' : r.content # None => r.content.new \in Seen
    BY Zenon DEF TableOK
  <2>2. snd'.pc = "wait" \/ snd' = snd \/ snd'.proof.content.new \in Seen
    BY Zenon
  <2>. QED  BY <1>1, <2>1, <2>2, HashesOfProofs, Zenon
<1>6. Quiet
  BY <1>1, <1>5, HeldAreSeen, Zenon DEF Quiet
<1>7. HashesOK'
  BY <1>6, QuietKeeps, Zenon DEF HashInv
<1>. QED  BY <1>1, <1>2, <1>3, <1>4, <1>7, Zenon DEF HashInv, Types

\* The same for a step that does not take the goroutine before one that does.
LEMMA QuietProver ==
    ASSUME HashInv, NEW p \in Provers, NEW g, GoroutineOK(g),
           prv' = [prv EXCEPT ![p] = g], MutexMoves(p, g.pc),
           UNCHANGED <<virtual, verified, pending, accInputHashes, rollbacks, reorgs, rb>>,
           TableOK(proofs'),
           snd' = snd \/ (/\ snd' \in [pc : {"received"}, proof : Generated]
                          /\ snd'.proof.content.new \in Seen),
           HeldNew(g) \subseteq Seen,
           g.pc \notin {"hash", "set"},
           g.pc \in {"witness", "input", "proving"} => g.acc \in Seen
    PROVE  HashInv'
<1>1. SectionOK(g)
  BY Zenon DEF SectionOK
<1>. QED  BY <1>1, ProverStep, Zenon

\* What is known of a goroutine before its step.
LEMMA Goroutines ==
    ASSUME HashInv, NEW p \in Provers
    PROVE  /\ GoroutineOK(prv[p]) /\ prv[p] \in Goroutine
           /\ HeldNew(prv[p]) \subseteq Seen /\ TableOK(proofs)
           /\ DOMAIN prv = Provers /\ verified \in Nat
  BY HeldAreSeen, TableOperations, BoundariesAreBatches
     DEF HashInv, Types, ProverTypes, GoroutineOK, L1Types

-----------------------------------------------------------------------------
(* The steps of tryBuildFinalProof                                         *)

\* What the steps of a prover's goroutine leave alone.
LEMMA OthersUnchanged ==
    ASSUME UNCHANGED others
    PROVE  UNCHANGED <<virtual, verified, pending, rollbacks, reorgs, rb, snd>>
  BY Zenon DEF others, l1Vars

\* The state a goroutine starts every round with.
LEMMA IdleType == Idle \in Goroutine /\ Idle.inHand = FALSE /\ Idle.pc = "loop"
<1>1. MaxBatch \in Nat
  BY SequenceTypes, Zenon
<1>2. 0 \in 0 .. MaxBatch /\ "loop" \in ProverPC /\ 0 \in Nat
  BY <1>1 DEF ProverPC
<1>3. << >> \in Seq(Nat)
  OBVIOUS
<1>4. PICK e \in Seq(Nat) : e = << >>
  BY <1>3, Zenon
<1>5. Idle = [pc |-> "loop", inHand |-> FALSE, proof |-> None, other |-> None,
              last |-> 0, batch |-> 0, data |-> 0, acc |-> e]
  BY <1>4, Zenon DEF Idle
<1>. QED  BY <1>2, <1>5, Zenon DEF Goroutine

\* A goroutine that has nothing in hand.
LEMMA IdleOK ==
    ASSUME NEW pc \in {"loop", "check", "aggregate", "pick"}
    PROVE  LET g == [Idle EXCEPT !.pc = pc]
           IN  /\ GoroutineOK(g) /\ g.pc = pc /\ HeldNew(g) = {}
               /\ g.pc \notin Section /\ g.pc \notin {"input", "proving"}
<1>. DEFINE g == [Idle EXCEPT !.pc = pc]
<1>2. pc \in ProverPC
  BY Zenon DEF ProverPC
<1>3. g \in Goroutine /\ g.pc = pc /\ g.inHand = FALSE
  BY <1>2, IdleType, Zenon DEF Goroutine
<1>. HIDE DEF g
<1>4. ~Holding(g)
  BY <1>3, Zenon DEF Holding
<1>5. GoroutineOK(g) /\ HeldNew(g) = {} /\ g.pc \notin Section /\ g.pc \notin {"input", "proving"}
  BY <1>3, <1>4, Zenon DEF GoroutineOK, HeldNew, Section
<1>. QED  BY <1>3, <1>5, Zenon DEF g

\* Channel starts a round with nothing in hand.
LEMMA ChannelStep == ASSUME HashInv, NEW p \in Provers, Channel(p) PROVE HashInv'
<1>. DEFINE g == [Idle EXCEPT !.pc = "check"]
<1>1. GoroutineOK(g) /\ g.pc = "check" /\ HeldNew(g) = {}
  BY IdleOK, Zenon
<1>2. prv' = [prv EXCEPT ![p] = g] /\ UNCHANGED <<proofs, accInputHashes, stateDBMutex>>
  BY Zenon DEF Channel, Become, dbVars
<1>3. MutexMoves(p, g.pc)
  BY <1>1, <1>2, Zenon DEF MutexMoves, Channel, Section
<1>. HIDE DEF g
<1>. QED  BY <1>1, <1>2, <1>3, QuietProver, OthersUnchanged, Goroutines, Zenon DEF Channel

\* A goroutine that goes from one place of tryBuildFinalProof to another with what
\* it has in hand.
LEMMA GotoKeeps ==
    ASSUME HashInv, NEW p \in Provers, NEW pc \in ProverPC \ Section,
           prv' = [prv EXCEPT ![p].pc = pc], prv[p].pc \notin Section,
           UNCHANGED <<others, accInputHashes, stateDBMutex>>, TableOK(proofs'),
           prv[p].inHand => pc \in {"ready", "validate", "build", "send", "store"},
           pc \in {"ready", "lock", "validate", "build", "send", "store", "aggregate", "pick"},
           pc \in {"validate", "store"} => prv[p].inHand,
           pc \in {"build", "send"} => Holding(prv[p])
    PROVE  HashInv'
<1>. DEFINE g == [prv[p] EXCEPT !.pc = pc]
<1>0. GoroutineOK(prv[p]) /\ prv[p] \in Goroutine /\ HeldNew(prv[p]) \subseteq Seen
  BY Goroutines, Zenon
<1>1. /\ g \in Goroutine /\ g.pc = pc /\ g.inHand = prv[p].inHand /\ g.proof = prv[p].proof
  BY <1>0, Zenon DEF Goroutine
<1>2. prv' = [prv EXCEPT ![p] = g]
  BY Goroutines, Zenon
<1>. HIDE DEF g
<1>3. Holding(g) => Holding(prv[p])
  BY <1>1, Zenon DEF Holding
<1>4. GoroutineOK(g)
  BY <1>0, <1>1, <1>3, Zenon DEF GoroutineOK, Section
<1>5. HeldNew(g) \subseteq HeldNew(prv[p])
  BY <1>1, <1>3, Zenon DEF HeldNew
<1>6. MutexMoves(p, g.pc)
  BY <1>1, Zenon DEF MutexMoves
<1>7. g.pc \notin {"hash", "set", "witness", "input", "proving"}
  BY <1>1, Zenon
<1>. QED  BY <1>0, <1>2, <1>4, <1>5, <1>6, <1>7, QuietProver, OthersUnchanged, Zenon

\* canVerifyProof decides where the goroutine goes on.
LEMMA CanVerifyStep ==
    ASSUME HashInv, NEW p \in Provers, canVerifyProof(p) \/ CannotVerifyProof(p)
    PROVE  HashInv'
<1>0. GoroutineOK(prv[p]) /\ TableOK(proofs)
  BY Goroutines, Zenon
<1>1. prv[p].pc = "check" /\ proofs' = proofs /\ UNCHANGED <<others, accInputHashes, stateDBMutex>>
  BY Zenon DEF canVerifyProof, CannotVerifyProof, dbVars
<1>2. PICK pc \in {"ready", IF prv[p].inHand THEN "store" ELSE "aggregate"} :
         prv' = [prv EXCEPT ![p].pc = pc]
  BY Zenon DEF canVerifyProof, CannotVerifyProof, Goto, NotBuilt
<1>3. pc \in ProverPC \ Section
  BY <1>2, Zenon DEF ProverPC, Section
<1>4. CASE prv[p].inHand
  BY <1>0, <1>1, <1>2, <1>3, <1>4, GotoKeeps, Zenon DEF Section
<1>5. CASE ~prv[p].inHand
  BY <1>0, <1>1, <1>2, <1>3, <1>5, GotoKeeps, Zenon DEF Section
<1>. QED  BY <1>4, <1>5, Zenon

\* GetLatestVerifiedBatchNum stores the last verified batch.
LEMMA LatestVerifiedStep ==
    ASSUME HashInv, NEW p \in Provers, GetLatestVerifiedBatchNum(p)
    PROVE  HashInv'
<1>. DEFINE g == [prv[p] EXCEPT !.last = verified,
                                !.pc = IF prv[p].inHand THEN "validate" ELSE "lock"]
<1>0. /\ GoroutineOK(prv[p]) /\ prv[p] \in Goroutine /\ HeldNew(prv[p]) \subseteq Seen
      /\ TableOK(proofs) /\ verified \in Nat
  BY Goroutines, Zenon
<1>1. /\ g \in Goroutine /\ g.inHand = prv[p].inHand /\ g.proof = prv[p].proof
      /\ g.pc = IF prv[p].inHand THEN "validate" ELSE "lock"
  BY <1>0, ZenonT(30) DEF Goroutine, ProverPC
<1>2. prv' = [prv EXCEPT ![p] = g] /\ UNCHANGED <<proofs, accInputHashes, stateDBMutex, others>>
  BY Zenon DEF GetLatestVerifiedBatchNum, Become, dbVars
<1>. HIDE DEF g
<1>3. GoroutineOK(g) /\ HeldNew(g) \subseteq HeldNew(prv[p])
  BY <1>0, <1>1, Zenon DEF GoroutineOK, Holding, HeldNew
<1>4. g.pc \notin Section /\ g.pc \notin {"hash", "set", "witness", "input", "proving"}
  BY <1>1, Zenon DEF Section
<1>5. MutexMoves(p, g.pc)
  BY <1>2, <1>4, Zenon DEF MutexMoves, GetLatestVerifiedBatchNum, Section
<1>. QED  BY <1>0, <1>2, <1>3, <1>4, <1>5, QuietProver, OthersUnchanged, Zenon

\* getAndLockProofReadyToVerify takes a generated proof of the table.
LEMMA LockReadyStep ==
    ASSUME HashInv, NEW p \in Provers, getAndLockProofReadyToVerify(p)
    PROVE  HashInv'
<1>0. GoroutineOK(prv[p]) /\ prv[p] \in Goroutine /\ TableOK(proofs)
  BY Goroutines, Zenon
<1>1. prv[p].pc = "lock" /\ UNCHANGED <<others, accInputHashes, stateDBMutex>>
  BY Zenon DEF getAndLockProofReadyToVerify
<1>2. CASE prv' = [prv EXCEPT ![p].pc = "aggregate"] /\ proofs' = proofs
  <2>1. ~prv[p].inHand
    BY <1>0, <1>1, Zenon DEF GoroutineOK
  <2>2. "aggregate" \in ProverPC \ Section /\ "lock" \notin Section
    BY Zenon DEF ProverPC, Section
  <2>. QED  BY <1>0, <1>1, <1>2, <2>1, <2>2, GotoKeeps, Zenon
<1>3. ASSUME NEW r \in GetProofReadyToVerify(prv[p].last),
             proofs' = UpdateGeneratedProof(proofs, Lock(r)),
             Become(p, [prv[p] EXCEPT !.pc = "build", !.proof = Lock(r)])
      PROVE  HashInv'
  <2>. DEFINE g == [prv[p] EXCEPT !.pc = "build", !.proof = Lock(r)]
  <2>1. r \in proofs /\ r \in Generated /\ r.content.new \in Seen
    BY <1>0, <1>3, RowFacts, Zenon DEF GetProofReadyToVerify, TableOK
  <2>2. /\ Lock(r) \in Generated /\ Lock(r).content.new \in Seen
        /\ Lock(r) \in Rows
    BY <2>1, RowFacts, Zenon
  <2>3. TableOK(proofs')
    BY <1>0, <1>3, <2>2, TableOperations, Zenon
  <2>4. /\ g \in Goroutine /\ g.pc = "build" /\ g.inHand = prv[p].inHand
        /\ g.proof = Lock(r)
    BY <1>0, <2>2, Zenon DEF Goroutine, ProverPC
  <2>5. prv' = [prv EXCEPT ![p] = g]
    BY <1>3, Zenon DEF Become
  <2>. HIDE DEF g
  <2>6. GoroutineOK(g) /\ HeldNew(g) \subseteq Seen
    BY <1>0, <1>1, <2>2, <2>4, Zenon DEF GoroutineOK, HeldNew
  <2>7. MutexMoves(p, g.pc) /\ g.pc \notin {"hash", "set", "witness", "input", "proving"}
    BY <1>1, <2>4, Zenon DEF MutexMoves, Section
  <2>. QED  BY <1>1, <2>3, <2>5, <2>6, <2>7, QuietProver, OthersUnchanged, Zenon
<1>. QED  BY <1>2, <1>3, Zenon DEF getAndLockProofReadyToVerify, Goto

\* validateEligibleFinalProof deletes an outdated proof or goes on with it.
LEMMA ValidateStep ==
    ASSUME HashInv, NEW p \in Provers, validateEligibleFinalProof(p)
    PROVE  HashInv'
<1>0. GoroutineOK(prv[p]) /\ TableOK(proofs)
  BY Goroutines, Zenon
<1>1. prv[p].pc = "validate" /\ UNCHANGED <<others, accInputHashes, stateDBMutex>>
  BY Zenon DEF validateEligibleFinalProof
<1>2. TableOK(proofs')
  BY <1>0, TableOperations, Zenon DEF validateEligibleFinalProof
<1>3. PICK pc \in {"build", "store"} : prv' = [prv EXCEPT ![p].pc = pc]
  BY Zenon DEF validateEligibleFinalProof, Goto
<1>4. prv[p].inHand /\ Holding(prv[p])
  BY <1>0, <1>1, Zenon DEF GoroutineOK, Holding
<1>. QED  BY <1>1, <1>2, <1>3, <1>4, GotoKeeps, Zenon DEF ProverPC, Section

\* buildFinalProof goes on with the proof; its failure unlocks it.
LEMMA BuildFinalStep ==
    ASSUME HashInv, NEW p \in Provers, buildFinalProof(p) \/ FinalProofFails(p)
    PROVE  HashInv'
<1>0. GoroutineOK(prv[p]) /\ TableOK(proofs) /\ HeldNew(prv[p]) \subseteq Seen
  BY Goroutines, Zenon
<1>1. prv[p].pc = "build" /\ UNCHANGED <<others, accInputHashes, stateDBMutex>>
  BY Zenon DEF buildFinalProof, FinalProofFails
<1>2. prv[p].proof \in Generated /\ prv[p].proof.content.new \in Seen
  BY <1>0, <1>1, Zenon DEF GoroutineOK, Holding, HeldNew
<1>3. TableOK(proofs')
  BY <1>0, <1>2, TableOperations, RowFacts DEF buildFinalProof, FinalProofFails, dbVars
<1>4. PICK pc \in {"send", IF prv[p].inHand THEN "store" ELSE "aggregate"} :
         prv' = [prv EXCEPT ![p].pc = pc]
  BY Zenon DEF buildFinalProof, FinalProofFails, Goto, NotBuilt
<1>5. Holding(prv[p])
  BY <1>1, Zenon DEF Holding
<1>6. pc \in ProverPC \ Section
  BY <1>4, Zenon DEF ProverPC, Section
<1>7. CASE prv[p].inHand
  BY <1>1, <1>3, <1>4, <1>5, <1>6, <1>7, GotoKeeps, Zenon DEF Section
<1>8. CASE ~prv[p].inHand
  BY <1>1, <1>3, <1>4, <1>5, <1>6, <1>8, GotoKeeps, Zenon DEF Section
<1>. QED  BY <1>7, <1>8, Zenon

\* The final proof goes to sendFinalProof.
LEMMA SendFinalStep == ASSUME HashInv, NEW p \in Provers, SendFinalProof(p) PROVE HashInv'
<1>0. GoroutineOK(prv[p]) /\ TableOK(proofs) /\ HeldNew(prv[p]) \subseteq Seen
  BY Goroutines, Zenon
<1>1. PICK pc \in {"loop", "aggregate"} : prv' = [prv EXCEPT ![p] = [Idle EXCEPT !.pc = pc]]
  BY Zenon DEF SendFinalProof, Become, Idle
<1>. DEFINE g == [Idle EXCEPT !.pc = pc]
<1>2. GoroutineOK(g) /\ g.pc = pc /\ HeldNew(g) = {} /\ g.pc \notin Section
  BY IdleOK, Zenon
<1>3. /\ prv[p].pc = "send" /\ snd' = [pc |-> "received", proof |-> prv[p].proof]
      /\ UNCHANGED <<virtual, verified, pending, accInputHashes, rollbacks, reorgs, rb, proofs,
                     stateDBMutex>>
  BY Zenon DEF SendFinalProof, l1Vars, dbVars, memVars, boundVars
<1>4. prv[p].proof \in Generated /\ prv[p].proof.content.new \in Seen
  BY <1>0, <1>3, Zenon DEF GoroutineOK, Holding, HeldNew
<1>5. snd' \in [pc : {"received"}, proof : Generated] /\ snd'.proof.content.new \in Seen
  BY <1>3, <1>4, Zenon
<1>. HIDE DEF g
<1>6. prv' = [prv EXCEPT ![p] = g]
  BY <1>1, Zenon DEF g
<1>7. MutexMoves(p, g.pc) /\ g.pc \notin {"hash", "set", "witness", "input", "proving"}
  BY <1>2, <1>3, Zenon DEF MutexMoves, Section
<1>. QED  BY <1>0, <1>2, <1>3, <1>5, <1>6, <1>7, QuietProver, Zenon

\* The proof in hand is stored unlocked.
LEMMA StoreStep == ASSUME HashInv, NEW p \in Provers, StoreProof(p) PROVE HashInv'
<1>0. GoroutineOK(prv[p]) /\ TableOK(proofs) /\ HeldNew(prv[p]) \subseteq Seen
  BY Goroutines, Zenon
<1>. DEFINE g == [Idle EXCEPT !.pc = "loop"]
<1>1. GoroutineOK(g) /\ g.pc = "loop" /\ HeldNew(g) = {} /\ g.pc \notin Section
  BY IdleOK, Zenon
<1>2. /\ prv[p].pc = "store" /\ UNCHANGED <<others, accInputHashes, stateDBMutex>>
      /\ proofs' = UpdateGeneratedProof(proofs, Unlock(prv[p].proof))
  BY Zenon DEF StoreProof
<1>3. prv[p].proof \in Generated /\ prv[p].proof.content.new \in Seen
  BY <1>0, <1>2, Zenon DEF GoroutineOK, Holding, HeldNew
<1>4. TableOK(proofs')
  BY <1>0, <1>2, <1>3, TableOperations, RowFacts, Zenon
<1>5. prv' = [prv EXCEPT ![p] = g]
  BY Zenon DEF StoreProof, Become, Idle
<1>. HIDE DEF g
<1>6. MutexMoves(p, g.pc) /\ g.pc \notin {"hash", "set", "witness", "input", "proving"}
  BY <1>1, <1>2, Zenon DEF MutexMoves, Section
<1>. QED  BY <1>1, <1>2, <1>4, <1>5, <1>6, QuietProver, OthersUnchanged, Zenon
-----------------------------------------------------------------------------
(* The steps of tryAggregateProofs                                         *)

\* The two proofs that are aggregated are generated ones of the table.
LEMMA PairsToAggregate ==
    ASSUME HashInv, NEW pq \in GetProofsToAggregate
    PROVE  /\ pq[1] \in proofs /\ pq[2] \in proofs /\ pq = <<pq[1], pq[2]>>
           /\ pq[1] \in Generated /\ pq[2] \in Generated
           /\ pq[1].content.new \in Seen /\ pq[2].content.new \in Seen
           /\ ~pq[1].locked /\ ~pq[2].locked /\ pq[1].to = pq[2].from - 1
<1>1. /\ pq \in proofs \X proofs /\ pq[1].content # None /\ pq[2].content # None
      /\ ~pq[1].locked /\ ~pq[2].locked /\ pq[1].to = pq[2].from - 1
  BY Zenon DEF GetProofsToAggregate
<1>2. pq[1] \in proofs /\ pq[2] \in proofs /\ pq = <<pq[1], pq[2]>>
  BY <1>1
<1>3. TableOK(proofs)
  BY TableOperations, Zenon
<1>. QED  BY <1>1, <1>2, <1>3, RowFacts, Zenon DEF TableOK

\* getAndLockProofsToAggregate takes two generated proofs of the table.
LEMMA LockPairStep ==
    ASSUME HashInv, NEW p \in Provers, getAndLockProofsToAggregate(p)
    PROVE  HashInv'
<1>0. GoroutineOK(prv[p]) /\ prv[p] \in Goroutine /\ TableOK(proofs)
  BY Goroutines, Zenon
<1>1. prv[p].pc = "aggregate" /\ UNCHANGED <<others, accInputHashes, stateDBMutex>>
  BY Zenon DEF getAndLockProofsToAggregate
<1>2. CASE prv' = [prv EXCEPT ![p].pc = "pick"] /\ proofs' = proofs
  <2>1. ~prv[p].inHand
    BY <1>0, <1>1, Zenon DEF GoroutineOK
  <2>2. "pick" \in ProverPC \ Section /\ "aggregate" \notin Section
    BY Zenon DEF ProverPC, Section
  <2>. QED  BY <1>0, <1>1, <1>2, <2>1, <2>2, GotoKeeps, Zenon
<1>3. ASSUME NEW pq \in GetProofsToAggregate,
             proofs' = UpdateGeneratedProof(UpdateGeneratedProof(proofs, Lock(pq[1])), Lock(pq[2])),
             Become(p, [Idle EXCEPT !.pc = "aggregating", !.proof = Lock(pq[1]),
                                    !.other = Lock(pq[2])])
      PROVE  HashInv'
  <2>0. PICK r1, r2 : r1 = Lock(pq[1]) /\ r2 = Lock(pq[2])
    BY Zenon
  <2>. DEFINE g == [Idle EXCEPT !.pc = "aggregating", !.proof = r1, !.other = r2]
  <2>1. /\ r1 \in Generated /\ r1.content.new \in Seen /\ r1 \in Rows
        /\ r2 \in Generated /\ r2.content.new \in Seen /\ r2 \in Rows
    BY <2>0, PairsToAggregate, RowFacts, Zenon
  <2>2. TableOK(proofs')
    BY <1>0, <1>3, <2>0, <2>1, TableOperations, Zenon
  <2>3. /\ g \in Goroutine /\ g.pc = "aggregating" /\ g.inHand = FALSE
        /\ g.proof = r1 /\ g.other = r2
    BY <2>1, IdleType, Zenon DEF Goroutine, ProverPC
  <2>4. prv' = [prv EXCEPT ![p] = g]
    BY <1>3, <2>0, Zenon DEF Become
  <2>. HIDE DEF g
  <2>5. GoroutineOK(g) /\ HeldNew(g) \subseteq Seen
    BY <2>1, <2>3, Zenon DEF GoroutineOK, HeldNew, Holding
  <2>6. MutexMoves(p, g.pc) /\ g.pc \notin {"hash", "set", "witness", "input", "proving"}
    BY <1>1, <2>3, Zenon DEF MutexMoves, Section
  <2>. QED  BY <1>1, <2>2, <2>4, <2>5, <2>6, QuietProver, OthersUnchanged, Zenon
<1>. QED  BY <1>2, <1>3, Zenon DEF getAndLockProofsToAggregate, Goto

\* The joined proof ends in the hash of the second one.
LEMMA AggregateStepKeeps ==
    ASSUME HashInv, NEW p \in Provers, tryAggregateProofs(p)
    PROVE  HashInv'
<1>0. GoroutineOK(prv[p]) /\ TableOK(proofs) /\ HeldNew(prv[p]) \subseteq Seen
  BY Goroutines, Zenon
<1>1. PICK p1, p2 : p1 = prv[p].proof /\ p2 = prv[p].other
  BY Zenon
<1>. DEFINE joined == [from |-> p1.from, to |-> p2.to, locked |-> TRUE,
                       content |-> AggregatedProof(p1.content, p2.content)]
            g == [Idle EXCEPT !.pc = "check", !.inHand = TRUE, !.proof = joined]
<1>2. /\ prv[p].pc = "aggregating" /\ UNCHANGED <<others, accInputHashes, stateDBMutex>>
      /\ proofs' = DeleteGeneratedProofs(proofs, p1.from, p2.to) \cup {joined}
      /\ prv' = [prv EXCEPT ![p] = g]
  BY <1>1, Zenon DEF tryAggregateProofs, Become
<1>3. p1 \in Generated /\ p2 \in Generated /\ p2.content.new \in Seen
  BY <1>0, <1>1, <1>2, Zenon DEF GoroutineOK, HeldNew
<1>4. AggregatedProof(p1.content, p2.content) \in Contents
      /\ AggregatedProof(p1.content, p2.content).new = p2.content.new
  BY <1>3, Zenon DEF Generated, Contents, AggregatedProof
<1>5. /\ joined \in Generated /\ joined.content.new = p2.content.new
      /\ joined.locked = TRUE /\ joined \in Rows
  BY <1>3, <1>4, Zenon DEF Generated, Rows
<1>6. TableOK(proofs')
  <2>. HIDE DEF joined
  <2>. QED  BY <1>0, <1>2, <1>3, <1>5, TableOperations, Zenon
<1>. HIDE DEF joined
<1>7. g \in Goroutine /\ g.pc = "check" /\ g.inHand = TRUE /\ g.proof = joined
  BY <1>5, IdleType, Zenon DEF Goroutine, ProverPC
<1>. HIDE DEF g
<1>8. GoroutineOK(g) /\ HeldNew(g) \subseteq Seen
  BY <1>3, <1>5, <1>7, Zenon DEF GoroutineOK, HeldNew, Holding
<1>9. MutexMoves(p, g.pc) /\ g.pc \notin {"hash", "set", "witness", "input", "proving"}
  BY <1>2, <1>7, Zenon DEF MutexMoves, Section
<1>. QED  BY <1>2, <1>6, <1>8, <1>9, QuietProver, OthersUnchanged, Zenon

\* unlockProofsToAggregate stores both proofs unlocked.
LEMMA UnlockPairStep ==
    ASSUME HashInv, NEW p \in Provers, unlockProofsToAggregate(p)
    PROVE  HashInv'
<1>0. GoroutineOK(prv[p]) /\ TableOK(proofs) /\ HeldNew(prv[p]) \subseteq Seen
  BY Goroutines, Zenon
<1>. DEFINE g == [Idle EXCEPT !.pc = "pick"]
<1>1. GoroutineOK(g) /\ g.pc = "pick" /\ HeldNew(g) = {} /\ g.pc \notin Section
  BY IdleOK, Zenon
<1>2. /\ prv[p].pc = "aggregating" /\ UNCHANGED <<others, accInputHashes, stateDBMutex>>
      /\ proofs' = UpdateGeneratedProof(UpdateGeneratedProof(proofs, Unlock(prv[p].proof)),
                                        Unlock(prv[p].other))
      /\ prv' = [prv EXCEPT ![p] = g]
  BY Zenon DEF unlockProofsToAggregate, Become
<1>. HIDE DEF g
<1>3. /\ prv[p].proof \in Generated /\ prv[p].proof.content.new \in Seen
      /\ prv[p].other \in Generated /\ prv[p].other.content.new \in Seen
  BY <1>0, <1>2, Zenon DEF GoroutineOK, HeldNew
<1>4. TableOK(proofs')
  <2>1. TableOK(UpdateGeneratedProof(proofs, Unlock(prv[p].proof)))
    BY <1>0, <1>3, TableOperations, RowFacts, Zenon
  <2>. QED  BY <1>2, <1>3, <2>1, TableOperations, RowFacts, ZenonT(30)
<1>5. MutexMoves(p, g.pc) /\ g.pc \notin {"hash", "set", "witness", "input", "proving"}
  BY <1>1, <1>2, Zenon DEF MutexMoves, Section
<1>. QED  BY <1>1, <1>2, <1>4, <1>5, QuietProver, OthersUnchanged, Zenon

-----------------------------------------------------------------------------
(* The steps of tryGenerateBatchProof after the hash is stored             *)

\* AddGeneratedProof inserts a row without a content.
LEMMA AddProofStep == ASSUME HashInv, NEW p \in Provers, AddGeneratedProof(p) PROVE HashInv'
<1>0. GoroutineOK(prv[p]) /\ prv[p] \in Goroutine /\ TableOK(proofs)
  BY Goroutines, Zenon
<1>. DEFINE b == prv[p].batch
            row == [from |-> b, to |-> b, content |-> None, locked |-> TRUE]
            g == [prv[p] EXCEPT !.pc = "input", !.proof = row]
<1>1. /\ prv[p].pc = "witness" /\ UNCHANGED <<others, accInputHashes>> /\ stateDBMutex' = None
      /\ \/ prv' = [prv EXCEPT ![p] = [Idle EXCEPT !.pc = "loop"]] /\ proofs' = proofs
         \/ prv' = [prv EXCEPT ![p] = g] /\ proofs' = proofs \cup {row}
  BY Zenon DEF AddGeneratedProof, Become, Idle
<1>2. row \in Rows /\ row.locked = TRUE /\ row.content = None
  BY <1>0, <1>1, Zenon DEF GoroutineOK, Rows
<1>3. prv[p].acc \in Seen
  BY <1>1, HeldAreSeen, Zenon
<1>4. CASE prv' = [prv EXCEPT ![p] = [Idle EXCEPT !.pc = "loop"]] /\ proofs' = proofs
  <2>. DEFINE i == [Idle EXCEPT !.pc = "loop"]
  <2>1. GoroutineOK(i) /\ i.pc = "loop" /\ HeldNew(i) = {} /\ i.pc \notin Section
    BY IdleOK, Zenon
  <2>2. prv' = [prv EXCEPT ![p] = i]
    BY <1>4, Zenon
  <2>. HIDE DEF i
  <2>3. MutexMoves(p, i.pc) /\ i.pc \notin {"hash", "set", "witness", "input", "proving"}
    BY <1>1, <2>1, Zenon DEF MutexMoves, Section
  <2>. QED  BY <1>0, <1>1, <1>4, <2>1, <2>2, <2>3, QuietProver, OthersUnchanged, Zenon
<1>5. CASE prv' = [prv EXCEPT ![p] = g] /\ proofs' = proofs \cup {row}
  <2>. HIDE DEF row
  <2>1. TableOK(proofs')
    BY <1>0, <1>2, <1>5, TableOperations, Zenon
  <2>2. /\ g \in Goroutine /\ g.pc = "input" /\ g.inHand = prv[p].inHand /\ g.proof = row
        /\ g.acc = prv[p].acc /\ g.batch = prv[p].batch
    BY <1>0, <1>2, Zenon DEF Goroutine, ProverPC
  <2>. HIDE DEF g
  <2>3. GoroutineOK(g) /\ HeldNew(g) = {}
    BY <1>0, <1>1, <1>2, <2>2, Zenon DEF GoroutineOK, HeldNew, Holding
  <2>4. MutexMoves(p, g.pc)
    BY <1>1, <2>2, Zenon DEF MutexMoves, Section
  <2>. QED  BY <1>1, <1>3, <1>5, <2>1, <2>2, <2>3, <2>4, QuietProver, OthersUnchanged, Zenon
<1>. QED  BY <1>1, <1>4, <1>5, Zenon

\* The goroutine that waits for a witness keeps stateDBMutex.
LEMMA WitnessFailsStep == ASSUME HashInv, NEW p \in Provers, GetWitnessFails(p) PROVE HashInv'
<1>0. GoroutineOK(prv[p]) /\ prv[p] \in Goroutine /\ TableOK(proofs) /\ DOMAIN prv = Provers
  BY Goroutines, Zenon
<1>. DEFINE g == [prv[p] EXCEPT !.pc = "stuck"]
<1>1. /\ prv[p].pc = "witness" /\ prv' = [prv EXCEPT ![p] = g]
      /\ UNCHANGED <<virtual, verified, pending, accInputHashes, rollbacks, reorgs, rb, snd, proofs,
                     stateDBMutex>>
  BY <1>0, Zenon DEF GetWitnessFails, Goto, l1Vars, dbVars, memVars
<1>2. g \in Goroutine /\ g.pc = "stuck" /\ g.inHand = prv[p].inHand
  BY <1>0, Zenon DEF Goroutine, ProverPC, Section
<1>. HIDE DEF g
<1>3. GoroutineOK(g) /\ HeldNew(g) = {}
  BY <1>0, <1>1, <1>2, Zenon DEF GoroutineOK, HeldNew, Holding
<1>4. MutexMoves(p, g.pc)
  BY <1>1, <1>2, Zenon DEF MutexMoves, Section
<1>. QED  BY <1>0, <1>1, <1>2, <1>3, <1>4, QuietProver, Zenon

\* buildInputProver makes a content out of the hash of the previous batch.
LEMMA InputStep == ASSUME HashInv, NEW p \in Provers, buildInputProver(p) PROVE HashInv'
<1>0. GoroutineOK(prv[p]) /\ prv[p] \in Goroutine /\ TableOK(proofs)
  BY Goroutines, Zenon
<1>1. prv[p].pc = "input" /\ UNCHANGED <<others, accInputHashes, stateDBMutex>>
  BY Zenon DEF buildInputProver
<1>2. prv[p].batch \in Batch /\ prv[p].proof \in Rows /\ prv[p].data \in Nat /\ prv[p].acc \in Seen
  BY <1>0, <1>1, HeldAreSeen, Zenon DEF GoroutineOK, Goroutine
<1>3. CASE MissingHash(prv[p].batch - 1)
  <2>. DEFINE i == [Idle EXCEPT !.pc = "loop"]
  <2>1. GoroutineOK(i) /\ i.pc = "loop" /\ HeldNew(i) = {} /\ i.pc \notin Section
    BY IdleOK, Zenon
  <2>2. prv' = [prv EXCEPT ![p] = i]
    BY <1>3, Zenon DEF buildInputProver, Become, Idle
  <2>. HIDE DEF i
  <2>3. TableOK(proofs')
    BY <1>0, <1>3, TableOperations, Zenon DEF buildInputProver
  <2>4. MutexMoves(p, i.pc) /\ i.pc \notin {"hash", "set", "witness", "input", "proving"}
    BY <1>1, <2>1, Zenon DEF MutexMoves, Section
  <2>. QED  BY <1>1, <2>1, <2>2, <2>3, <2>4, QuietProver, OthersUnchanged, Zenon
<1>4. CASE ~MissingHash(prv[p].batch - 1)
  <2>1. accInputHashes[prv[p].batch - 1] \in Seq(Nat)
    <3>1. prv[p].batch - 1 \in 0 .. MaxBatch
      BY <1>2, SequenceTypes DEF Batch
    <3>. QED  BY <3>1, Zenon DEF HashInv, Types, TableTypes
  <2>2. PICK c \in Contents : c = BatchProof(accInputHashes[prv[p].batch - 1], prv[p].data)
    <3>1. ASSUME NEW o \in Seq(Nat), NEW d \in Nat PROVE BatchProof(o, d) \in Contents
      <4>1. Append(o, d) \in Seq(Nat)
        OBVIOUS
      <4>. QED  BY <4>1, Zenon DEF BatchProof, Contents
    <3>. QED  BY <1>2, <2>1, <3>1, Zenon
  <2>3. PICK r \in Generated : r = [prv[p].proof EXCEPT !.content = c]
    BY <1>2, Zenon DEF Rows, Generated
  <2>. DEFINE g == [prv[p] EXCEPT !.pc = "proving", !.proof = r]
  <2>a. [prv[p] EXCEPT !.pc = "proving", !.proof.content = c] = g
    BY <1>0, <2>3, Zenon DEF Goroutine
  <2>b. /\ prv' = [prv EXCEPT ![p] = [prv[p] EXCEPT !.pc = "proving", !.proof.content = c]]
        /\ proofs' = proofs
    BY <1>4, <2>2, Zenon DEF buildInputProver, Become
  <2>4. prv' = [prv EXCEPT ![p] = g] /\ proofs' = proofs
    BY <2>a, <2>b, Zenon
  <2>5. /\ g \in Goroutine /\ g.pc = "proving" /\ g.inHand = prv[p].inHand /\ g.proof = r
        /\ g.acc = prv[p].acc /\ g.batch = prv[p].batch
    <3>1. r \in Rows
      BY RowFacts, Zenon
    <3>. QED  BY <1>0, <3>1, Zenon DEF Goroutine, ProverPC
  <2>. HIDE DEF g
  <2>6. GoroutineOK(g) /\ HeldNew(g) = {}
    BY <1>0, <1>1, <1>2, <2>5, Zenon DEF GoroutineOK, HeldNew, Holding
  <2>7. MutexMoves(p, g.pc)
    BY <1>1, <2>5, Zenon DEF MutexMoves, Section
  <2>. QED  BY <1>0, <1>1, <1>2, <2>4, <2>5, <2>6, <2>7, QuietProver, OthersUnchanged, Zenon
<1>. QED  BY <1>3, <1>4, Zenon

\* After the sanity check the proof ends in the hash that was stored.
LEMMA GeneratedStep == ASSUME HashInv, NEW p \in Provers, BatchProofGenerated(p) PROVE HashInv'
<1>0. GoroutineOK(prv[p]) /\ prv[p] \in Goroutine /\ TableOK(proofs)
  BY Goroutines, Zenon
<1>1. /\ prv[p].pc = "proving" /\ UNCHANGED <<others, accInputHashes, stateDBMutex>>
      /\ proofs' = proofs
  BY Zenon DEF BatchProofGenerated, dbVars
<1>2. prv[p].proof \in Generated /\ prv[p].proof \in Rows /\ prv[p].acc \in Seen /\ ~prv[p].inHand
  BY <1>0, <1>1, HeldAreSeen, RowFacts, Zenon DEF GoroutineOK
<1>3. CASE prv[p].proof.content.new # prv[p].acc
  <2>. DEFINE g == [prv[p] EXCEPT !.pc = "halted"]
  <2>1. prv' = [prv EXCEPT ![p] = g]
    BY <1>3, Zenon DEF BatchProofGenerated, Become
  <2>2. g \in Goroutine /\ g.pc = "halted" /\ g.inHand = prv[p].inHand
    BY <1>0, Zenon DEF Goroutine, ProverPC
  <2>. HIDE DEF g
  <2>3. GoroutineOK(g) /\ HeldNew(g) = {}
    BY <1>2, <2>2, Zenon DEF GoroutineOK, HeldNew, Holding
  <2>4. MutexMoves(p, g.pc) /\ g.pc \notin {"hash", "set", "witness", "input", "proving"}
    BY <1>1, <2>2, Zenon DEF MutexMoves, Section
  <2>. QED  BY <1>0, <1>1, <2>1, <2>3, <2>4, QuietProver, OthersUnchanged, Zenon
<1>4. CASE prv[p].proof.content.new = prv[p].acc
  <2>0. PICK r \in Generated : r = prv[p].proof /\ r \in Rows
    BY <1>2, Zenon
  <2>. DEFINE g == [Idle EXCEPT !.pc = "check", !.inHand = TRUE, !.proof = r]
  <2>1. prv' = [prv EXCEPT ![p] = g]
    BY <1>4, <2>0, Zenon DEF BatchProofGenerated, Become
  <2>2. g \in Goroutine /\ g.pc = "check" /\ g.inHand = TRUE /\ g.proof = r
    BY <2>0, IdleType, Zenon DEF Goroutine, ProverPC
  <2>. HIDE DEF g
  <2>3. r.content.new \in Seen
    BY <1>2, <1>4, <2>0, Zenon
  <2>4. GoroutineOK(g) /\ HeldNew(g) \subseteq Seen
    BY <2>0, <2>2, <2>3, Zenon DEF GoroutineOK, HeldNew, Holding
  <2>5. MutexMoves(p, g.pc) /\ g.pc \notin {"hash", "set", "witness", "input", "proving"}
    BY <1>1, <2>2, Zenon DEF MutexMoves, Section
  <2>. QED  BY <1>0, <1>1, <2>1, <2>4, <2>5, QuietProver, OthersUnchanged, Zenon
<1>. QED  BY <1>3, <1>4, Zenon

\* A failure of the prover deletes the row of the batch.
LEMMA BatchFailsStep == ASSUME HashInv, NEW p \in Provers, BatchProofFails(p) PROVE HashInv'
<1>. DEFINE g == [Idle EXCEPT !.pc = "loop"]
<1>1. GoroutineOK(g) /\ g.pc = "loop" /\ HeldNew(g) = {} /\ g.pc \notin Section
  BY IdleOK, Zenon
<1>2. /\ prv[p].pc \in {"input", "proving"} /\ UNCHANGED <<others, accInputHashes, stateDBMutex>>
      /\ proofs' = DeleteGeneratedProofs(proofs, prv[p].batch, prv[p].batch)
      /\ prv' = [prv EXCEPT ![p] = g]
  BY Zenon DEF BatchProofFails, Become, Idle
<1>. HIDE DEF g
<1>3. TableOK(proofs')
  BY <1>2, TableOperations, Zenon
<1>4. MutexMoves(p, g.pc) /\ g.pc \notin {"hash", "set", "witness", "input", "proving"}
  BY <1>1, <1>2, Zenon DEF MutexMoves, Section
<1>. QED  BY <1>1, <1>2, <1>3, <1>4, QuietProver, OthersUnchanged, Zenon

-----------------------------------------------------------------------------
(* The steps of getAndLockBatchToProve that lead to a new hash             *)

\* The batch that is picked: there always is one, at most one above the last.
LEMMA LowestBatch ==
    ASSUME HashInv
    PROVE  \E b \in Nat :
              /\ b > verified /\ (~CheckProofExistsForBatch(b) \/ MissingHash(b - 1))
              /\ BatchToProve = [batch  |-> IF CheckProofExistsForBatch(b) THEN b - 1 ELSE b,
                                 proofs |-> IF CheckProofExistsForBatch(b) THEN {} ELSE proofs]
<1>0. verified \in 0 .. MaxBatch /\ MaxBatch \in Nat /\ TableOK(proofs)
  BY BoundariesAreBatches, SequenceTypes, TableOperations DEF HashInv, Types, L1Types
<1>. DEFINE N == verified + 1 .. MaxBatch + 1
            Stop(n) == ~CheckProofExistsForBatch(n) \/ MissingHash(n - 1)
            First(n) == /\ ~CheckProofExistsForBatch(n) \/ MissingHash(n - 1)
                        /\ \A m \in verified + 1 .. n - 1 :
                              CheckProofExistsForBatch(m) /\ ~MissingHash(m - 1)
            b == CHOOSE n \in N : First(n)
<1>1. MaxBatch + 1 \in {n \in N : Stop(n)}
  <2>1. \A r \in proofs : r.to \in 1 .. MaxBatch
    BY <1>0, Zenon DEF TableOK, Rows, Batch
  <2>2. ~CheckProofExistsForBatch(MaxBatch + 1)
    BY <1>0, <2>1 DEF CheckProofExistsForBatch
  <2>. QED  BY <1>0, <2>2
<1>2. {n \in N : Stop(n)} \in SUBSET Nat
  BY <1>0
<1>3. PICK n \in {k \in N : Stop(k)} : \A m \in {k \in N : Stop(k)} : n <= m
  BY <1>1, <1>2, LeastExists, Zenon
<1>4. First(n) /\ n \in N
  <2>1. \A m \in verified + 1 .. n - 1 : m \in N /\ ~(n <= m)
    BY <1>0, <1>3
  <2>2. \A m \in verified + 1 .. n - 1 : ~Stop(m)
    BY <1>3, <2>1, Zenon
  <2>. QED  BY <1>3, <2>2, Zenon
<1>5. b \in N /\ First(b)
  <2>. HIDE DEF N, First
  <2>. QED  BY <1>4, Zenon
<1>6. b \in Nat /\ b > verified
  BY <1>0, <1>5
<1>7. BatchToProve = [batch  |-> IF CheckProofExistsForBatch(b) THEN b - 1 ELSE b,
                      proofs |-> IF CheckProofExistsForBatch(b) THEN {} ELSE proofs]
  BY Zenon DEF BatchToProve
<1>8. ~CheckProofExistsForBatch(b) \/ MissingHash(b - 1)
  BY <1>5, Zenon
<1>. HIDE DEF b
<1>. QED  BY <1>6, <1>7, <1>8, Zenon

\* It is not below the last verified one.
LEMMA PickedBatch ==
    ASSUME HashInv
    PROVE  /\ BatchToProve.batch \in Nat \ {0} /\ TableOK(BatchToProve.proofs)
           /\ BatchToProve.batch >= verified
<1>1. PICK b \in Nat :
         /\ b > verified /\ (~CheckProofExistsForBatch(b) \/ MissingHash(b - 1))
         /\ BatchToProve = [batch  |-> IF CheckProofExistsForBatch(b) THEN b - 1 ELSE b,
                            proofs |-> IF CheckProofExistsForBatch(b) THEN {} ELSE proofs]
  BY LowestBatch, Zenon
<1>2. verified \in Nat /\ TableOK(proofs) /\ TableOK({})
  BY TableOperations, BoundariesAreBatches, SequenceTypes DEF HashInv, Types, L1Types, TableOK
<1>3. CASE CheckProofExistsForBatch(b)
  <2>1. BatchToProve.batch = b - 1 /\ BatchToProve.proofs = {}
    BY <1>1, <1>3, Zenon
  <2>2. b - 1 > 0
    BY <1>1, <1>3, Zenon DEF MissingHash
  <2>. QED  BY <1>1, <1>2, <2>1, <2>2
<1>4. CASE ~CheckProofExistsForBatch(b)
  <2>1. BatchToProve.batch = b /\ BatchToProve.proofs = proofs
    BY <1>1, <1>4, Zenon
  <2>. QED  BY <1>1, <1>2, <2>1
<1>. QED  BY <1>3, <1>4, Zenon

\* The batch is read after every hash that was stored for it.
LEMMA PickStep == ASSUME HashInv, NEW p \in Provers, GetBatchToProve(p) PROVE HashInv'
<1>0. GoroutineOK(prv[p]) /\ prv[p] \in Goroutine
  BY Goroutines, Zenon
<1>1. /\ prv[p].pc = "pick" /\ stateDBMutex = None /\ UNCHANGED <<others, accInputHashes>>
      /\ TableOK(proofs')
  BY PickedBatch, Zenon DEF GetBatchToProve
<1>2. PICK b \in Nat \ {0} : b = BatchToProve.batch
  BY PickedBatch, Zenon
<1>3. CASE b > Len(virtual)
  <2>. DEFINE i == [Idle EXCEPT !.pc = "loop"]
  <2>1. GoroutineOK(i) /\ i.pc = "loop" /\ HeldNew(i) = {} /\ i.pc \notin Section
    BY IdleOK, Zenon
  <2>2. prv' = [prv EXCEPT ![p] = i] /\ stateDBMutex' = stateDBMutex
    BY <1>2, <1>3, Zenon DEF GetBatchToProve, Become, Idle
  <2>. HIDE DEF i
  <2>3. MutexMoves(p, i.pc) /\ i.pc \notin {"hash", "set", "witness", "input", "proving"}
    BY <1>1, <2>1, <2>2, Zenon DEF MutexMoves, Section
  <2>. QED  BY <1>1, <2>1, <2>2, <2>3, QuietProver, OthersUnchanged, Zenon
<1>4. CASE ~(b > Len(virtual))
  <2>1. virtual \in Seq(Nat) /\ b \in 1 .. Len(virtual) /\ Len(virtual) <= MaxBatch /\ MaxBatch \in Nat
    BY <1>2, <1>4, BoundariesAreBatches, SequenceTypes DEF HashInv, Types, L1Types
  <2>2. PICK d \in Nat : d = virtual[b]
    BY <2>1
  <2>. DEFINE g == [Idle EXCEPT !.pc = "hash", !.batch = b, !.data = d]
  <2>3. prv' = [prv EXCEPT ![p] = g] /\ stateDBMutex' = p
    BY <1>2, <1>4, <2>2, Zenon DEF GetBatchToProve, Become
  <2>4. b \in 0 .. MaxBatch /\ b \in Batch
    BY <2>1 DEF Batch
  <2>5. /\ g \in Goroutine /\ g.pc = "hash" /\ g.inHand = FALSE /\ g.batch = b /\ g.data = d
    BY <2>4, IdleType, Zenon DEF Goroutine, ProverPC, Section
  <2>. HIDE DEF g
  <2>6. GoroutineOK(g) /\ HeldNew(g) = {}
    BY <2>4, <2>5, Zenon DEF GoroutineOK, HeldNew, Holding
  <2>7. SectionOK(g)
    <3>1. \A h \in Seen : b <= Len(h) => h[b] <= d
      BY <2>1, <2>2 DEF HashInv, HashesOK, NotNewer
    <3>. QED  BY <2>1, <2>2, <2>5, <3>1 DEF SectionOK
  <2>8. MutexMoves(p, g.pc)
    BY <1>1, <2>3, <2>5, Zenon DEF MutexMoves, Section
  <2>. QED  BY <1>1, <2>3, <2>5, <2>6, <2>7, <2>8, ProverStep, OthersUnchanged, Zenon
<1>. QED  BY <1>3, <1>4, Zenon
\* A hash follows from the stored one of the batch before.  When any stored hash
\* agrees with L1 up to the batch, so does the new one.
LEMMA CalculateStep ==
    ASSUME HashInv, NEW p \in Provers, CalculateAccInputHash(p)
    PROVE  HashInv'
<1>0. GoroutineOK(prv[p]) /\ prv[p] \in Goroutine /\ TableOK(proofs)
  BY Goroutines, Zenon
<1>1. prv[p].pc = "hash" /\ UNCHANGED <<others, accInputHashes, proofs>>
  BY Zenon DEF CalculateAccInputHash, dbVars
<1>2. PICK b \in Batch, d \in Nat : b = prv[p].batch /\ d = prv[p].data
  BY <1>0, <1>1, Zenon DEF GoroutineOK, Goroutine
<1>3. CASE MissingHash(b - 1)
  <2>. DEFINE i == [Idle EXCEPT !.pc = "loop"]
  <2>1. GoroutineOK(i) /\ i.pc = "loop" /\ HeldNew(i) = {} /\ i.pc \notin Section
    BY IdleOK, Zenon
  <2>2. prv' = [prv EXCEPT ![p] = i] /\ stateDBMutex' = None
    BY <1>2, <1>3, Zenon DEF CalculateAccInputHash, Become, Idle
  <2>. HIDE DEF i
  <2>3. MutexMoves(p, i.pc) /\ i.pc \notin {"hash", "set", "witness", "input", "proving"}
    BY <1>1, <2>1, <2>2, Zenon DEF MutexMoves, Section
  <2>. QED  BY <1>0, <1>1, <2>1, <2>2, <2>3, QuietProver, OthersUnchanged, Zenon
<1>4. CASE ~MissingHash(b - 1)
  <2>0. /\ b \in Nat /\ b - 1 \in 0 .. MaxBatch /\ b - 1 \in Nat /\ b \in 1 .. MaxBatch
        /\ MaxBatch \in Nat /\ virtual \in Seq(Nat) /\ Len(virtual) \in Nat
    BY SequenceTypes DEF Batch, HashInv, Types, L1Types
  <2>1. PICK o \in Seq(Nat) : o = accInputHashes[b - 1] /\ o \in Seen
    BY <2>0 DEF HashInv, Types, TableTypes, Seen
  <2>2. Len(o) = b - 1
    <3>1. Len(o) \in {0, b - 1}
      BY <2>0, <2>1, Zenon DEF HashInv, HashesOK
    <3>2. o # << >> \/ b - 1 = 0
      BY <1>4, <2>0, <2>1 DEF MissingHash
    <3>. QED  BY <2>0, <3>1, <3>2
  <2>3. PICK a \in Seq(Nat) : /\ a = Append(o, d) /\ Len(a) = b /\ a[b] = d
                              /\ \A i \in 1 .. b - 1 : a[i] = o[i]
    <3>1. /\ Append(o, d) \in Seq(Nat) /\ Len(Append(o, d)) = Len(o) + 1
          /\ Append(o, d)[Len(o) + 1] = d
          /\ \A i \in 1 .. Len(o) : Append(o, d)[i] = o[i]
      OBVIOUS
    <3>2. Len(o) + 1 = b
      BY <2>0, <2>2, SMTT(30)
    <3>. QED  BY <2>2, <3>1, <3>2, Zenon
  <2>. DEFINE g == [prv[p] EXCEPT !.pc = "set", !.acc = a]
  <2>4. prv' = [prv EXCEPT ![p] = g] /\ stateDBMutex' = stateDBMutex
    BY <1>2, <1>4, <2>1, <2>3, Zenon DEF CalculateAccInputHash, Become
  <2>5. /\ g \in Goroutine /\ g.pc = "set" /\ g.inHand = prv[p].inHand /\ g.acc = a
        /\ g.batch = b /\ g.data = d
    BY <1>0, <1>2, Zenon DEF Goroutine, ProverPC, Section
  <2>. HIDE DEF g
  <2>6. GoroutineOK(g) /\ HeldNew(g) = {}
    BY <1>0, <1>1, <2>5, Zenon DEF GoroutineOK, HeldNew, Holding
  <2>7. SectionOK(g)
    <3>1. /\ IF b <= Len(virtual) THEN d <= virtual[b] ELSE d < version
          /\ \A h \in Seen : b <= Len(h) => h[b] <= d
      BY <1>1, <1>2, Zenon DEF HashInv, HashesOK, SectionOK
    <3>2. NotNewer(o) /\ Supports(o, b - 1)
      BY <2>1, <2>2, Zenon DEF HashInv, HashesOK
    <3>3. NotNewer(a)
      BY <2>0, <2>2, <2>3, <3>1, <3>2 DEF NotNewer
    <3>4. ASSUME NEW m \in 1 .. b - 1 PROVE Matches(a, m) <=> Matches(o, m)
      BY <2>0, <2>2, <2>3, SMTT(30) DEF Matches
    <3>5. Supports(a, b - 1)
      BY <3>2, <3>4, Zenon DEF Supports
    <3>6. ASSUME NEW h \in Seen, Matches(h, b) PROVE Matches(a, b)
      <4>0. h \in Seq(Nat) /\ Supports(h, Len(h)) /\ Len(h) \in Nat
        BY DEF HashInv, HashesOK, NotNewer
      <4>1. b <= Len(h) /\ b <= Len(virtual) /\ \A i \in 1 .. b : h[i] = virtual[i]
        BY <3>6, Zenon DEF Matches
      <4>2. d = virtual[b]
        <5>1. b \in 1 .. b /\ b \in DOMAIN virtual /\ virtual[b] \in Nat
          BY <2>0, <4>1
        <5>2. h[b] <= d /\ h[b] = virtual[b]
          BY <3>1, <4>1, <5>1, Zenon
        <5>3. d <= virtual[b]
          BY <3>1, <4>1, Zenon
        <5>. QED  BY <5>1, <5>2, <5>3
      <4>3. CASE b = 1
        BY <2>0, <2>3, <4>1, <4>2, <4>3 DEF Matches
      <4>4. CASE b > 1
        <5>1. Matches(h, b - 1) /\ b - 1 \in 1 .. Len(h)
          BY <2>0, <4>0, <4>1, <4>4, SMTT(30) DEF Matches
        <5>2. o = << >> \/ Matches(o, b - 1)
          BY <2>1, <4>0, <5>1, Zenon DEF Supports
        <5>3. Matches(o, b - 1)
          BY <2>0, <2>2, <4>4, <5>2
        <5>. QED  BY <2>0, <2>3, <4>1, <4>2, <5>3 DEF Matches
      <4>. QED  BY <2>0, <4>3, <4>4
    <3>. QED  BY <2>3, <2>5, <3>1, <3>3, <3>5, <3>6, Zenon DEF SectionOK
  <2>8. MutexMoves(p, g.pc)
    BY <1>1, <2>4, <2>5, Zenon DEF MutexMoves, Section
  <2>. QED  BY <1>0, <1>1, <2>4, <2>5, <2>6, <2>7, <2>8, ProverStep, OthersUnchanged, Zenon
<1>. QED  BY <1>3, <1>4, Zenon

\* The hash is stored: it agrees with L1 on the batch if any other one does.
LEMMA StoreHashStep == ASSUME HashInv, NEW p \in Provers, setAccInputHash(p) PROVE HashInv'
<1>0. /\ GoroutineOK(prv[p]) /\ prv[p] \in Goroutine /\ TableOK(proofs) /\ DOMAIN prv = Provers
      /\ HeldNew(prv[p]) \subseteq Seen
  BY Goroutines, Zenon
<1>1. /\ prv[p].pc = "set" /\ UNCHANGED <<others, proofs, stateDBMutex>>
      /\ accInputHashes' = [accInputHashes EXCEPT ![prv[p].batch] = prv[p].acc]
  BY Zenon DEF setAccInputHash, dbVars
<1>2. PICK b \in Batch, a \in Seq(Nat) : b = prv[p].batch /\ a = prv[p].acc
  BY <1>0, <1>1, Zenon DEF GoroutineOK, Goroutine
<1>. DEFINE g == [prv[p] EXCEPT !.pc = "witness"]
<1>3. prv' = [prv EXCEPT ![p] = g]
  BY <1>0, Zenon DEF setAccInputHash, Goto
<1>4. /\ g \in Goroutine /\ g.pc = "witness" /\ g.inHand = prv[p].inHand /\ g.acc = a
      /\ g.batch = b
  BY <1>0, <1>2, ZenonT(30) DEF Goroutine, ProverPC, Section
<1>. HIDE DEF g
<1>5. GoroutineOK(g) /\ HeldNew(g) = {}
  BY <1>0, <1>1, <1>4, Zenon DEF GoroutineOK, HeldNew, Holding
<1>6. MutexMoves(p, g.pc)
  BY <1>1, <1>4, Zenon DEF MutexMoves, Section
<1>7. ProverTypes' /\ prv'[p] = g /\ \A q \in Provers \ {p} : prv'[q] = prv[q]
  BY <1>3, <1>5, <1>6, ProverMoves, Zenon DEF HashInv, Types
<1>8. /\ UNCHANGED <<virtual, verified, pending, rollbacks, reorgs, rb, snd>>
      /\ version' = version
  BY <1>1, OthersUnchanged, Zenon DEF version
<1>9. /\ accInputHashes' \in [0 .. MaxBatch -> Seq(Nat)] /\ accInputHashes'[b] = a
      /\ \A n \in 0 .. MaxBatch : n # b => accInputHashes'[n] = accInputHashes[n]
      /\ b \in 1 .. MaxBatch /\ MaxBatch \in Nat /\ b \in Nat
  BY <1>1, <1>2, SequenceTypes, SMTT(30) DEF HashInv, Types, TableTypes, Batch
<1>10. L1Types' /\ SenderTypes' /\ TableTypes'
  BY <1>1, <1>8, <1>9, Zenon DEF HashInv, Types, L1Types, SenderTypes, TableTypes
<1>11. /\ Len(a) = b /\ NotNewer(a) /\ Supports(a, b - 1)
       /\ \A h \in Seen : Matches(h, b) => Matches(a, b)
  <2>1. SectionOK(prv[p])
    BY Zenon DEF HashInv, HashesOK
  <2>. QED  BY <1>1, <1>2, <2>1, Zenon DEF SectionOK
<1>12. ProvenHashes' \subseteq Seen
  BY <1>1, <1>5, <1>7, <1>8, HashesOfProofs, HeldAreSeen, Zenon
<1>13. Seen' \subseteq Seen \cup {a}
  <2>1. \A n \in 0 .. MaxBatch : accInputHashes'[n] \in Seen \cup {a}
    BY <1>9, Zenon DEF Seen
  <2>2. \A q \in Provers : prv'[q].pc \in {"witness", "input", "proving"} => prv'[q].acc \in Seen \cup {a}
    BY <1>4, <1>7, Zenon DEF Seen
  <2>3. SubSeq(virtual', 1, verified') \in Seen
    BY <1>8, Zenon DEF Seen
  <2>. QED  BY <1>12, <2>1, <2>2, <2>3, ZenonT(30) DEF Seen
<1>14. /\ \A h : NotNewer(h)' = NotNewer(h)
       /\ \A h, m : Matches(h, m)' = Matches(h, m)
  BY <1>8, Zenon DEF NotNewer, Matches
<1>15. ASSUME NEW h \in Seen \cup {a}, NEW m \in 1 .. Len(h), Matches(h, m)
       PROVE  accInputHashes'[m] = << >> \/ Matches(accInputHashes'[m], m)
  <2>0. /\ Len(virtual) \in 0 .. MaxBatch /\ m \in Nat /\ m <= Len(virtual) /\ m \in 1 .. MaxBatch
    BY <1>9, <1>15, BoundariesAreBatches DEF HashInv, Types, L1Types, Matches
  <2>1. CASE m = b
    <3>1. Matches(a, b)
      BY <1>11, <1>15, <2>1, Zenon
    <3>. QED  BY <1>9, <2>1, <3>1, Zenon
  <2>2. CASE m # b
    <3>1. accInputHashes'[m] = accInputHashes[m]
      BY <1>9, <2>0, <2>2
    <3>2. CASE h \in Seen
      <4>1. Supports(h, Len(h))
        BY <3>2, Zenon DEF HashInv, HashesOK
      <4>. QED  BY <1>15, <3>1, <4>1, Zenon DEF Supports
    <3>3. CASE h = a
      <4>1. m \in 1 .. b - 1
        BY <1>9, <1>11, <2>2, <3>3
      <4>. QED  BY <1>11, <1>15, <3>1, <3>3, <4>1, Zenon DEF Supports
    <3>. QED  BY <3>2, <3>3, Zenon
  <2>. QED  BY <2>1, <2>2, Zenon
<1>16. \A h \in Seen' : NotNewer(h)' /\ Supports(h, Len(h))'
  <2>1. \A h \in Seen \cup {a} : NotNewer(h)
    BY <1>11, Zenon DEF HashInv, HashesOK
  <2>2. ASSUME NEW h \in Seen \cup {a} PROVE Supports(h, Len(h))'
    BY <1>14, <1>15, Zenon DEF Supports
  <2>. QED  BY <1>13, <1>14, <2>1, <2>2, Zenon
<1>17. \A n \in 0 .. MaxBatch : Len(accInputHashes'[n]) \in {0, n}
  BY <1>9, <1>11, Zenon DEF HashInv, HashesOK
<1>18. \A q \in Provers : prv'[q].pc \notin {"hash", "set"}
  <2>1. \A q \in Provers \ {p} : prv[q].pc \notin Section
    BY <1>1, Zenon DEF HashInv, Types, ProverTypes, Section
  <2>. QED  BY <1>4, <1>7, <2>1, Zenon DEF Section
<1>19. HashesOK'
  <2>1. \A q \in Provers : SectionOK(prv[q])'
    BY <1>18, Zenon DEF SectionOK
  <2>2. \A i \in 1 .. Len(virtual') : virtual'[i] <= version'
    BY <1>8, Zenon DEF HashInv, HashesOK
  <2>. QED  BY <1>16, <1>17, <2>1, <2>2, Zenon DEF HashesOK
<1>. QED  BY <1>7, <1>10, <1>19, Zenon DEF HashInv, Types

\* Without rollbacks and reorganisations the synchronizer never calls back.
LEMMA NoCallbacks ==
    ASSUME MaxRollbacks = 0, MaxReorgs = 0, HashInv, ValidInv PROVE ~Callback
<1>1. rollbacks \in Nat /\ reorgs \in Nat /\ rb.pc = "none"
  BY Zenon DEF ValidInv, HashInv, Types, L1Types
<1>2. \A last : ~RollbackBatches(last) /\ ~ReorgL1(last)
  <2>1. ~(rollbacks < MaxRollbacks) /\ ~(reorgs < MaxReorgs)
    BY <1>1
  <2>. QED  BY <2>1, Zenon DEF RollbackBatches, ReorgL1
<1>. QED  BY <1>1, <1>2, Zenon
             DEF Callback, ResetAccInputHashes, DeleteWipProofs, DeleteRolledBackProofs,
         CallbackFails
=============================================================================
