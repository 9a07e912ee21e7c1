------------------------ MODULE AggregatorWorkProofs ------------------------
(***************************************************************************)
(* Proofs about Aggregator while L1 takes back no batch, no lock expires   *)
(* under its owner and the process is not restarted, for any provers and   *)
(* sequences, any settlement backend and any number of failed calls: the   *)
(* locks of the table and stateDBMutex keep the goroutines apart.          *)
(*                                                                         *)
(* The argument: every goroutine has claims, ranges of batches that are    *)
(* locked in the table, or that no row covers; the claims of different     *)
(* goroutines have no batch in common, and a row can be locked, or a batch *)
(* picked, only where nobody has a claim.                                  *)
(***************************************************************************)
EXTENDS AggregatorProverProofs

Building == {"hash", "set", "witness"}

\* What a goroutine works on: its proof, the two proofs it joins, or the batch that
\* getAndLockBatchToProve is about to insert.
Claims(g) ==
    IF Holding(g) \/ g.pc \in {"input", "proving"} THEN {g.proof}
    ELSE IF g.pc = "aggregating" THEN {g.proof, g.other}
    ELSE IF g.pc \in Building THEN {[from |-> g.batch, to |-> g.batch]} ELSE {}

Apart(k, l) == k.to < l.from \/ l.to < k.from

LockedIn(T, k)  == \E r \in T : r.locked /\ SameRange(r, k)
Uncovered(T, k) == \A r \in T : Apart(r, k)

RowsOK(T) == \A r \in T : r.from <= r.to /\ \A q \in T : r = q \/ Apart(r, q)

\* getAndLockBatchToProve does not stop at the batch because of its hash.
HashKnown(n) == n <= verified \/ ~MissingHash(n - 1)

HashesThere(T) == \A r \in T : \A n \in r.from .. r.to : HashKnown(n)

GoroutineWorks(T, g) ==
    /\ \A k \in Claims(g) :
          /\ k.from <= k.to
          /\ \/ LockedIn(T, k)
             \/ Uncovered(T, k) /\ (g.pc \in Building \/ (g.pc = "store" /\ k.to <= verified))
    /\ g.pc = "aggregating" => g.other.from = g.proof.to + 1
    /\ g.pc \in {"input", "proving"} => g.proof.from = g.batch /\ g.proof.to = g.batch
    /\ g.pc \in {"set", "witness"} => HashKnown(g.batch)
    /\ g.last <= verified

SenderWorks ==
    IF snd.pc = "wait" THEN snd.proof = None
    ELSE /\ snd.proof.from <= snd.proof.to /\ LockedIn(proofs, snd.proof)
         /\ \A p \in Provers : \A k \in Claims(prv[p]) : Apart(k, snd.proof)

WorkInv ==
    /\ expired = 0 /\ restarts = 0
    /\ RowsOK(proofs) /\ HashesThere(proofs)
    /\ \A p \in Provers : GoroutineWorks(proofs, prv[p])
    /\ \A p, q \in Provers : p # q => \A k \in Claims(prv[p]), l \in Claims(prv[q]) : Apart(k, l)
    /\ SenderWorks

-----------------------------------------------------------------------------
(* The rows of the table                                                   *)

\* T and U differ only in rows of the batches lo .. hi.
Within(T, U, lo, hi) ==
    /\ \A r \in T : r \in U \/ (lo <= r.from /\ r.to <= hi)
    /\ \A r \in U : r \in T \/ (lo <= r.from /\ r.to <= hi)

\* The ranges of U are among those of T.
Narrower(T, U) == \A r \in U : \E q \in T : SameRange(q, r)

\* The numbers of a row.
LEMMA RowNumbers == \A r \in Rows : r.from \in Nat /\ r.to \in Nat
  BY SequenceTypes DEF Rows, Batch

\* A range keeps its lock, or stays without a row, when rows change that have no
\* batch in common with it.
LEMMA StatusKept ==
    ASSUME NEW T, NEW U, T \subseteq Rows, U \subseteq Rows, RowsOK(U),
           NEW lo \in Nat, NEW hi \in Nat, Within(T, U, lo, hi),
           NEW k, k.from \in Nat, k.to \in Nat, k.from <= k.to, k.to < lo \/ hi < k.from
    PROVE  /\ LockedIn(T, k) => LockedIn(U, k)
           /\ Uncovered(T, k) => Uncovered(U, k)
<1>1. ASSUME NEW r \in T, r.locked, SameRange(r, k) PROVE r \in U
  <2>1. ~(lo <= r.from /\ r.to <= hi)
    BY <1>1 DEF SameRange
  <2>. QED  BY <2>1, Zenon DEF Within
<1>2. ASSUME Uncovered(T, k), NEW r \in U PROVE Apart(r, k)
  <2>1. r.from \in Nat /\ r.to \in Nat /\ r.from <= r.to
    BY RowNumbers, Zenon DEF RowsOK
  <2>2. CASE lo <= r.from /\ r.to <= hi
    BY <2>1, <2>2 DEF Apart
  <2>. QED  BY <1>2, <2>2, Zenon DEF Within, Uncovered
<1>. QED  BY <1>1, <1>2, Zenon DEF LockedIn, Uncovered

\* What UpdateGeneratedProof does to the rows.
LEMMA UpdateRows ==
    ASSUME NEW T, T \subseteq Rows, RowsOK(T), NEW x \in Rows, NEW lo \in Nat, NEW hi \in Nat,
           lo <= x.from, x.to <= hi
    PROVE  LET U == UpdateGeneratedProof(T, x)
           IN  U \subseteq Rows /\ RowsOK(U) /\ Within(T, U, lo, hi) /\ Narrower(T, U)
<1>. DEFINE U == UpdateGeneratedProof(T, x)
<1>1. ASSUME NEW r \in U PROVE \E q \in T : SameRange(q, r) /\ (IF SameRange(q, x) THEN r = x ELSE r = q)
  BY Zenon DEF UpdateGeneratedProof, SameRange
<1>2. U \subseteq Rows /\ Narrower(T, U)
  BY <1>1 DEF Narrower
<1>3. RowsOK(U)
  <2>1. SUFFICES ASSUME NEW r \in U, NEW q \in U PROVE r.from <= r.to /\ (r = q \/ Apart(r, q))
    BY Zenon DEF RowsOK
  <2>2. PICK a \in T : SameRange(a, r) /\ (IF SameRange(a, x) THEN r = x ELSE r = a)
    BY <1>1, Zenon
  <2>3. PICK b \in T : SameRange(b, q) /\ (IF SameRange(b, x) THEN q = x ELSE q = b)
    BY <1>1, Zenon
  <2>4. a.from <= a.to /\ (a = b \/ Apart(a, b))
    BY Zenon DEF RowsOK
  <2>5. r.from <= r.to /\ (Apart(a, b) => Apart(r, q))
    BY <2>2, <2>3, <2>4, Zenon DEF SameRange, Apart
  <2>6. a = b => r = q
    BY <2>2, <2>3
  <2>. QED  BY <2>4, <2>5, <2>6, Zenon
<1>4. Within(T, U, lo, hi)
  <2>1. ASSUME NEW r \in T PROVE r \in U \/ (lo <= r.from /\ r.to <= hi)
    BY Zenon DEF UpdateGeneratedProof, SameRange
  <2>2. ASSUME NEW r \in U PROVE r \in T \/ (lo <= r.from /\ r.to <= hi)
    BY <1>1
  <2>. QED  BY <2>1, <2>2, Zenon DEF Within
<1>. QED  BY <1>2, <1>3, <1>4, Zenon

\* What DeleteGeneratedProofs does to the rows.
LEMMA DeleteRows ==
    ASSUME NEW T, T \subseteq Rows, RowsOK(T), NEW lo \in Nat, NEW hi \in Nat
    PROVE  LET U == DeleteGeneratedProofs(T, lo, hi)
           IN  U \subseteq T /\ RowsOK(U) /\ Within(T, U, lo, hi) /\ Narrower(T, U)
  BY Zenon DEF DeleteGeneratedProofs, RowsOK, Within, Narrower, SameRange

\* Two changes within the same batches.
LEMMA WithinTwice ==
    ASSUME NEW T, NEW U, NEW V, NEW lo, NEW hi, Within(T, U, lo, hi), Within(U, V, lo, hi),
           Narrower(T, U), Narrower(U, V)
    PROVE  Within(T, V, lo, hi) /\ Narrower(T, V)
  BY DEF Within, Narrower, SameRange

\* An unlocked row has no batch in common with anybody's claim.
LEMMA UnlockedIsApart ==
    ASSUME NEW T, RowsOK(T), NEW r \in T, ~r.locked, NEW k, LockedIn(T, k) \/ Uncovered(T, k)
    PROVE  Apart(k, r)
  BY Zenon DEF RowsOK, LockedIn, Uncovered, Apart, SameRange

-----------------------------------------------------------------------------
(* The claims                                                              *)

\* Only rows, and batches, are claimed.
LEMMA ClaimNumbers ==
    ASSUME NEW g, GoroutineOK(g) PROVE \A k \in Claims(g) : k.from \in Nat /\ k.to \in Nat
<1>1. g.batch \in Nat
  BY SequenceTypes DEF GoroutineOK, Goroutine
<1>2. \A k \in Claims(g) : k \in Rows \/ k = [from |-> g.batch, to |-> g.batch]
  BY RowFacts, Zenon DEF Claims, GoroutineOK, Holding
<1>. QED  BY <1>1, <1>2, RowNumbers

\* Nobody but goroutine p has a claim to a batch of lo .. hi.
OthersFree(p, lo, hi) ==
    /\ \A q \in Provers : q # p => \A k \in Claims(prv[q]) : k.to < lo \/ hi < k.from
    /\ snd.pc # "wait" => snd.proof.to < lo \/ hi < snd.proof.from

\* ... as for a claim of its own,
LEMMA OwnArea ==
    ASSUME WorkInv, NEW p \in Provers, NEW k \in Claims(prv[p]) PROVE OthersFree(p, k.from, k.to)
  BY Zenon DEF WorkInv, SenderWorks, OthersFree, Apart

\* for a row that it can lock,
LEMMA UnlockedArea ==
    ASSUME WorkInv, NEW p \in Provers, NEW r \in proofs, ~r.locked
    PROVE  OthersFree(p, r.from, r.to)
<1>1. ASSUME NEW q \in Provers, NEW k \in Claims(prv[q]) PROVE k.to < r.from \/ r.to < k.from
  <2>1. LockedIn(proofs, k) \/ Uncovered(proofs, k)
    BY Zenon DEF WorkInv, GoroutineWorks
  <2>. QED  BY <2>1, UnlockedIsApart, Zenon DEF WorkInv, Apart
<1>2. ASSUME snd.pc # "wait" PROVE snd.proof.to < r.from \/ r.to < snd.proof.from
  <2>1. LockedIn(proofs, snd.proof)
    BY <1>2, Zenon DEF WorkInv, SenderWorks
  <2>. QED  BY <2>1, UnlockedIsApart, Zenon DEF WorkInv, Apart
<1>. QED  BY <1>1, <1>2, Zenon DEF OthersFree

\* and for two neighbours.
LEMMA JoinedArea ==
    ASSUME HashInv, WorkInv, NEW p \in Provers, NEW lo \in Nat, NEW mid \in Nat, NEW hi \in Nat,
           OthersFree(p, lo, mid), OthersFree(p, mid + 1, hi)
    PROVE  OthersFree(p, lo, hi)
<1>1. ASSUME NEW q \in Provers, q # p, NEW k \in Claims(prv[q]) PROVE k.to < lo \/ hi < k.from
  <2>1. k.from \in Nat /\ k.to \in Nat /\ k.from <= k.to
    BY ClaimNumbers, Goroutines, Zenon DEF WorkInv, GoroutineWorks
  <2>2. (k.to < lo \/ mid < k.from) /\ (k.to < mid + 1 \/ hi < k.from)
    BY <1>1, Zenon DEF OthersFree
  <2>. QED  BY <2>1, <2>2
<1>2. ASSUME snd.pc # "wait" PROVE snd.proof.to < lo \/ hi < snd.proof.from
  <2>1. /\ snd.proof.from \in Nat /\ snd.proof.to \in Nat /\ snd.proof.from <= snd.proof.to
    BY <1>2, RowFacts, RowNumbers, Zenon DEF WorkInv, SenderWorks, HashInv, Types, SenderTypes
  <2>2. /\ snd.proof.to < lo \/ mid < snd.proof.from
        /\ snd.proof.to < mid + 1 \/ hi < snd.proof.from
    BY <1>2, Zenon DEF OthersFree
  <2>. QED  BY <2>1, <2>2
<1>. QED  BY <1>1, <1>2, Zenon DEF OthersFree

\* Rows of the same ranges have the same hashes.
LEMMA NarrowerHashes ==
    ASSUME NEW T, NEW U, HashesThere(T), Narrower(T, U) PROVE HashesThere(U)
  BY Zenon DEF HashesThere, Narrower, SameRange

\* A goroutine keeps its claims when the table changes elsewhere.
LEMMA OtherWorks ==
    ASSUME HashInv, WorkInv, NEW p \in Provers, NEW q \in Provers, q # p,
           NEW U, U \subseteq Rows, RowsOK(U), NEW lo \in Nat, NEW hi \in Nat,
           Within(proofs, U, lo, hi), OthersFree(p, lo, hi)
    PROVE  GoroutineWorks(U, prv[q])
<1>1. GoroutineWorks(proofs, prv[q]) /\ proofs \subseteq Rows
  BY Zenon DEF WorkInv, HashInv, Types, TableTypes
<1>2. ASSUME NEW k \in Claims(prv[q])
      PROVE  /\ LockedIn(proofs, k) => LockedIn(U, k)
             /\ Uncovered(proofs, k) => Uncovered(U, k)
  <2>1. k.from \in Nat /\ k.to \in Nat /\ k.from <= k.to /\ (k.to < lo \/ hi < k.from)
    BY <1>1, ClaimNumbers, Goroutines, Zenon DEF GoroutineWorks, OthersFree
  <2>. QED  BY <1>1, <2>1, StatusKept, Zenon
<1>. QED  BY <1>1, <1>2, Zenon DEF GoroutineWorks

\* So does sendFinalProof.
LEMMA SenderLock ==
    ASSUME HashInv, WorkInv, NEW p, snd.pc # "wait",
           NEW U, U \subseteq Rows, RowsOK(U), NEW lo \in Nat, NEW hi \in Nat,
           Within(proofs, U, lo, hi), OthersFree(p, lo, hi)
    PROVE  LockedIn(U, snd.proof)
<1>1. proofs \subseteq Rows /\ LockedIn(proofs, snd.proof)
  BY Zenon DEF WorkInv, SenderWorks, HashInv, Types, TableTypes
<1>2. /\ snd.proof.from \in Nat /\ snd.proof.to \in Nat /\ snd.proof.from <= snd.proof.to
      /\ snd.proof.to < lo \/ hi < snd.proof.from
  BY RowFacts, RowNumbers, Zenon DEF WorkInv, SenderWorks, HashInv, Types, SenderTypes, OthersFree
<1>. QED  BY <1>1, <1>2, StatusKept, Zenon

HashesStayKnown == \A n \in 0 .. MaxBatch : HashKnown(n) => HashKnown(n)'

\* What a goroutine works on, in the next state.
LEMMA WorksLater ==
    ASSUME NEW U, NEW g, GoroutineWorks(U, g), g.batch \in 0 .. MaxBatch, HashesStayKnown,
           verified \in Nat, verified' \in Nat, verified <= verified', g.last \in Nat,
           \A k \in Claims(g) : k.to \in Nat
    PROVE  GoroutineWorks(U, g)'
<1>1. Claims(g)' = Claims(g)
  BY Zenon DEF Claims, Holding
<1>2. \A k : LockedIn(U, k)' = LockedIn(U, k) /\ Uncovered(U, k)' = Uncovered(U, k)
  BY Zenon DEF LockedIn, Uncovered, SameRange, Apart
<1>3. HashKnown(g.batch) => HashKnown(g.batch)'
  BY Zenon DEF HashesStayKnown
<1>4. \A k \in Claims(g) : k.to <= verified => k.to <= verified'
  OBVIOUS
<1>5. g.last <= verified'
  BY DEF GoroutineWorks
<1>. QED  BY <1>1, <1>2, <1>3, <1>4, <1>5, Zenon DEF GoroutineWorks

\* The hashes of the rows, in the next state.
LEMMA HashesLater ==
    ASSUME NEW U, U \subseteq Rows, HashesThere(U), HashesStayKnown PROVE HashesThere(U)'
<1>1. ASSUME NEW r \in U, NEW n \in r.from .. r.to PROVE HashKnown(n)'
  <2>1. n \in 0 .. MaxBatch /\ HashKnown(n)
    BY SequenceTypes DEF HashesThere, Rows, Batch
  <2>. QED  BY <2>1, Zenon DEF HashesStayKnown
<1>. QED  BY <1>1, Zenon DEF HashesThere

\* A step of goroutine p that changes rows, and makes claims, only in an area where
\* nobody else has a claim.
LEMMA AreaStep ==
    ASSUME HashInv, HashInv', WorkInv, NEW p \in Provers, NEW g, prv' = [prv EXCEPT ![p] = g],
           NEW U, U = proofs', RowsOK(U), HashesThere(U), GoroutineWorks(U, g),
           NEW lo \in Nat, NEW hi \in Nat, Within(proofs, U, lo, hi), OthersFree(p, lo, hi),
           \A k \in Claims(g) : lo <= k.from /\ k.to <= hi,
           UNCHANGED <<verified, snd, expired, restarts>>, HashesStayKnown
    PROVE  WorkInv'
<1>1. /\ U \subseteq Rows /\ verified \in Nat /\ prv'[p] = g /\ GoroutineOK(g)
      /\ \A q \in Provers : q # p => prv'[q] = prv[q]
  <2>1. DOMAIN prv = Provers /\ verified \in Nat
    BY Goroutines, Zenon
  <2>2. proofs' \subseteq Rows /\ GoroutineOK(prv'[p])
    BY Zenon DEF HashInv, Types, TableTypes, ProverTypes, GoroutineOK, Holding
  <2>. QED  BY <2>1, <2>2, Zenon
<1>2. ASSUME NEW q \in Provers PROVE GoroutineWorks(proofs, prv[q])'
  <2>1. PICK h : h = prv'[q]
    BY Zenon
  <2>2. GoroutineOK(h) /\ GoroutineWorks(U, h)
    BY <1>1, <2>1, OtherWorks, Goroutines, Zenon
  <2>3. h.batch \in 0 .. MaxBatch /\ h.last \in Nat
    BY <2>2, Zenon DEF GoroutineOK, Goroutine
  <2>4. \A k \in Claims(h) : k.to \in Nat
    BY <2>2, ClaimNumbers, Zenon
  <2>5. GoroutineWorks(U, h)'
    BY <1>1, <2>2, <2>3, <2>4, WorksLater, SMTT(30)
  <2>. QED  BY <2>1, <2>5, Zenon DEF GoroutineWorks
<1>3. ASSUME NEW q \in Provers PROVE Claims(prv[q])' = IF q = p THEN Claims(g) ELSE Claims(prv[q])
  BY <1>1, Zenon DEF Claims, Holding
<1>4. \A k \in Claims(g) : k.from \in Nat /\ k.to \in Nat
  BY <1>1, ClaimNumbers, Zenon
<1>5. ASSUME NEW q \in Provers, q # p, NEW k \in Claims(g), NEW l \in Claims(prv[q])
      PROVE  Apart(k, l) /\ Apart(l, k)
  <2>1. l.from \in Nat /\ l.to \in Nat
    BY ClaimNumbers, Goroutines, Zenon
  <2>. QED  BY <1>4, <1>5, <2>1 DEF OthersFree, Apart
<1>6. ASSUME NEW q \in Provers, NEW r \in Provers, q # r
      PROVE  (\A k \in Claims(prv[q]), l \in Claims(prv[r]) : Apart(k, l))'
  <2>1. (\A k \in Claims(prv[q])', l \in Claims(prv[r])' : Apart(k, l))
    <3>1. CASE q # p /\ r # p
      BY <1>3, <1>6, <3>1, Zenon DEF WorkInv
    <3>. QED  BY <1>3, <1>5, <1>6, <3>1, Zenon
  <2>. QED  BY <2>1, Zenon DEF Apart
<1>7. SenderWorks'
  <2>1. CASE snd.pc = "wait"
    BY <2>1, Zenon DEF WorkInv, SenderWorks
  <2>2. CASE snd.pc # "wait"
    <3>1. LockedIn(U, snd.proof) /\ snd.proof.from <= snd.proof.to
      BY <1>1, <2>2, SenderLock, Zenon DEF WorkInv, SenderWorks
    <3>2. snd.proof.from \in Nat /\ snd.proof.to \in Nat
      BY <2>2, RowFacts, RowNumbers, Zenon DEF HashInv, Types, SenderTypes
    <3>3. ASSUME NEW q \in Provers, NEW k \in Claims(prv[q])' PROVE Apart(k, snd.proof)
      <4>1. CASE q = p
        BY <1>3, <1>4, <2>2, <3>2, <3>3, <4>1 DEF OthersFree, Apart
      <4>. QED  BY <1>3, <2>2, <3>3, <4>1, Zenon DEF WorkInv, SenderWorks
    <3>. QED  BY <2>2, <3>1, <3>3, Zenon DEF SenderWorks, LockedIn, SameRange, Apart
  <2>. QED  BY <2>1, <2>2, Zenon
<1>8. RowsOK(proofs)' /\ HashesThere(proofs)'
  <2>1. HashesThere(U)'
    BY <1>1, HashesLater, Zenon
  <2>. QED  BY <2>1, Zenon DEF RowsOK, Apart, HashesThere
<1>. QED  BY <1>2, <1>6, <1>7, <1>8, Zenon DEF WorkInv

-----------------------------------------------------------------------------
(* The steps of a goroutine                                                *)

\* Where a goroutine with nothing in hand has no claim.
Resting == {"loop", "check", "ready", "lock", "aggregate", "pick", "stuck", "halted"}

\* What the steps of the goroutines leave alone, but for setAccInputHash.
ProverFrame == UNCHANGED <<verified, snd, expired, restarts, accInputHashes>>

\* The hashes stay where they are.
LEMMA FrameHashes == ASSUME UNCHANGED <<verified, accInputHashes>> PROVE HashesStayKnown
  BY Zenon DEF HashesStayKnown, HashKnown, MissingHash

\* The number of the last verified batch.
LEMMA VerifiedType == ASSUME HashInv PROVE verified \in Nat /\ 0 <= verified
<1>1. verified \in 0 .. Len(virtual)
  BY Zenon DEF HashInv, Types, L1Types
<1>. QED  BY <1>1

\* The invariant for goroutine p.
LEMMA WorkBefore ==
    ASSUME HashInv, WorkInv, NEW p \in Provers
    PROVE  /\ GoroutineOK(prv[p]) /\ prv[p] \in Goroutine /\ DOMAIN prv = Provers
           /\ GoroutineWorks(proofs, prv[p]) /\ prv[p].last <= verified
           /\ proofs \subseteq Rows /\ RowsOK(proofs) /\ HashesThere(proofs) /\ verified \in Nat
  BY Goroutines, Zenon DEF WorkInv, GoroutineWorks, HashInv, Types, TableTypes

\* A goroutine with a proof in hand.
LEMMA HolderWorks ==
    ASSUME NEW T, NEW g, Holding(g), g.pc \in {"check", "ready", "validate", "build", "send", "store"},
           g.proof.from <= g.proof.to, g.last <= verified,
           \/ LockedIn(T, g.proof)
           \/ Uncovered(T, g.proof) /\ g.pc = "store" /\ g.proof.to <= verified
    PROVE  Claims(g) = {g.proof} /\ GoroutineWorks(T, g)
  BY Zenon DEF Claims, GoroutineWorks, Building

\* A goroutine without one.
LEMMA RestingWorks ==
    ASSUME NEW T, NEW g, ~Holding(g), g.pc \in Resting, g.last <= verified
    PROVE  Claims(g) = {} /\ GoroutineWorks(T, g)
  BY Zenon DEF Claims, GoroutineWorks, Building, Resting

\* Goroutine p gives up its claims.
LEMMA ReleaseStep ==
    ASSUME HashInv, HashInv', WorkInv, NEW p \in Provers, NEW g, prv' = [prv EXCEPT ![p] = g],
           ~Holding(g), g.pc \in Resting, g.last <= verified, ProverFrame,
           NEW U, U = proofs', RowsOK(U), Narrower(proofs, U),
           NEW lo \in Nat, NEW hi \in Nat, Within(proofs, U, lo, hi), OthersFree(p, lo, hi)
    PROVE  WorkInv'
<1>1. Claims(g) = {} /\ GoroutineWorks(U, g)
  BY RestingWorks, Zenon
<1>2. HashesStayKnown /\ UNCHANGED <<verified, snd, expired, restarts>>
  BY FrameHashes, Zenon DEF ProverFrame
<1>3. HashesThere(U)
  BY WorkBefore, NarrowerHashes, Zenon
<1>4. \A k \in Claims(g) : lo <= k.from /\ k.to <= hi
  BY <1>1, Zenon
<1>. QED  BY <1>1, <1>2, <1>3, <1>4, AreaStep, Zenon

\* Nobody has a claim above the last batch.
LEMMA NowhereArea ==
    ASSUME HashInv, NEW p PROVE OthersFree(p, MaxBatch + 1, MaxBatch + 1) /\ MaxBatch + 1 \in Nat
<1>1. MaxBatch \in Nat /\ \A r \in Rows : r.to \in Nat /\ r.to <= MaxBatch
  BY SequenceTypes DEF Rows, Batch
<1>2. ASSUME NEW q \in Provers, NEW k \in Claims(prv[q]) PROVE k.to < MaxBatch + 1
  <2>1. GoroutineOK(prv[q]) /\ prv[q].batch \in 0 .. MaxBatch
    BY Goroutines, Zenon DEF Goroutine
  <2>2. k \in Rows \/ k = [from |-> prv[q].batch, to |-> prv[q].batch]
    BY <2>1, RowFacts, Zenon DEF Claims, GoroutineOK, Holding
  <2>. QED  BY <1>1, <2>1, <2>2
<1>3. ASSUME snd.pc # "wait" PROVE snd.proof.to < MaxBatch + 1
  BY <1>1, <1>3, RowFacts DEF HashInv, Types, SenderTypes
<1>. QED  BY <1>1, <1>2, <1>3 DEF OthersFree

\* Goroutine p goes on without a claim.
LEMMA RestStep ==
    ASSUME HashInv, HashInv', WorkInv, NEW p \in Provers, NEW g, prv' = [prv EXCEPT ![p] = g],
           ~Holding(g), g.pc \in Resting, g.last <= verified, ProverFrame, proofs' = proofs
    PROVE  WorkInv'
<1>1. PICK n \in Nat : n = MaxBatch + 1 /\ OthersFree(p, n, n)
  BY NowhereArea, Zenon
<1>2. RowsOK(proofs) /\ Narrower(proofs, proofs) /\ Within(proofs, proofs, n, n)
  BY WorkBefore, Zenon DEF Narrower, Within, SameRange
<1>. QED  BY <1>1, <1>2, ReleaseStep, Zenon

\* Goroutine p goes on with its proof, or puts it back.
LEMMA HeldStep ==
    ASSUME HashInv, HashInv', WorkInv, NEW p \in Provers, NEW g, prv' = [prv EXCEPT ![p] = g],
           Holding(prv[p]), Holding(g), g.proof = prv[p].proof, g.last <= verified,
           g.pc \in {"check", "ready", "validate", "build", "send", "store"}, ProverFrame,
           NEW U, U = proofs', RowsOK(U), Narrower(proofs, U),
           Within(proofs, U, g.proof.from, g.proof.to),
           \/ LockedIn(U, g.proof)
           \/ Uncovered(U, g.proof) /\ g.pc = "store" /\ g.proof.to <= verified
    PROVE  WorkInv'
<1>1. g.proof \in Claims(prv[p])
  BY Zenon DEF Claims
<1>2. g.proof.from <= g.proof.to /\ g.proof.from \in Nat /\ g.proof.to \in Nat
  BY <1>1, WorkBefore, ClaimNumbers, ZenonT(30) DEF GoroutineWorks
<1>3. Claims(g) = {g.proof} /\ GoroutineWorks(U, g)
  BY <1>2, HolderWorks, Zenon
<1>4. HashesStayKnown /\ UNCHANGED <<verified, snd, expired, restarts>>
  BY FrameHashes, Zenon DEF ProverFrame
<1>5. HashesThere(U) /\ OthersFree(p, g.proof.from, g.proof.to)
  BY <1>1, WorkBefore, NarrowerHashes, OwnArea, Zenon
<1>6. \A k \in Claims(g) : g.proof.from <= k.from /\ k.to <= g.proof.to
  BY <1>2, <1>3
<1>. QED  BY <1>2, <1>3, <1>4, <1>5, <1>6, AreaStep, Zenon

\* The rows of a proof in hand.
LEMMA HeldArea ==
    ASSUME HashInv, WorkInv, NEW p \in Provers, Holding(prv[p])
    PROVE  LET k == prv[p].proof
           IN  /\ k \in Claims(prv[p]) /\ k \in Generated /\ k \in Rows
               /\ k.from \in Nat /\ k.to \in Nat /\ k.from <= k.to /\ OthersFree(p, k.from, k.to)
               /\ \/ LockedIn(proofs, k)
                  \/ Uncovered(proofs, k) /\ prv[p].pc = "store" /\ k.to <= verified
<1>1. prv[p].proof \in Claims(prv[p]) /\ prv[p].proof \in Generated
  BY WorkBefore, Zenon DEF Claims, GoroutineOK
<1>2. prv[p].pc \notin Building
  BY WorkBefore, Zenon DEF GoroutineOK, Holding, Building
<1>. QED  BY <1>1, <1>2, WorkBefore, ClaimNumbers, OwnArea, RowFacts, Zenon DEF GoroutineWorks

\* The range of a proof is not its lock.
LEMMA LockRange ==
    \A r \in Generated : /\ Lock(r).from = r.from /\ Lock(r).to = r.to /\ Lock(r).locked
                         /\ Unlock(r).from = r.from /\ Unlock(r).to = r.to
  BY Zenon DEF Lock, Unlock, Generated

\* The table does not change.
LEMMA SameRows ==
    ASSUME HashInv, WorkInv
    PROVE  RowsOK(proofs) /\ Narrower(proofs, proofs) /\ \A lo, hi : Within(proofs, proofs, lo, hi)
  BY Zenon DEF WorkInv, Narrower, Within, SameRange

\* Goroutine p goes to pc, and nothing else happens.
LEMMA GotoWork ==
    ASSUME HashInv, HashInv', WorkInv, NEW p \in Provers, NEW pc, prv' = [prv EXCEPT ![p].pc = pc],
           ProverFrame, proofs' = proofs, prv[p].pc # "store",
           IF Holding(prv[p])
           THEN pc \in {"ready", "validate", "build", "send", "store"}
           ELSE pc \in {"ready", "lock", "aggregate", "pick"},
           Holding(prv[p]) => prv[p].inHand \/ pc \in {"build", "send", "store"}
    PROVE  WorkInv'
<1>. DEFINE g == [prv[p] EXCEPT !.pc = pc]
<1>1. /\ g.pc = pc /\ g.inHand = prv[p].inHand /\ g.proof = prv[p].proof /\ g.last = prv[p].last
      /\ prv' = [prv EXCEPT ![p] = g]
  BY WorkBefore, Zenon DEF Goroutine
<1>2. prv[p].last <= verified
  BY WorkBefore, Zenon
<1>. HIDE DEF g
<1>3. CASE Holding(prv[p])
  <2>1. Holding(g) /\ g.pc \in {"check", "ready", "validate", "build", "send", "store"}
    BY <1>1, <1>3, Zenon DEF Holding
  <2>2. LockedIn(proofs, g.proof)
    BY <1>1, <1>3, HeldArea, Zenon
  <2>. QED  BY <1>1, <1>2, <1>3, <2>1, <2>2, SameRows, HeldStep, Zenon
<1>4. CASE ~Holding(prv[p])
  <2>1. ~Holding(g) /\ g.pc \in Resting
    BY <1>1, <1>4, Zenon DEF Holding, Resting
  <2>. QED  BY <1>1, <1>2, <2>1, RestStep, Zenon
<1>. QED  BY <1>3, <1>4, Zenon

\* What the steps of tryBuildFinalProof leave alone.
LEMMA FinalProofFrame ==
    ASSUME NEW p, FinalProofStep(p), ~SendFinalProof(p) PROVE ProverFrame
  BY Zenon DEF ProverFrame, FinalProofStep, canVerifyProof, CannotVerifyProof,
         GetLatestVerifiedBatchNum, getAndLockProofReadyToVerify, validateEligibleFinalProof,
         buildFinalProof, FinalProofFails, StoreProof, others, l1Vars, dbVars

\* The steps of tryBuildFinalProof that do not touch the table.
LEMMA WorkVerify ==
    ASSUME HashInv, HashInv', WorkInv, NEW p \in Provers,
           \/ canVerifyProof(p) \/ CannotVerifyProof(p)
           \/ GetLatestVerifiedBatchNum(p) \/ buildFinalProof(p)
    PROVE  WorkInv'
<1>0. ProverFrame /\ proofs' = proofs
  <2>1. FinalProofStep(p) /\ ~SendFinalProof(p)
    BY Zenon DEF FinalProofStep, SendFinalProof, canVerifyProof, CannotVerifyProof,
           GetLatestVerifiedBatchNum, buildFinalProof
  <2>. QED  BY <2>1, FinalProofFrame, Zenon DEF canVerifyProof, CannotVerifyProof,
           GetLatestVerifiedBatchNum, buildFinalProof, dbVars
<1>1. CASE canVerifyProof(p) \/ CannotVerifyProof(p)
  <2>1. PICK pc \in {"ready", IF prv[p].inHand THEN "store" ELSE "aggregate"} :
           prv' = [prv EXCEPT ![p].pc = pc]
    BY <1>1, Zenon DEF canVerifyProof, CannotVerifyProof, Goto, NotBuilt
  <2>2. prv[p].pc = "check" /\ (Holding(prv[p]) <=> prv[p].inHand)
    BY <1>1, WorkBefore, Zenon DEF canVerifyProof, CannotVerifyProof, Holding
  <2>. QED  BY <1>0, <2>1, <2>2, GotoWork, Zenon
<1>2. CASE buildFinalProof(p)
  <2>1. prv' = [prv EXCEPT ![p].pc = "send"] /\ prv[p].pc = "build"
    BY <1>2, Zenon DEF buildFinalProof, Goto
  <2>. QED  BY <1>0, <2>1, GotoWork, Zenon DEF Holding
<1>3. CASE GetLatestVerifiedBatchNum(p)
  <2>. DEFINE g == [prv[p] EXCEPT !.last = verified,
                                  !.pc = IF prv[p].inHand THEN "validate" ELSE "lock"]
  <2>1. prv' = [prv EXCEPT ![p] = g] /\ prv[p].pc = "ready"
    BY <1>3, Zenon DEF GetLatestVerifiedBatchNum, Become
  <2>2. /\ g.pc = (IF prv[p].inHand THEN "validate" ELSE "lock") /\ g.inHand = prv[p].inHand
        /\ g.proof = prv[p].proof /\ g.last = verified
    BY WorkBefore, Zenon DEF Goroutine
  <2>3. verified <= verified
    BY WorkBefore
  <2>. HIDE DEF g
  <2>4. CASE prv[p].inHand
    <3>1. Holding(g) /\ Holding(prv[p]) /\ g.pc = "validate"
      BY <2>2, <2>4, Zenon DEF Holding
    <3>2. LockedIn(proofs, g.proof)
      BY <2>1, <2>2, <3>1, HeldArea, Zenon
    <3>. QED  BY <1>0, <2>1, <2>2, <2>3, <3>1, <3>2, SameRows, HeldStep, Zenon
  <2>5. CASE ~prv[p].inHand
    <3>1. ~Holding(g) /\ g.pc \in Resting
      BY <2>2, <2>5, Zenon DEF Holding, Resting
    <3>. QED  BY <1>0, <2>1, <2>2, <2>3, <3>1, RestStep, Zenon
  <2>. QED  BY <2>4, <2>5, Zenon
<1>. QED  BY <1>1, <1>2, <1>3, Zenon

\* Goroutine p takes a proof that is locked.
LEMMA TakeStep ==
    ASSUME HashInv, HashInv', WorkInv, NEW p \in Provers, NEW g, prv' = [prv EXCEPT ![p] = g],
           Holding(g), g.pc \in {"check", "ready", "validate", "build", "send", "store"},
           g.last <= verified, ProverFrame,
           NEW U, U = proofs', RowsOK(U), HashesThere(U), LockedIn(U, g.proof),
           NEW lo \in Nat, NEW hi \in Nat, lo <= hi, g.proof.from = lo, g.proof.to = hi,
           Within(proofs, U, lo, hi), OthersFree(p, lo, hi)
    PROVE  WorkInv'
<1>1. Claims(g) = {g.proof} /\ GoroutineWorks(U, g)
  BY HolderWorks, Zenon
<1>2. HashesStayKnown /\ UNCHANGED <<verified, snd, expired, restarts>>
  BY FrameHashes, Zenon DEF ProverFrame
<1>3. \A k \in Claims(g) : lo <= k.from /\ k.to <= hi
  BY <1>1
<1>. QED  BY <1>1, <1>2, <1>3, AreaStep, Zenon

\* A row that is locked.
LEMMA LockRow ==
    ASSUME NEW T, T \subseteq Rows, RowsOK(T), NEW r \in T, r \in Generated
    PROVE  LET U == UpdateGeneratedProof(T, Lock(r))
           IN  /\ U \subseteq Rows /\ RowsOK(U) /\ Within(T, U, r.from, r.to) /\ Narrower(T, U)
               /\ Lock(r) \in U /\ LockedIn(U, Lock(r))
<1>1. Lock(r) \in Rows /\ Lock(r).from = r.from /\ Lock(r).to = r.to /\ Lock(r).locked
  BY RowFacts, LockRange, Zenon
<1>2. r.from \in Nat /\ r.to \in Nat
  BY RowNumbers, Zenon
<1>3. Lock(r) \in UpdateGeneratedProof(T, Lock(r))
  BY <1>1, Zenon DEF UpdateGeneratedProof, SameRange
<1>4. LockedIn(UpdateGeneratedProof(T, Lock(r)), Lock(r))
  BY <1>1, <1>3, Zenon DEF LockedIn, SameRange
<1>5. r.from <= Lock(r).from /\ Lock(r).to <= r.to
  BY <1>1, <1>2
<1>. QED  BY <1>1, <1>2, <1>3, <1>4, <1>5, UpdateRows, Zenon

\* getAndLockProofReadyToVerify locks a row that is not locked.
LEMMA WorkLockReady ==
    ASSUME HashInv, HashInv', WorkInv, NEW p \in Provers, getAndLockProofReadyToVerify(p)
    PROVE  WorkInv'
<1>0. ProverFrame /\ prv[p].pc = "lock" /\ ~Holding(prv[p])
  <2>1. FinalProofStep(p) /\ ~SendFinalProof(p) /\ prv[p].pc = "lock"
    BY Zenon DEF FinalProofStep, SendFinalProof, getAndLockProofReadyToVerify
  <2>. QED  BY <2>1, FinalProofFrame, WorkBefore, Zenon DEF GoroutineOK, Holding
<1>1. CASE prv' = [prv EXCEPT ![p].pc = "aggregate"] /\ proofs' = proofs
  BY <1>0, <1>1, GotoWork, Zenon
<1>2. ASSUME NEW r \in GetProofReadyToVerify(prv[p].last),
             proofs' = UpdateGeneratedProof(proofs, Lock(r)),
             Become(p, [prv[p] EXCEPT !.pc = "build", !.proof = Lock(r)])
      PROVE  WorkInv'
  <2>. DEFINE g == [prv[p] EXCEPT !.pc = "build", !.proof = Lock(r)]
  <2>1. r \in proofs /\ ~r.locked /\ r \in Generated
    BY RowFacts, Zenon DEF GetProofReadyToVerify, HashInv, Types, TableTypes
  <2>2. g.pc = "build" /\ g.proof = Lock(r) /\ g.last = prv[p].last /\ prv' = [prv EXCEPT ![p] = g]
    BY <1>2, WorkBefore, Zenon DEF Goroutine, Become
  <2>. HIDE DEF g
  <2>3. PICK U : U = UpdateGeneratedProof(proofs, Lock(r))
    BY Zenon
  <2>4. /\ RowsOK(U) /\ Within(proofs, U, r.from, r.to) /\ Narrower(proofs, U)
        /\ LockedIn(U, g.proof)
    BY <2>1, <2>2, <2>3, WorkBefore, LockRow, Zenon
  <2>5. HashesThere(U) /\ g.last <= verified
    BY <2>2, <2>4, WorkBefore, NarrowerHashes, Zenon
  <2>6. OthersFree(p, r.from, r.to)
    BY <2>1, UnlockedArea, Zenon
  <2>7. /\ r.from \in Nat /\ r.to \in Nat /\ r.from <= r.to
        /\ g.proof.from = r.from /\ g.proof.to = r.to /\ Holding(g)
    BY <2>1, <2>2, WorkBefore, RowNumbers, LockRange, Zenon DEF RowsOK, Holding
  <2>8. U = proofs' /\ g.pc \in {"check", "ready", "validate", "build", "send", "store"}
    BY <1>2, <2>2, <2>3, Zenon
  <2>. QED  BY <1>0, <2>2, <2>4, <2>5, <2>6, <2>7, <2>8, TakeStep, Zenon
<1>. QED  BY <1>1, <1>2, Zenon DEF getAndLockProofReadyToVerify, Goto

\* Once the row of a range is deleted, no other covers it.
LEMMA DeletedUncovered ==
    ASSUME NEW T, RowsOK(T), NEW k, k.from \in Nat, k.to \in Nat, LockedIn(T, k)
    PROVE  Uncovered(DeleteGeneratedProofs(T, k.from, k.to), k)
<1>1. PICK q \in T : SameRange(q, k)
  BY Zenon DEF LockedIn
<1>2. ASSUME NEW r \in DeleteGeneratedProofs(T, k.from, k.to) PROVE Apart(r, k)
  <2>1. r \in T /\ r # q
    BY <1>1 DEF DeleteGeneratedProofs, SameRange
  <2>2. Apart(r, q)
    BY <2>1, Zenon DEF RowsOK
  <2>. QED  BY <1>1, <2>2, Zenon DEF Apart, SameRange
<1>. QED  BY <1>2, Zenon DEF Uncovered

\* validateEligibleFinalProof deletes a proof whose batches are verified.
LEMMA WorkValidate ==
    ASSUME HashInv, HashInv', WorkInv, NEW p \in Provers, validateEligibleFinalProof(p)
    PROVE  WorkInv'
<1>0. ProverFrame /\ prv[p].pc = "validate" /\ Holding(prv[p]) /\ prv[p].inHand
  <2>1. FinalProofStep(p) /\ ~SendFinalProof(p) /\ prv[p].pc = "validate"
    BY Zenon DEF FinalProofStep, SendFinalProof, validateEligibleFinalProof
  <2>. QED  BY <2>1, FinalProofFrame, WorkBefore, Zenon DEF GoroutineOK, Holding
<1>1. PICK k : k = prv[p].proof
  BY Zenon
<1>2. /\ k.from \in Nat /\ k.to \in Nat /\ k.from <= k.to /\ LockedIn(proofs, k)
      /\ prv[p].last \in Nat /\ prv[p].last <= verified /\ verified \in Nat
  BY <1>0, <1>1, HeldArea, WorkBefore, Zenon DEF Goroutine
<1>3. CASE ~(k.to < prv[p].last + 1)
  <2>1. PICK pc \in {"build", "store"} : prv' = [prv EXCEPT ![p].pc = pc]
    BY Zenon DEF validateEligibleFinalProof, Goto
  <2>2. proofs' = proofs
    BY <1>1, <1>3, Zenon DEF validateEligibleFinalProof
  <2>. QED  BY <1>0, <2>1, <2>2, GotoWork, Zenon
<1>4. CASE k.to < prv[p].last + 1
  <2>. DEFINE g == [prv[p] EXCEPT !.pc = "store"]
  <2>1. proofs' = DeleteGeneratedProofs(proofs, k.from, k.to)
    BY <1>1, <1>4, Zenon DEF validateEligibleFinalProof
  <2>2. prv' = [prv EXCEPT ![p].pc = "store"]
    <3>1. ~(prv[p].last + 1 <= k.to)
      BY <1>2, <1>4
    <3>. QED  BY <1>1, <3>1, Zenon DEF validateEligibleFinalProof, Goto
  <2>3. /\ g.pc = "store" /\ g.inHand = prv[p].inHand /\ g.proof = k /\ g.last = prv[p].last
        /\ prv' = [prv EXCEPT ![p] = g]
    BY <1>1, <2>2, WorkBefore, Zenon DEF Goroutine
  <2>. HIDE DEF g
  <2>4. PICK U : U = DeleteGeneratedProofs(proofs, k.from, k.to)
    BY Zenon
  <2>5. RowsOK(U) /\ Within(proofs, U, k.from, k.to) /\ Narrower(proofs, U)
    BY <1>2, <2>4, WorkBefore, DeleteRows, Zenon
  <2>6. Uncovered(U, k) /\ k.to <= verified
    BY <1>2, <1>4, <2>4, WorkBefore, DeletedUncovered, SMTT(30)
  <2>7. U = proofs' /\ Holding(g) /\ g.pc \in {"check", "ready", "validate", "build", "send", "store"}
    BY <2>1, <2>3, <2>4, Zenon DEF Holding
  <2>. QED  BY <1>0, <1>1, <1>2, <2>3, <2>5, <2>6, <2>7, HeldStep, Zenon
<1>. QED  BY <1>3, <1>4, Zenon

\* A row that is unlocked.
LEMMA UnlockRow ==
    ASSUME NEW T, T \subseteq Rows, RowsOK(T), NEW k \in Generated
    PROVE  LET U == UpdateGeneratedProof(T, Unlock(k))
           IN  U \subseteq Rows /\ RowsOK(U) /\ Within(T, U, k.from, k.to) /\ Narrower(T, U)
<1>1. Unlock(k) \in Rows /\ Unlock(k).from = k.from /\ Unlock(k).to = k.to
  BY RowFacts, LockRange, Zenon
<1>2. k.from \in Nat /\ k.to \in Nat
  BY RowNumbers, RowFacts, Zenon
<1>3. k.from <= Unlock(k).from /\ Unlock(k).to <= k.to
  BY <1>1, <1>2
<1>. QED  BY <1>1, <1>2, <1>3, UpdateRows, Zenon

\* A proof that has not become a final one is unlocked, by its owner.
LEMMA WorkPutBack ==
    ASSUME HashInv, HashInv', WorkInv, NEW p \in Provers, FinalProofFails(p) \/ StoreProof(p)
    PROVE  WorkInv'
<1>0. ProverFrame
  <2>1. FinalProofStep(p) /\ ~SendFinalProof(p)
    BY Zenon DEF FinalProofStep, SendFinalProof, FinalProofFails, StoreProof
  <2>. QED  BY <2>1, FinalProofFrame, Zenon
<1>1. Holding(prv[p])
  BY Zenon DEF Holding, FinalProofFails, StoreProof
<1>2. ASSUME proofs' = UpdateGeneratedProof(proofs, Unlock(prv[p].proof)),
             NEW g, prv' = [prv EXCEPT ![p] = g], ~Holding(g), g.pc \in Resting, g.last <= verified
      PROVE  WorkInv'
  <2>1. PICK k : k = prv[p].proof
    BY Zenon
  <2>2. /\ k \in Generated /\ k.from \in Nat /\ k.to \in Nat /\ OthersFree(p, k.from, k.to)
    BY <1>1, <2>1, HeldArea, Zenon
  <2>3. PICK U : U = UpdateGeneratedProof(proofs, Unlock(k))
    BY Zenon
  <2>4. RowsOK(U) /\ Within(proofs, U, k.from, k.to) /\ Narrower(proofs, U)
    BY <2>2, <2>3, WorkBefore, UnlockRow, Zenon
  <2>5. U = proofs'
    BY <1>2, <2>1, <2>3, Zenon
  <2>. QED  BY <1>0, <1>2, <2>2, <2>4, <2>5, ReleaseStep, Zenon
<1>3. CASE FinalProofFails(p) /\ prv[p].inHand
  <2>1. prv' = [prv EXCEPT ![p].pc = "store"] /\ proofs' = proofs /\ prv[p].pc = "build"
    BY <1>3, Zenon DEF FinalProofFails, Goto, NotBuilt
  <2>. QED  BY <1>0, <1>1, <2>1, GotoWork, Zenon
<1>4. CASE FinalProofFails(p) /\ ~prv[p].inHand
  <2>. DEFINE g == [prv[p] EXCEPT !.pc = "aggregate"]
  <2>1. /\ prv' = [prv EXCEPT ![p].pc = "aggregate"]
        /\ proofs' = UpdateGeneratedProof(proofs, Unlock(prv[p].proof))
    BY <1>4, Zenon DEF FinalProofFails, Goto, NotBuilt
  <2>2. /\ g.pc = "aggregate" /\ g.inHand = prv[p].inHand /\ g.last = prv[p].last
        /\ prv' = [prv EXCEPT ![p] = g] /\ prv[p].last <= verified
    BY <2>1, WorkBefore, Zenon DEF Goroutine
  <2>. HIDE DEF g
  <2>3. ~Holding(g) /\ g.pc \in Resting /\ g.last <= verified
    BY <1>4, <2>2, Zenon DEF Holding, Resting
  <2>. QED  BY <1>2, <2>1, <2>2, <2>3, Zenon
<1>5. CASE StoreProof(p)
  <2>1. /\ prv' = [prv EXCEPT ![p] = Idle]
        /\ proofs' = UpdateGeneratedProof(proofs, Unlock(prv[p].proof))
    BY <1>5, Zenon DEF StoreProof, Become
  <2>2. ~Holding(Idle) /\ Idle.pc \in Resting /\ Idle.last <= verified
    <3>1. Idle.last = 0 /\ Idle.inHand = FALSE /\ Idle.pc = "loop"
      BY Zenon DEF Idle
    <3>2. 0 <= verified
      BY VerifiedType, Zenon
    <3>. QED  BY <3>1, <3>2, Zenon DEF Holding, Resting
  <2>. QED  BY <1>2, <2>1, <2>2, Zenon
<1>. QED  BY <1>3, <1>4, <1>5, Zenon

\* What a goroutine that starts a round, or goes on with nothing, claims.
LEMMA IdleRests ==
    ASSUME NEW pc \in {"loop", "check", "aggregate", "pick"}
    PROVE  LET g == [Idle EXCEPT !.pc = pc] IN ~Holding(g) /\ g.pc \in Resting /\ g.last = 0
<1>. DEFINE g == [Idle EXCEPT !.pc = pc]
<1>1. g.last = 0 /\ g.inHand = FALSE /\ g.pc = pc
  BY Zenon DEF Idle
<1>. HIDE DEF g
<1>2. ~Holding(g) /\ g.pc \in Resting
  BY <1>1, Zenon DEF Holding, Resting
<1>. QED  BY <1>1, <1>2, Zenon DEF g

\* sendFinalProof takes over the claim.
LEMMA WorkSend ==
    ASSUME HashInv, HashInv', WorkInv, NEW p \in Provers, SendFinalProof(p)
    PROVE  WorkInv'
<1>1. /\ prv[p].pc = "send" /\ snd.pc = "wait" /\ Holding(prv[p])
      /\ UNCHANGED <<verified, proofs, accInputHashes, expired, restarts>>
      /\ snd' = [pc |-> "received", proof |-> prv[p].proof]
  BY Zenon DEF SendFinalProof, l1Vars, dbVars, memVars, boundVars, Holding
<1>2. PICK g : prv' = [prv EXCEPT ![p] = g] /\ ~Holding(g) /\ g.pc \in Resting /\ g.last = 0
  <2>1. PICK pc \in {"loop", "aggregate"} : prv' = [prv EXCEPT ![p] = [Idle EXCEPT !.pc = pc]]
    <3>1. [Idle EXCEPT !.pc = "loop"] = Idle
      BY IdleType, Zenon DEF Goroutine
    <3>. QED  BY <3>1, Zenon DEF SendFinalProof, Become
  <2>. QED  BY <2>1, IdleRests, Zenon
<1>3. \A q \in Provers : prv'[q] = IF q = p THEN g ELSE prv[q]
  BY <1>2, WorkBefore, Zenon
<1>4. PICK k : k = prv[p].proof
  BY Zenon
<1>5. /\ k.from <= k.to /\ LockedIn(proofs, k) /\ k \in Claims(prv[p])
      /\ \A q \in Provers : q # p => \A l \in Claims(prv[q]) : Apart(l, k)
  BY <1>1, <1>4, HeldArea, ZenonT(30) DEF WorkInv
<1>6. HashesStayKnown /\ verified \in Nat /\ proofs \subseteq Rows /\ HashesThere(proofs)
  BY <1>1, FrameHashes, WorkBefore, Zenon
<1>7. GoroutineWorks(proofs, g) /\ Claims(g) = {}
  BY <1>2, <1>6, RestingWorks
<1>8. PICK U : U = proofs
  BY Zenon
<1>9. ASSUME NEW q \in Provers PROVE GoroutineWorks(proofs, prv[q])'
  <2>1. PICK h : h = prv'[q]
    BY Zenon
  <2>2. GoroutineOK(h)
    BY <2>1, Zenon DEF HashInv, Types, ProverTypes, GoroutineOK, Holding
  <2>3. GoroutineWorks(U, h)
    BY <1>3, <1>7, <1>8, <2>1, Zenon DEF WorkInv
  <2>4. h.batch \in 0 .. MaxBatch /\ h.last \in Nat
    BY <2>2, Zenon DEF GoroutineOK, Goroutine
  <2>5. \A l \in Claims(h) : l.to \in Nat
    BY <2>2, ClaimNumbers, Zenon
  <2>6. GoroutineWorks(U, h)'
    BY <1>1, <1>6, <2>3, <2>4, <2>5, WorksLater, SMTT(30)
  <2>. QED  BY <1>1, <1>8, <2>1, <2>6, Zenon DEF GoroutineWorks
<1>10. \A q \in Provers : Claims(prv[q])' = IF q = p THEN {} ELSE Claims(prv[q])
  BY <1>3, <1>7, Zenon DEF Claims, Holding
<1>11. (\A q, r \in Provers : q # r => \A l \in Claims(prv[q]), m \in Claims(prv[r]) : Apart(l, m))'
  BY <1>10, ZenonT(30) DEF WorkInv, Apart
<1>12. SenderWorks'
  <2>1. snd'.pc = "received" /\ snd'.proof = k
    BY <1>1, <1>4, Zenon
  <2>2. LockedIn(proofs', k) /\ \A q \in Provers : \A l \in Claims(prv[q])' : Apart(l, k)
    BY <1>1, <1>5, <1>10, Zenon
  <2>. QED  BY <1>5, <2>1, <2>2, Zenon DEF SenderWorks, LockedIn, SameRange, Apart
<1>13. RowsOK(proofs)' /\ HashesThere(proofs)'
  <2>1. HashesThere(U)'
    BY <1>6, <1>8, HashesLater, Zenon
  <2>. QED  BY <1>1, <1>8, <2>1, Zenon DEF WorkInv, RowsOK, Apart, HashesThere
<1>. QED  BY <1>1, <1>9, <1>11, <1>12, <1>13, Zenon DEF WorkInv

-----------------------------------------------------------------------------
(* tryAggregateProofs keeps to the two proofs it has locked                *)

\* A change within some batches is a change within more of them.
LEMMA WithinMore ==
    ASSUME NEW T, NEW U, T \subseteq Rows, U \subseteq Rows, NEW a \in Nat, NEW b \in Nat,
           Within(T, U, a, b), NEW lo \in Nat, NEW hi \in Nat, lo <= a, b <= hi
    PROVE  Within(T, U, lo, hi)
  BY RowNumbers DEF Within

\* What no step of tryAggregateProofs changes.
LEMMA AggregateFrame == ASSUME NEW p, AggregateStep(p) PROVE ProverFrame
  BY Zenon DEF ProverFrame, AggregateStep, getAndLockProofsToAggregate, tryAggregateProofs,
         unlockProofsToAggregate, others, l1Vars

\* Two neighbours that are locked together.
LEMMA LockTwoRows ==
    ASSUME NEW T, T \subseteq Rows, RowsOK(T), NEW r \in T, NEW q \in T, r \in Generated,
           q \in Generated, q.from = r.to + 1
    PROVE  LET U == UpdateGeneratedProof(UpdateGeneratedProof(T, Lock(r)), Lock(q))
           IN  /\ RowsOK(U) /\ Within(T, U, r.from, q.to) /\ Narrower(T, U)
               /\ LockedIn(U, Lock(r)) /\ LockedIn(U, Lock(q))
<1>1. /\ r.from \in Nat /\ r.to \in Nat /\ q.from \in Nat /\ q.to \in Nat
      /\ r.from <= r.to /\ q.from <= q.to
  BY RowNumbers, Zenon DEF RowsOK
<1>2. PICK V : V = UpdateGeneratedProof(T, Lock(r))
  BY Zenon
<1>3. PICK U : U = UpdateGeneratedProof(V, Lock(q))
  BY Zenon
<1>4. /\ V \subseteq Rows /\ RowsOK(V) /\ Within(T, V, r.from, r.to) /\ Narrower(T, V)
      /\ Lock(r) \in V
  BY <1>2, LockRow, Zenon
<1>5. q \in V
  BY <1>1, <1>2, LockRange DEF UpdateGeneratedProof, SameRange
<1>6. /\ U \subseteq Rows /\ RowsOK(U) /\ Within(V, U, q.from, q.to) /\ Narrower(V, U)
      /\ LockedIn(U, Lock(q))
  BY <1>3, <1>4, <1>5, LockRow, Zenon
<1>7. Lock(r) \in U
  BY <1>1, <1>3, <1>4, LockRange, SMTT(30) DEF UpdateGeneratedProof, SameRange
<1>8. LockedIn(U, Lock(r))
  BY <1>7, LockRange, Zenon DEF LockedIn, SameRange
<1>9. Within(T, V, r.from, q.to) /\ Within(V, U, r.from, q.to)
  BY <1>1, <1>4, <1>6, WithinMore
<1>10. Within(T, U, r.from, q.to) /\ Narrower(T, U)
  BY <1>4, <1>6, <1>9, WithinTwice, Zenon
<1>. QED  BY <1>2, <1>3, <1>6, <1>8, <1>10, Zenon

\* getAndLockProofsToAggregate locks two neighbours that are not locked.
LEMMA WorkLockPair ==
    ASSUME HashInv, HashInv', WorkInv, NEW p \in Provers, getAndLockProofsToAggregate(p)
    PROVE  WorkInv'
<1>0. ProverFrame /\ prv[p].pc = "aggregate" /\ ~Holding(prv[p])
  <2>1. AggregateStep(p) /\ prv[p].pc = "aggregate"
    BY Zenon DEF AggregateStep, getAndLockProofsToAggregate
  <2>. QED  BY <2>1, AggregateFrame, WorkBefore, Zenon DEF GoroutineOK, Holding
<1>1. CASE prv' = [prv EXCEPT ![p].pc = "pick"] /\ proofs' = proofs
  BY <1>0, <1>1, GotoWork, Zenon
<1>2. ASSUME NEW pq \in GetProofsToAggregate,
             proofs' = UpdateGeneratedProof(UpdateGeneratedProof(proofs, Lock(pq[1])), Lock(pq[2])),
             Become(p, [Idle EXCEPT !.pc = "aggregating", !.proof = Lock(pq[1]),
                                    !.other = Lock(pq[2])])
      PROVE  WorkInv'
  <2>1. PICK r, q : r = pq[1] /\ q = pq[2]
    BY Zenon
  <2>2. /\ r \in proofs /\ q \in proofs /\ ~r.locked /\ ~q.locked
        /\ r \in Generated /\ q \in Generated /\ r.to = q.from - 1
    BY <1>2, <2>1, PairsToAggregate, Zenon
  <2>3. /\ r.from \in Nat /\ r.to \in Nat /\ q.from \in Nat /\ q.to \in Nat
        /\ r.from <= r.to /\ q.from <= q.to
    BY <2>2, WorkBefore, RowNumbers, Zenon DEF RowsOK
  <2>4. q.from = r.to + 1
    BY <2>2, <2>3
  <2>5. OthersFree(p, r.from, q.to)
    <3>1. OthersFree(p, r.from, r.to) /\ OthersFree(p, r.to + 1, q.to)
      BY <2>2, <2>4, UnlockedArea, Zenon
    <3>. QED  BY <2>3, <3>1, JoinedArea, Zenon
  <2>6. PICK U : U = UpdateGeneratedProof(UpdateGeneratedProof(proofs, Lock(r)), Lock(q))
    BY Zenon
  <2>7. /\ RowsOK(U) /\ Within(proofs, U, r.from, q.to) /\ Narrower(proofs, U)
        /\ LockedIn(U, Lock(r)) /\ LockedIn(U, Lock(q))
    BY <2>2, <2>4, <2>6, WorkBefore, LockTwoRows, Zenon
  <2>. DEFINE g == [Idle EXCEPT !.pc = "aggregating", !.proof = Lock(r), !.other = Lock(q)]
  <2>8. prv' = [prv EXCEPT ![p] = g] /\ U = proofs'
    BY <1>2, <2>1, <2>6, Zenon DEF Become
  <2>9. /\ g.pc = "aggregating" /\ g.inHand = FALSE /\ g.proof = Lock(r) /\ g.other = Lock(q)
        /\ g.last = 0
    BY Zenon DEF Idle
  <2>. HIDE DEF g
  <2>10. Claims(g) = {Lock(r), Lock(q)}
    BY <2>9, Zenon DEF Claims, Holding
  <2>11. \A k \in Claims(g) : /\ k.from <= k.to /\ LockedIn(U, k)
                              /\ r.from <= k.from /\ k.to <= q.to
    <3>1. /\ Lock(r).from = r.from /\ Lock(r).to = r.to
          /\ Lock(q).from = q.from /\ Lock(q).to = q.to
      BY <2>2, LockRange, Zenon
    <3>2. /\ r.from <= r.from /\ r.to <= q.to /\ r.from <= q.from /\ q.to <= q.to
      BY <2>3, <2>4
    <3>3. ASSUME NEW k, k = Lock(r) \/ k = Lock(q)
          PROVE  k.from <= k.to /\ LockedIn(U, k) /\ r.from <= k.from /\ k.to <= q.to
      BY <2>3, <2>7, <3>1, <3>2, <3>3, Zenon
    <3>. QED  BY <2>10, <3>3, Zenon
  <2>12. GoroutineWorks(U, g)
    <3>1. g.other.from = g.proof.to + 1 /\ g.last <= verified
      <4>1. g.other.from = q.from /\ g.proof.to = r.to
        BY <2>2, <2>9, LockRange, Zenon
      <4>2. 0 <= verified
        BY WorkBefore
      <4>. QED  BY <2>4, <2>9, <4>1, <4>2, Zenon
    <3>. QED  BY <2>9, <2>11, <3>1, Zenon DEF GoroutineWorks
  <2>13. HashesThere(U)
    BY <2>7, WorkBefore, NarrowerHashes, Zenon
  <2>14. HashesStayKnown /\ UNCHANGED <<verified, snd, expired, restarts>>
    BY <1>0, FrameHashes, Zenon DEF ProverFrame
  <2>. QED  BY <2>3, <2>5, <2>7, <2>8, <2>11, <2>12, <2>13, <2>14, AreaStep, Zenon
<1>. QED  BY <1>1, <1>2, Zenon DEF getAndLockProofsToAggregate, Goto

\* The two proofs that a goroutine joins.
LEMMA PairArea ==
    ASSUME HashInv, WorkInv, NEW p \in Provers, prv[p].pc = "aggregating"
    PROVE  LET p1 == prv[p].proof
               p2 == prv[p].other
           IN  /\ p1 \in Generated /\ p2 \in Generated /\ p2.from = p1.to + 1
               /\ p1.from \in Nat /\ p1.to \in Nat /\ p2.from \in Nat /\ p2.to \in Nat
               /\ p1.from <= p1.to /\ p2.from <= p2.to
               /\ LockedIn(proofs, p1) /\ LockedIn(proofs, p2)
               /\ OthersFree(p, p1.from, p2.to)
<1>1. PICK p1, p2 : p1 = prv[p].proof /\ p2 = prv[p].other
  BY Zenon
<1>2. p1 \in Generated /\ p2 \in Generated /\ ~Holding(prv[p])
  BY <1>1, WorkBefore, Zenon DEF GoroutineOK, Holding
<1>3. p1 \in Claims(prv[p]) /\ p2 \in Claims(prv[p])
  BY <1>1, <1>2, Zenon DEF Claims
<1>4. /\ p1.from \in Nat /\ p1.to \in Nat /\ p2.from \in Nat /\ p2.to \in Nat
      /\ p1.from <= p1.to /\ p2.from <= p2.to
  BY <1>3, WorkBefore, ClaimNumbers, ZenonT(30) DEF GoroutineWorks
<1>5. p2.from = p1.to + 1 /\ LockedIn(proofs, p1) /\ LockedIn(proofs, p2)
  BY <1>1, <1>3, WorkBefore, ZenonT(30) DEF GoroutineWorks, Building
<1>6. OthersFree(p, p1.from, p2.to)
  <2>1. OthersFree(p, p1.from, p1.to) /\ OthersFree(p, p1.to + 1, p2.to)
    BY <1>3, <1>5, OwnArea, Zenon
  <2>. QED  BY <1>4, <2>1, JoinedArea, Zenon
<1>. QED  BY <1>1, <1>2, <1>4, <1>5, <1>6, ZenonT(30)

\* The rows of two neighbours are replaced by one.
LEMMA JoinRows ==
    ASSUME NEW T, T \subseteq Rows, RowsOK(T), HashesThere(T), NEW p1, NEW p2, NEW j \in Rows,
           p1.from \in Nat, p1.to \in Nat, p2.from \in Nat, p2.to \in Nat,
           p1.from <= p1.to, p2.from <= p2.to, p2.from = p1.to + 1,
           LockedIn(T, p1), LockedIn(T, p2), j.from = p1.from, j.to = p2.to
    PROVE  LET U == DeleteGeneratedProofs(T, p1.from, p2.to) \cup {j}
           IN  RowsOK(U) /\ HashesThere(U) /\ Within(T, U, p1.from, p2.to)
<1>. DEFINE D == DeleteGeneratedProofs(T, p1.from, p2.to)
<1>1. D \subseteq T /\ RowsOK(D) /\ Within(T, D, p1.from, p2.to) /\ Narrower(T, D)
  BY DeleteRows, Zenon
<1>2. PICK r1 \in T : SameRange(r1, p1)
  BY Zenon DEF LockedIn
<1>3. PICK r2 \in T : SameRange(r2, p2)
  BY Zenon DEF LockedIn
<1>4. ASSUME NEW r \in D PROVE Apart(r, j) /\ Apart(j, r)
  <2>1. r \in T /\ r.from \in Nat /\ r.to \in Nat /\ r.from <= r.to
    BY <1>1, RowNumbers, Zenon DEF RowsOK
  <2>2. r # r1 /\ r # r2
    BY <1>2, <1>3 DEF DeleteGeneratedProofs, SameRange
  <2>3. Apart(r, r1) /\ Apart(r, r2)
    BY <2>1, <2>2, Zenon DEF RowsOK
  <2>. QED  BY <1>2, <1>3, <2>1, <2>3 DEF Apart, SameRange
<1>5. RowsOK(D \cup {j})
  <2>1. j.from <= j.to
    OBVIOUS
  <2>2. ASSUME NEW r \in D \cup {j} PROVE r.from <= r.to
    BY <1>1, <2>1, Zenon DEF RowsOK
  <2>3. ASSUME NEW r \in D \cup {j}, NEW q \in D \cup {j} PROVE r = q \/ Apart(r, q)
    <3>1. CASE r \in D /\ q \in D
      BY <1>1, <3>1, Zenon DEF RowsOK
    <3>. QED  BY <1>4, <2>3, <3>1, Zenon
  <2>. QED  BY <2>2, <2>3, Zenon DEF RowsOK
<1>6. HashesThere(D \cup {j})
  <2>1. HashesThere(D)
    BY <1>1, NarrowerHashes, Zenon
  <2>2. ASSUME NEW n \in j.from .. j.to PROVE HashKnown(n)
    <3>1. n \in r1.from .. r1.to \/ n \in r2.from .. r2.to
      BY <1>2, <1>3 DEF SameRange
    <3>. QED  BY <3>1, Zenon DEF HashesThere
  <2>. QED  BY <2>1, <2>2, Zenon DEF HashesThere
<1>7. Within(T, D \cup {j}, p1.from, p2.to)
  <2>1. p1.from <= j.from /\ j.to <= p2.to
    OBVIOUS
  <2>. QED  BY <1>1, <2>1, Zenon DEF Within
<1>. QED  BY <1>5, <1>6, <1>7, Zenon

\* tryAggregateProofs replaces its two proofs by one.
LEMMA WorkAggregate ==
    ASSUME HashInv, HashInv', WorkInv, NEW p \in Provers, tryAggregateProofs(p)
    PROVE  WorkInv'
<1>0. ProverFrame /\ prv[p].pc = "aggregating"
  <2>1. AggregateStep(p) /\ prv[p].pc = "aggregating"
    BY Zenon DEF AggregateStep, tryAggregateProofs
  <2>. QED  BY <2>1, AggregateFrame, Zenon
<1>1. PICK p1, p2 : p1 = prv[p].proof /\ p2 = prv[p].other
  BY Zenon
<1>2. /\ p1 \in Generated /\ p2 \in Generated /\ p2.from = p1.to + 1
      /\ p1.from \in Nat /\ p1.to \in Nat /\ p2.from \in Nat /\ p2.to \in Nat
      /\ p1.from <= p1.to /\ p2.from <= p2.to
      /\ LockedIn(proofs, p1) /\ LockedIn(proofs, p2) /\ OthersFree(p, p1.from, p2.to)
  BY <1>0, <1>1, PairArea, Zenon
<1>3. PICK j : j = [from |-> p1.from, to |-> p2.to, locked |-> TRUE,
                    content |-> AggregatedProof(p1.content, p2.content)]
  BY Zenon
<1>4. j.from = p1.from /\ j.to = p2.to /\ j.locked = TRUE
  BY <1>3, Zenon
<1>. DEFINE g == [Idle EXCEPT !.pc = "check", !.inHand = TRUE, !.proof = j]
<1>5. /\ proofs' = DeleteGeneratedProofs(proofs, p1.from, p2.to) \cup {j}
      /\ prv' = [prv EXCEPT ![p] = g]
  BY <1>1, <1>3, Zenon DEF tryAggregateProofs, Become
<1>6. g.pc = "check" /\ g.inHand = TRUE /\ g.proof = j /\ g.last = 0
  BY Zenon DEF Idle
<1>. HIDE DEF g
<1>7. j \in Rows
  BY <1>5, Zenon DEF HashInv, Types, TableTypes
<1>8. PICK U : U = proofs'
  BY Zenon
<1>9. RowsOK(U) /\ HashesThere(U) /\ Within(proofs, U, p1.from, p2.to)
  BY <1>2, <1>4, <1>5, <1>7, <1>8, WorkBefore, JoinRows, Zenon
<1>10. LockedIn(U, g.proof)
  BY <1>4, <1>5, <1>6, <1>8, ZenonT(30) DEF LockedIn, SameRange
<1>11. /\ g.pc \in {"check", "ready", "validate", "build", "send", "store"} /\ Holding(g)
       /\ g.proof.from = p1.from /\ g.proof.to = p2.to
  BY <1>4, <1>6, ZenonT(30) DEF Holding
<1>12. p1.from <= p2.to /\ g.last <= verified
  <2>1. p1.from <= p2.to
    BY <1>2
  <2>2. 0 <= verified
    BY VerifiedType, Zenon
  <2>. QED  BY <1>6, <2>1, <2>2, Zenon
<1>. QED  BY <1>0, <1>2, <1>5, <1>8, <1>9, <1>10, <1>11, <1>12, TakeStep, Zenon

\* Two proofs that could not be joined are unlocked.
LEMMA WorkUnlockPair ==
    ASSUME HashInv, HashInv', WorkInv, NEW p \in Provers, unlockProofsToAggregate(p)
    PROVE  WorkInv'
<1>0. ProverFrame /\ prv[p].pc = "aggregating"
  <2>1. AggregateStep(p) /\ prv[p].pc = "aggregating"
    BY Zenon DEF AggregateStep, unlockProofsToAggregate
  <2>. QED  BY <2>1, AggregateFrame, Zenon
<1>1. PICK p1, p2 : p1 = prv[p].proof /\ p2 = prv[p].other
  BY Zenon
<1>2. /\ p1 \in Generated /\ p2 \in Generated /\ p2.from = p1.to + 1
      /\ p1.from \in Nat /\ p1.to \in Nat /\ p2.from \in Nat /\ p2.to \in Nat
      /\ p1.from <= p1.to /\ p2.from <= p2.to /\ OthersFree(p, p1.from, p2.to)
  BY <1>0, <1>1, PairArea, Zenon
<1>3. PICK V : V = UpdateGeneratedProof(proofs, Unlock(p1))
  BY Zenon
<1>4. PICK U : U = UpdateGeneratedProof(V, Unlock(p2))
  BY Zenon
<1>5. V \subseteq Rows /\ RowsOK(V) /\ Within(proofs, V, p1.from, p1.to) /\ Narrower(proofs, V)
  BY <1>2, <1>3, WorkBefore, UnlockRow, ZenonT(30)
<1>6. U \subseteq Rows /\ RowsOK(U) /\ Within(V, U, p2.from, p2.to) /\ Narrower(V, U)
  BY <1>2, <1>4, <1>5, UnlockRow, Zenon
<1>7. Within(proofs, V, p1.from, p2.to) /\ Within(V, U, p1.from, p2.to)
  <2>1. p1.from <= p1.from /\ p1.to <= p2.to /\ p1.from <= p2.from /\ p2.to <= p2.to
    BY <1>2
  <2>2. proofs \subseteq Rows
    BY WorkBefore, Zenon
  <2>3. Within(proofs, V, p1.from, p2.to)
    BY <1>2, <1>5, <2>1, <2>2, WithinMore, Zenon
  <2>4. Within(V, U, p1.from, p2.to)
    BY <1>2, <1>5, <1>6, <2>1, WithinMore, Zenon
  <2>. QED  BY <2>3, <2>4, Zenon
<1>8. Within(proofs, U, p1.from, p2.to) /\ Narrower(proofs, U)
  BY <1>5, <1>6, <1>7, WithinTwice, Zenon
<1>. DEFINE g == [Idle EXCEPT !.pc = "pick"]
<1>9. prv' = [prv EXCEPT ![p] = g] /\ U = proofs'
  BY <1>1, <1>3, <1>4, Zenon DEF unlockProofsToAggregate, Become
<1>10. ~Holding(g) /\ g.pc \in Resting /\ g.last = 0
  BY IdleRests, Zenon
<1>. HIDE DEF g
<1>11. g.last <= verified
  BY <1>10, WorkBefore
<1>. QED  BY <1>0, <1>2, <1>6, <1>8, <1>9, <1>10, <1>11, ReleaseStep, Zenon

-----------------------------------------------------------------------------
(* tryGenerateBatchProof keeps to the batch it has picked                  *)

\* The batch that getAndLockBatchToProve is about to insert.
LEMMA BuilderWorks ==
    ASSUME NEW T, NEW g, g.pc \in Building, g.inHand = FALSE, g.last <= verified, g.batch \in Nat,
           LockedIn(T, [from |-> g.batch, to |-> g.batch])
              \/ Uncovered(T, [from |-> g.batch, to |-> g.batch]),
           g.pc \in {"set", "witness"} => HashKnown(g.batch)
    PROVE  Claims(g) = {[from |-> g.batch, to |-> g.batch]} /\ GoroutineWorks(T, g)
<1>. DEFINE k == [from |-> g.batch, to |-> g.batch]
<1>1. Claims(g) = {k}
  BY Zenon DEF Claims, Holding, Building
<1>2. k.from <= k.to
  OBVIOUS
<1>. HIDE DEF k
<1>3. GoroutineWorks(T, g)
  BY <1>1, <1>2, Zenon DEF GoroutineWorks, Building, k
<1>. QED  BY <1>1, <1>3, Zenon DEF k

\* Goroutine p works on its batch under stateDBMutex.
LEMMA BuildStep ==
    ASSUME HashInv, HashInv', WorkInv, NEW p \in Provers, NEW g, prv' = [prv EXCEPT ![p] = g],
           g.pc \in Building, g.inHand = FALSE, g.last <= verified, g.batch \in Nat,
           LockedIn(proofs, [from |-> g.batch, to |-> g.batch])
              \/ Uncovered(proofs, [from |-> g.batch, to |-> g.batch]),
           g.pc \in {"set", "witness"} => HashKnown(g.batch), OthersFree(p, g.batch, g.batch),
           proofs' = proofs, UNCHANGED <<verified, snd, expired, restarts>>, HashesStayKnown
    PROVE  WorkInv'
<1>1. Claims(g) = {[from |-> g.batch, to |-> g.batch]} /\ GoroutineWorks(proofs, g)
  BY BuilderWorks, Zenon
<1>2. \A k \in Claims(g) : g.batch <= k.from /\ k.to <= g.batch
  BY <1>1
<1>3. RowsOK(proofs) /\ HashesThere(proofs) /\ Within(proofs, proofs, g.batch, g.batch)
  BY SameRows, WorkBefore, Zenon
<1>. QED  BY <1>1, <1>2, <1>3, AreaStep, Zenon

\* The batch it picks has no row, and nobody else works on it.
LEMMA PickedArea ==
    ASSUME HashInv, WorkInv, NEW p \in Provers, stateDBMutex = None
    PROVE  LET b == BatchToProve.batch
           IN  /\ BatchToProve.proofs = proofs /\ b \in Nat /\ b > verified
               /\ Uncovered(proofs, [from |-> b, to |-> b]) /\ OthersFree(p, b, b)
<1>1. PICK b \in Nat :
         /\ b > verified /\ (~CheckProofExistsForBatch(b) \/ MissingHash(b - 1))
         /\ BatchToProve = [batch  |-> IF CheckProofExistsForBatch(b) THEN b - 1 ELSE b,
                            proofs |-> IF CheckProofExistsForBatch(b) THEN {} ELSE proofs]
  BY LowestBatch, Zenon
<1>2. verified \in Nat /\ proofs \subseteq Rows /\ HashesThere(proofs)
  BY WorkBefore, Zenon
<1>3. ~CheckProofExistsForBatch(b)
  <2>1. SUFFICES ASSUME NEW r \in proofs, r.from <= b, b <= r.to, MissingHash(b - 1) PROVE FALSE
    BY <1>1, Zenon DEF CheckProofExistsForBatch
  <2>2. b \in r.from .. r.to
    BY <1>2, <2>1, RowNumbers
  <2>3. HashKnown(b)
    BY <1>2, <2>2, Zenon DEF HashesThere
  <2>. QED  BY <1>1, <1>2, <2>1, <2>3 DEF HashKnown
<1>4. BatchToProve.batch = b /\ BatchToProve.proofs = proofs
  BY <1>1, <1>3, Zenon
<1>5. \A r \in proofs : r.to < b \/ b < r.from
  BY <1>2, <1>3, RowNumbers DEF CheckProofExistsForBatch
<1>6. \A k : LockedIn(proofs, k) => k.to < b \/ b < k.from
  BY <1>5, Zenon DEF LockedIn, SameRange
<1>7. ASSUME NEW q \in Provers, NEW k \in Claims(prv[q]) PROVE k.to < b \/ b < k.from
  <2>1. prv[q].pc \notin Building
    BY AggregatorAssumption, Zenon DEF HashInv, Types, ProverTypes, Section, Building
  <2>2. LockedIn(proofs, k) \/ k.to <= verified
    BY <2>1, WorkBefore, Zenon DEF GoroutineWorks
  <2>3. k.to \in Nat
    BY Goroutines, ClaimNumbers, Zenon
  <2>. QED  BY <1>1, <1>2, <1>6, <2>2, <2>3, SMTT(30)
<1>8. OthersFree(p, b, b)
  BY <1>6, <1>7, Zenon DEF OthersFree, WorkInv, SenderWorks
<1>9. Uncovered(proofs, [from |-> b, to |-> b])
  BY <1>5, Zenon DEF Uncovered, Apart
<1>. QED  BY <1>1, <1>4, <1>8, <1>9, Zenon

\* getAndLockBatchToProve picks a batch.
LEMMA WorkPick ==
    ASSUME HashInv, HashInv', WorkInv, NEW p \in Provers, GetBatchToProve(p)
    PROVE  WorkInv'
<1>0. stateDBMutex = None /\ ProverFrame /\ verified \in Nat
  BY WorkBefore, Zenon DEF GetBatchToProve, ProverFrame, others, l1Vars
<1>1. PICK b : b = BatchToProve.batch
  BY Zenon
<1>2. /\ BatchToProve.proofs = proofs /\ b \in Nat /\ b > verified
      /\ Uncovered(proofs, [from |-> b, to |-> b]) /\ OthersFree(p, b, b)
  BY <1>0, <1>1, PickedArea, Zenon
<1>3. proofs' = proofs
  BY <1>2, Zenon DEF GetBatchToProve
<1>4. CASE b > Len(virtual)
  <2>. DEFINE g == [Idle EXCEPT !.pc = "loop"]
  <2>1. ~Holding(g) /\ g.pc \in Resting /\ g.last = 0
    BY IdleRests, Zenon
  <2>2. g = Idle
    BY IdleType, Zenon DEF Goroutine
  <2>. HIDE DEF g
  <2>3. prv' = [prv EXCEPT ![p] = g] /\ g.last <= verified
    BY <1>0, <1>1, <1>4, <2>1, <2>2, SMTT(30) DEF GetBatchToProve, Become
  <2>. QED  BY <1>0, <1>3, <2>1, <2>3, RestStep, Zenon
<1>5. CASE ~(b > Len(virtual))
  <2>. DEFINE g == [Idle EXCEPT !.pc = "hash", !.batch = b, !.data = virtual[b]]
  <2>1. prv' = [prv EXCEPT ![p] = g]
    BY <1>1, <1>5, Zenon DEF GetBatchToProve, Become
  <2>2. g.pc = "hash" /\ g.batch = b /\ g.inHand = FALSE /\ g.last = 0
    BY Zenon DEF Idle
  <2>. HIDE DEF g
  <2>3. g.pc \in Building /\ g.pc \notin {"set", "witness"} /\ g.last <= verified
    BY <1>0, <2>2 DEF Building
  <2>4. HashesStayKnown /\ UNCHANGED <<verified, snd, expired, restarts>>
    BY <1>0, FrameHashes, Zenon DEF ProverFrame
  <2>. QED  BY <1>2, <1>3, <2>1, <2>2, <2>3, <2>4, BuildStep, Zenon
<1>. QED  BY <1>4, <1>5, Zenon

\* The batch a goroutine works on under stateDBMutex.
LEMMA BuilderArea ==
    ASSUME HashInv, WorkInv, NEW p \in Provers, prv[p].pc \in Building
    PROVE  LET b == prv[p].batch
               k == [from |-> b, to |-> b]
           IN  /\ b \in Nat /\ prv[p].inHand = FALSE /\ OthersFree(p, b, b)
               /\ LockedIn(proofs, k) \/ Uncovered(proofs, k)
<1>. DEFINE k == [from |-> prv[p].batch, to |-> prv[p].batch]
<1>1. prv[p].inHand = FALSE /\ prv[p].batch \in Nat
  <2>1. prv[p].inHand \in BOOLEAN /\ prv[p].batch \in Nat
    <3>1. prv[p] \in Goroutine /\ MaxBatch \in Nat
      BY WorkBefore, SequenceTypes, Zenon
    <3>2. prv[p].inHand \in BOOLEAN /\ prv[p].batch \in 0 .. MaxBatch
      BY <3>1, Zenon DEF Goroutine
    <3>. QED  BY <3>1, <3>2
  <2>2. ~prv[p].inHand
    BY WorkBefore, Zenon DEF GoroutineOK, Building
  <2>. QED  BY <2>1, <2>2, Zenon
<1>2. k \in Claims(prv[p])
  BY <1>1, Zenon DEF Claims, Holding, Building
<1>3. k.from = prv[p].batch /\ k.to = prv[p].batch
  BY Zenon
<1>. HIDE DEF k
<1>4. OthersFree(p, k.from, k.to) /\ (LockedIn(proofs, k) \/ Uncovered(proofs, k))
  BY <1>2, OwnArea, WorkBefore, Zenon DEF GoroutineWorks
<1>. QED  BY <1>1, <1>3, <1>4, Zenon DEF k

\* The hash of the batch is calculated.
LEMMA WorkCalculate ==
    ASSUME HashInv, HashInv', WorkInv, NEW p \in Provers, CalculateAccInputHash(p)
    PROVE  WorkInv'
<1>0. /\ ProverFrame /\ verified \in Nat /\ proofs' = proofs /\ prv[p].pc = "hash"
      /\ prv[p].pc \in Building
  BY WorkBefore, Zenon DEF CalculateAccInputHash, ProverFrame, others, l1Vars, dbVars, Building
<1>1. PICK b : b = prv[p].batch
  BY Zenon
<1>2. CASE MissingHash(b - 1)
  <2>. DEFINE g == [Idle EXCEPT !.pc = "loop"]
  <2>1. ~Holding(g) /\ g.pc \in Resting /\ g.last = 0
    BY IdleRests, Zenon
  <2>2. g = Idle
    BY IdleType, Zenon DEF Goroutine
  <2>. HIDE DEF g
  <2>3. prv' = [prv EXCEPT ![p] = g] /\ g.last <= verified
    BY <1>0, <1>1, <1>2, <2>1, <2>2, SMTT(30) DEF CalculateAccInputHash, Become
  <2>. QED  BY <1>0, <2>1, <2>3, RestStep, Zenon
<1>3. CASE ~MissingHash(b - 1)
  <2>1. PICK a : a = Append(accInputHashes[b - 1], prv[p].data)
    BY ZenonT(30)
  <2>. DEFINE g == [prv[p] EXCEPT !.pc = "set", !.acc = a]
  <2>2. prv' = [prv EXCEPT ![p] = g]
    BY <1>1, <1>3, <2>1, Zenon DEF CalculateAccInputHash, Become
  <2>3. /\ g.pc = "set" /\ g.batch = prv[p].batch /\ g.inHand = prv[p].inHand
        /\ g.last = prv[p].last
    BY WorkBefore, Zenon DEF Goroutine
  <2>. HIDE DEF g
  <2>4. g.pc \in Building /\ g.last <= verified /\ HashKnown(g.batch)
    BY <1>1, <1>3, <2>3, WorkBefore, Zenon DEF Building, HashKnown
  <2>5. HashesStayKnown /\ UNCHANGED <<verified, snd, expired, restarts>>
    BY <1>0, FrameHashes, Zenon DEF ProverFrame
  <2>6. /\ g.batch \in Nat /\ g.inHand = FALSE /\ OthersFree(p, g.batch, g.batch)
        /\ LockedIn(proofs, [from |-> g.batch, to |-> g.batch])
              \/ Uncovered(proofs, [from |-> g.batch, to |-> g.batch])
    BY <1>0, <2>3, BuilderArea, Zenon
  <2>. QED  BY <1>0, <2>2, <2>4, <2>5, <2>6, BuildStep, Zenon
<1>. QED  BY <1>2, <1>3, Zenon

\* ... and stored: no hash gets lost.
LEMMA WorkStoreHash ==
    ASSUME HashInv, HashInv', WorkInv, NEW p \in Provers, setAccInputHash(p)
    PROVE  WorkInv'
<1>0. /\ UNCHANGED <<verified, snd, expired, restarts>> /\ proofs' = proofs /\ prv[p].pc = "set"
      /\ prv[p].pc \in Building
      /\ accInputHashes' = [accInputHashes EXCEPT ![prv[p].batch] = prv[p].acc]
      /\ prv' = [prv EXCEPT ![p].pc = "witness"]
  BY Zenon DEF setAccInputHash, others, l1Vars, dbVars, Building, Goto
<1>. DEFINE g == [prv[p] EXCEPT !.pc = "witness"]
<1>1. /\ g.pc = "witness" /\ g.batch = prv[p].batch /\ g.inHand = prv[p].inHand
      /\ g.last = prv[p].last /\ prv' = [prv EXCEPT ![p] = g]
  BY <1>0, WorkBefore, Zenon DEF Goroutine
<1>. HIDE DEF g
<1>2. /\ prv[p].acc # << >> /\ DOMAIN accInputHashes = 0 .. MaxBatch
  <2>1. SectionOK(prv[p]) /\ prv[p].batch \in Batch /\ prv[p].acc \in Seq(Nat)
    BY <1>0, WorkBefore, Zenon DEF HashInv, HashesOK, GoroutineOK, Goroutine
  <2>2. Len(prv[p].acc) = prv[p].batch /\ prv[p].batch > 0
    BY <1>0, <2>1, SequenceTypes DEF SectionOK, Batch
  <2>3. prv[p].acc # << >>
    BY <2>2
  <2>. QED  BY <2>3, Zenon DEF HashInv, Types, TableTypes
<1>3. HashesStayKnown
  <2>1. ASSUME NEW n \in 0 .. MaxBatch, ~MissingHash(n - 1) PROVE ~MissingHash(n - 1)'
    <3>1. MaxBatch \in Nat
      BY SequenceTypes, Zenon
    <3>2. CASE n - 1 > 0
      <4>1. n - 1 \in 0 .. MaxBatch
        BY <3>1, <3>2
      <4>2. accInputHashes'[n - 1] = accInputHashes[n - 1] \/ accInputHashes'[n - 1] = prv[p].acc
        BY <1>0, <1>2, <4>1, Zenon
      <4>. QED  BY <1>2, <2>1, <3>2, <4>2, Zenon DEF MissingHash
    <3>. QED  BY <3>2, Zenon DEF MissingHash
  <2>. QED  BY <1>0, <2>1, Zenon DEF HashesStayKnown, HashKnown
<1>4. g.pc \in Building /\ g.last <= verified /\ HashKnown(g.batch)
  BY <1>0, <1>1, WorkBefore, Zenon DEF Building, GoroutineWorks
<1>5. /\ g.batch \in Nat /\ g.inHand = FALSE /\ OthersFree(p, g.batch, g.batch)
      /\ LockedIn(proofs, [from |-> g.batch, to |-> g.batch])
            \/ Uncovered(proofs, [from |-> g.batch, to |-> g.batch])
  BY <1>0, <1>1, BuilderArea, Zenon
<1>. QED  BY <1>0, <1>1, <1>3, <1>4, <1>5, BuildStep, Zenon

\* The request for the witness fails.
LEMMA WorkWitnessFails ==
    ASSUME HashInv, HashInv', WorkInv, NEW p \in Provers, GetWitnessFails(p)
    PROVE  WorkInv'
<1>0. /\ ProverFrame /\ proofs' = proofs /\ prv[p].pc \in Building
      /\ prv' = [prv EXCEPT ![p].pc = "stuck"]
  BY Zenon DEF GetWitnessFails, ProverFrame, l1Vars, dbVars, memVars, Building, Goto
<1>. DEFINE g == [prv[p] EXCEPT !.pc = "stuck"]
<1>1. /\ g.pc = "stuck" /\ g.inHand = prv[p].inHand /\ g.last = prv[p].last
      /\ prv' = [prv EXCEPT ![p] = g]
  BY <1>0, WorkBefore, Zenon DEF Goroutine
<1>. HIDE DEF g
<1>2. ~Holding(g) /\ g.pc \in Resting /\ g.last <= verified
  BY <1>0, <1>1, BuilderArea, WorkBefore, Zenon DEF Holding, Resting
<1>. QED  BY <1>0, <1>1, <1>2, RestStep, Zenon

\* The locked row of the batch is inserted.
LEMMA WorkAddProof ==
    ASSUME HashInv, HashInv', WorkInv, NEW p \in Provers, AddGeneratedProof(p)
    PROVE  WorkInv'
<1>0. ProverFrame /\ prv[p].pc = "witness" /\ prv[p].pc \in Building
  BY Zenon DEF AddGeneratedProof, ProverFrame, others, l1Vars, Building
<1>1. PICK b : b = prv[p].batch
  BY Zenon
<1>2. /\ b \in Nat /\ prv[p].inHand = FALSE /\ OthersFree(p, b, b) /\ verified \in Nat
      /\ LockedIn(proofs, [from |-> b, to |-> b]) \/ Uncovered(proofs, [from |-> b, to |-> b])
  BY <1>0, <1>1, BuilderArea, WorkBefore, Zenon
<1>3. PICK row : row = [from |-> b, to |-> b, content |-> None, locked |-> TRUE]
  BY Zenon
<1>4. row.from = b /\ row.to = b /\ row.locked = TRUE
  BY <1>3, Zenon
<1>5. CASE \E r \in proofs : SameRange(r, row)
  <2>. DEFINE g == [Idle EXCEPT !.pc = "loop"]
  <2>1. ~Holding(g) /\ g.pc \in Resting /\ g.last = 0
    BY IdleRests, Zenon
  <2>2. g = Idle
    BY IdleType, Zenon DEF Goroutine
  <2>. HIDE DEF g
  <2>3. prv' = [prv EXCEPT ![p] = g] /\ proofs' = proofs
    BY <1>1, <1>3, <1>5, <2>2, Zenon DEF AddGeneratedProof, Become
  <2>4. g.last <= verified
    BY <1>2, <2>1
  <2>. QED  BY <1>0, <2>1, <2>3, <2>4, RestStep, Zenon
<1>6. CASE ~\E r \in proofs : SameRange(r, row)
  <2>. DEFINE g == [prv[p] EXCEPT !.pc = "input", !.proof = row]
  <2>1. prv' = [prv EXCEPT ![p] = g] /\ proofs' = proofs \cup {row}
    BY <1>1, <1>3, <1>6, Zenon DEF AddGeneratedProof, Become
  <2>2. /\ g.pc = "input" /\ g.batch = b /\ g.inHand = FALSE /\ g.last = prv[p].last
        /\ g.proof = row
    BY <1>1, <1>2, WorkBefore, Zenon DEF Goroutine
  <2>. HIDE DEF g
  <2>3. PICK U : U = proofs \cup {row}
    BY Zenon
  <2>4. \A r \in proofs : r.to < b \/ b < r.from
    <3>1. Uncovered(proofs, [from |-> b, to |-> b])
      BY <1>2, <1>4, <1>6, Zenon DEF LockedIn, SameRange
    <3>. QED  BY <3>1, Zenon DEF Uncovered, Apart
  <2>5. \A r \in proofs : Apart(r, row) /\ Apart(row, r)
    BY <1>4, <2>4, Zenon DEF Apart
  <2>6. RowsOK(U)
    <3>1. row.from <= row.to
      BY <1>2, <1>4
    <3>2. ASSUME NEW r \in U PROVE r.from <= r.to
      BY <2>3, <3>1, WorkBefore, Zenon DEF RowsOK
    <3>3. ASSUME NEW r \in U, NEW q \in U PROVE r = q \/ Apart(r, q)
      <4>1. CASE r \in proofs /\ q \in proofs
        BY <4>1, WorkBefore, Zenon DEF RowsOK
      <4>. QED  BY <2>3, <2>5, <3>3, <4>1, Zenon
    <3>. QED  BY <3>2, <3>3, Zenon DEF RowsOK
  <2>7. HashesThere(U)
    <3>1. HashKnown(b) /\ HashesThere(proofs)
      BY <1>0, <1>1, WorkBefore, Zenon DEF GoroutineWorks
    <3>2. \A n \in row.from .. row.to : n = b
      BY <1>2, <1>4
    <3>. QED  BY <2>3, <3>1, <3>2, Zenon DEF HashesThere
  <2>8. Within(proofs, U, b, b)
    BY <1>2, <1>4, <2>3 DEF Within
  <2>9. Claims(g) = {row} /\ LockedIn(U, row)
    BY <1>4, <2>2, <2>3, Zenon DEF Claims, LockedIn, SameRange
  <2>10. GoroutineWorks(U, g) /\ \A k \in Claims(g) : b <= k.from /\ k.to <= b
    <3>1. b <= b
      BY <1>2
    <3>2. g.last <= verified
      BY <2>2, WorkBefore, Zenon
    <3>. QED  BY <1>4, <2>2, <2>9, <3>1, <3>2, Zenon DEF GoroutineWorks
  <2>11. HashesStayKnown /\ UNCHANGED <<verified, snd, expired, restarts>>
    BY <1>0, FrameHashes, Zenon DEF ProverFrame
  <2>12. U = proofs'
    BY <2>1, <2>3, Zenon
  <2>. QED  BY <1>2, <2>1, <2>6, <2>7, <2>8, <2>10, <2>11, <2>12, AreaStep, Zenon
<1>. QED  BY <1>5, <1>6, Zenon

\* The row of the batch a goroutine makes a proof of.
LEMMA ProvingArea ==
    ASSUME HashInv, WorkInv, NEW p \in Provers, prv[p].pc \in {"input", "proving"}
    PROVE  LET b == prv[p].batch
           IN  /\ b \in Nat /\ prv[p].inHand = FALSE /\ OthersFree(p, b, b)
               /\ prv[p].proof.from = b /\ prv[p].proof.to = b /\ LockedIn(proofs, prv[p].proof)
<1>1. prv[p].inHand = FALSE /\ prv[p].batch \in Nat
  <2>1. prv[p].inHand \in BOOLEAN /\ prv[p].batch \in Nat
    <3>1. prv[p] \in Goroutine /\ MaxBatch \in Nat
      BY WorkBefore, SequenceTypes, Zenon
    <3>2. prv[p].inHand \in BOOLEAN /\ prv[p].batch \in 0 .. MaxBatch
      BY <3>1, Zenon DEF Goroutine
    <3>. QED  BY <3>1, <3>2
  <2>2. ~prv[p].inHand
    BY WorkBefore, Zenon DEF GoroutineOK
  <2>. QED  BY <2>1, <2>2, Zenon
<1>2. PICK k : k = prv[p].proof
  BY Zenon
<1>3. k \in Claims(prv[p])
  BY <1>2, ZenonT(30) DEF Claims
<1>4. k.from = prv[p].batch /\ k.to = prv[p].batch /\ LockedIn(proofs, k)
  BY <1>2, <1>3, WorkBefore, ZenonT(30) DEF GoroutineWorks, Building
<1>5. OthersFree(p, k.from, k.to)
  BY <1>3, OwnArea, Zenon
<1>. QED  BY <1>1, <1>2, <1>4, <1>5, Zenon

\* Goroutine p gives up its batch and deletes its row.
LEMMA GiveUpStep ==
    ASSUME HashInv, HashInv', WorkInv, NEW p \in Provers, prv[p].pc \in {"input", "proving"},
           prv' = [prv EXCEPT ![p] = Idle], ProverFrame,
           proofs' = DeleteGeneratedProofs(proofs, prv[p].batch, prv[p].batch)
    PROVE  WorkInv'
<1>1. PICK b : b = prv[p].batch
  BY Zenon
<1>2. b \in Nat /\ OthersFree(p, b, b)
  BY <1>1, ProvingArea, Zenon
<1>3. PICK U : U = DeleteGeneratedProofs(proofs, b, b)
  BY Zenon
<1>4. RowsOK(U) /\ Within(proofs, U, b, b) /\ Narrower(proofs, U)
  BY <1>2, <1>3, WorkBefore, DeleteRows, Zenon
<1>. DEFINE g == [Idle EXCEPT !.pc = "loop"]
<1>5. ~Holding(g) /\ g.pc \in Resting /\ g.last = 0
  BY IdleRests, Zenon
<1>6. g = Idle
  BY IdleType, Zenon DEF Goroutine
<1>. HIDE DEF g
<1>7. prv' = [prv EXCEPT ![p] = g] /\ U = proofs' /\ g.last <= verified
  <2>1. 0 <= verified
    BY VerifiedType, Zenon
  <2>. QED  BY <1>1, <1>3, <1>5, <1>6, <2>1, Zenon
<1>. QED  BY <1>2, <1>4, <1>5, <1>7, ReleaseStep, Zenon

\* The input of the prover is built, or the batch given up.
LEMMA WorkBuildInput ==
    ASSUME HashInv, HashInv', WorkInv, NEW p \in Provers, buildInputProver(p) PROVE WorkInv'
<1>0. ProverFrame /\ prv[p].pc = "input" /\ prv[p].pc \in {"input", "proving"}
  BY Zenon DEF buildInputProver, ProverFrame, others, l1Vars
<1>1. CASE MissingHash(prv[p].batch - 1)
  BY <1>0, <1>1, GiveUpStep, Zenon DEF buildInputProver, Become
<1>2. CASE ~MissingHash(prv[p].batch - 1)
  <2>1. PICK b : b = prv[p].batch
    BY Zenon
  <2>2. PICK k : k = prv[p].proof
    BY Zenon
  <2>3. /\ b \in Nat /\ prv[p].inHand = FALSE /\ OthersFree(p, b, b)
        /\ k.from = b /\ k.to = b /\ LockedIn(proofs, k)
    BY <1>0, <2>1, <2>2, ProvingArea, ZenonT(30)
  <2>4. prv[p] \in Goroutine /\ k \in Rows
    BY <1>0, <2>2, WorkBefore, Zenon DEF GoroutineOK
  <2>5. PICK c : c = BatchProof(accInputHashes[b - 1], prv[p].data)
    BY Zenon
  <2>. DEFINE g == [prv[p] EXCEPT !.pc = "proving", !.proof.content = c]
  <2>6. prv' = [prv EXCEPT ![p] = g] /\ proofs' = proofs
    BY <1>2, <2>1, <2>5, Zenon DEF buildInputProver, Become
  <2>7. /\ g.pc = "proving" /\ g.batch = b /\ g.inHand = FALSE /\ g.last = prv[p].last
        /\ g.proof = [k EXCEPT !.content = c]
    BY <2>1, <2>2, <2>3, <2>4, Zenon DEF Goroutine
  <2>. HIDE DEF g
  <2>8. g.proof.from = b /\ g.proof.to = b
    BY <2>3, <2>4, <2>7, Zenon DEF Rows
  <2>9. LockedIn(proofs, g.proof)
    BY <2>3, <2>8, Zenon DEF LockedIn, SameRange
  <2>10. Claims(g) = {g.proof}
    BY <2>7, Zenon DEF Claims
  <2>11. GoroutineWorks(proofs, g) /\ \A l \in Claims(g) : b <= l.from /\ l.to <= b
    <3>1. b <= b /\ g.last <= verified
      BY <2>3, <2>7, WorkBefore, SMTT(30)
    <3>. QED  BY <2>7, <2>8, <2>9, <2>10, <3>1, Zenon DEF GoroutineWorks
  <2>12. HashesStayKnown /\ UNCHANGED <<verified, snd, expired, restarts>>
    BY <1>0, FrameHashes, Zenon DEF ProverFrame
  <2>13. RowsOK(proofs) /\ HashesThere(proofs) /\ Within(proofs, proofs, b, b)
    BY SameRows, WorkBefore, Zenon
  <2>. QED  BY <2>3, <2>6, <2>11, <2>12, <2>13, AreaStep, Zenon
<1>. QED  BY <1>1, <1>2, Zenon

\* The batch proof comes, or does not.
LEMMA WorkBatchProof ==
    ASSUME HashInv, HashInv', WorkInv, NEW p \in Provers,
           BatchProofGenerated(p) \/ BatchProofFails(p)
    PROVE  WorkInv'
<1>0. ProverFrame /\ prv[p].pc \in {"input", "proving"}
  BY Zenon DEF BatchProofGenerated, BatchProofFails, ProverFrame, others, l1Vars
<1>1. CASE BatchProofFails(p)
  BY <1>0, <1>1, GiveUpStep, Zenon DEF BatchProofFails, Become
<1>2. PICK k : k = prv[p].proof
  BY Zenon
<1>3. PICK b : b = prv[p].batch
  BY Zenon
<1>4. /\ b \in Nat /\ prv[p].inHand = FALSE /\ OthersFree(p, b, b)
      /\ k.from = b /\ k.to = b /\ LockedIn(proofs, k)
  BY <1>0, <1>2, <1>3, ProvingArea, Zenon
<1>5. CASE BatchProofGenerated(p) /\ prv[p].proof.content.new # prv[p].acc
  <2>. DEFINE g == [prv[p] EXCEPT !.pc = "halted"]
  <2>1. prv' = [prv EXCEPT ![p] = g] /\ proofs' = proofs
    BY <1>5, Zenon DEF BatchProofGenerated, Become, dbVars
  <2>2. g.pc = "halted" /\ g.inHand = FALSE /\ g.last = prv[p].last
    BY <1>4, WorkBefore, Zenon DEF Goroutine
  <2>. HIDE DEF g
  <2>3. ~Holding(g) /\ g.pc \in Resting /\ g.last <= verified
    BY <2>2, WorkBefore, Zenon DEF Holding, Resting
  <2>. QED  BY <1>0, <2>1, <2>3, RestStep, Zenon
<1>6. CASE BatchProofGenerated(p) /\ prv[p].proof.content.new = prv[p].acc
  <2>. DEFINE g == [Idle EXCEPT !.pc = "check", !.inHand = TRUE, !.proof = k]
  <2>1. prv' = [prv EXCEPT ![p] = g] /\ proofs' = proofs
    BY <1>2, <1>6, Zenon DEF BatchProofGenerated, Become, dbVars
  <2>2. g.pc = "check" /\ g.inHand = TRUE /\ g.last = 0 /\ g.proof = k
    BY Zenon DEF Idle
  <2>. HIDE DEF g
  <2>3. Holding(g) /\ g.last <= verified /\ b <= b
    <3>1. 0 <= verified
      BY VerifiedType, Zenon
    <3>2. b <= b
      BY <1>4
    <3>. QED  BY <2>2, <3>1, <3>2, Zenon DEF Holding
  <2>4. /\ g.proof.from = b /\ g.proof.to = b /\ LockedIn(proofs, g.proof)
        /\ g.pc \in {"check", "ready", "validate", "build", "send", "store"}
    BY <1>4, <2>2, ZenonT(30)
  <2>5. RowsOK(proofs) /\ HashesThere(proofs) /\ Within(proofs, proofs, b, b)
    BY SameRows, WorkBefore, Zenon
  <2>. QED  BY <1>0, <1>4, <2>1, <2>3, <2>4, <2>5, TakeStep, Zenon
<1>. QED  BY <1>1, <1>5, <1>6, Zenon

\* The loop of Channel starts over.
LEMMA WorkChannel ==
    ASSUME HashInv, HashInv', WorkInv, NEW p \in Provers, Channel(p) PROVE WorkInv'
<1>1. PICK g : g = [Idle EXCEPT !.pc = "check"]
  BY Zenon
<1>2. ~Holding(g) /\ g.pc \in Resting /\ g.last = 0
  BY <1>1, IdleRests, Zenon
<1>3. g.last <= verified
  BY <1>2, WorkBefore
<1>4. ProverFrame /\ proofs' = proofs /\ prv' = [prv EXCEPT ![p] = g]
  BY <1>1, Zenon DEF Channel, Become, ProverFrame, others, l1Vars, dbVars
<1>. QED  BY <1>2, <1>3, <1>4, RestStep, Zenon

-----------------------------------------------------------------------------
(* The steps of sendFinalProof, of L1 and of cleanupLockedProofs           *)

\* A step that is not one of a goroutine: rows may go, or change their lock, but not
\* the locked ones somebody works on.
LEMMA BesideStep ==
    ASSUME HashInv, HashInv', WorkInv, prv' = prv,
           NEW U, U = proofs', RowsOK(U), Narrower(proofs, U),
           HashesStayKnown, verified <= verified', UNCHANGED <<expired, restarts>>,
           \A p \in Provers : \A k \in Claims(prv[p]) :
              LockedIn(proofs, k) =>
                 LockedIn(U, k) \/ (prv[p].pc \in Building /\ Uncovered(U, k)),
           IF snd'.pc = "wait" THEN snd'.proof = None
           ELSE snd.pc # "wait" /\ snd'.proof = snd.proof /\ LockedIn(U, snd.proof)
    PROVE  WorkInv'
<1>1. U \subseteq Rows /\ verified \in Nat /\ verified' \in Nat
  <2>1. U \subseteq Rows
    BY Zenon DEF HashInv, Types, TableTypes
  <2>3. verified' \in 0 .. Len(virtual')
    BY Zenon DEF HashInv, Types, L1Types
  <2>4. verified' \in Nat
    BY <2>3
  <2>. QED  BY <2>1, <2>4, VerifiedType, Zenon
<1>2. \A k : Uncovered(proofs, k) => Uncovered(U, k)
  BY Zenon DEF Uncovered, Narrower, SameRange, Apart
<1>3. ASSUME NEW q \in Provers PROVE GoroutineWorks(proofs, prv[q])' /\ Claims(prv[q])' = Claims(prv[q])
  <2>1. PICK h : h = prv[q]
    BY Zenon
  <2>2. GoroutineOK(h) /\ GoroutineWorks(U, h)
    BY <1>2, <2>1, WorkBefore, Zenon DEF GoroutineWorks
  <2>3. h.batch \in 0 .. MaxBatch /\ h.last \in Nat
    BY <2>2, ZenonT(30) DEF GoroutineOK, Goroutine
  <2>4. \A k \in Claims(h) : k.to \in Nat
    BY <2>2, ClaimNumbers, ZenonT(30)
  <2>5. GoroutineWorks(U, h)'
    BY <1>1, <2>2, <2>3, <2>4, WorksLater, Zenon
  <2>. QED  BY <2>1, <2>5, ZenonT(30) DEF GoroutineWorks, Claims, Holding
<1>4. (\A p, q \in Provers : p # q => \A k \in Claims(prv[p]), l \in Claims(prv[q]) : Apart(k, l))'
  BY <1>3, Zenon DEF WorkInv, Apart
<1>5. SenderWorks'
  <2>1. CASE snd'.pc = "wait"
    BY <2>1, ZenonT(30) DEF SenderWorks
  <2>2. CASE snd'.pc # "wait"
    <3>1. snd.proof.from <= snd.proof.to /\ LockedIn(U, snd.proof) /\ snd'.proof = snd.proof
      BY <2>2, ZenonT(30) DEF WorkInv, SenderWorks
    <3>2. \A p \in Provers : \A k \in Claims(prv[p])' : Apart(k, snd.proof)
      BY <1>3, <2>2, ZenonT(30) DEF WorkInv, SenderWorks
    <3>. QED  BY <2>2, <3>1, <3>2, ZenonT(30) DEF SenderWorks, LockedIn, SameRange, Apart
  <2>. QED  BY <2>1, <2>2, Zenon
<1>6. RowsOK(proofs)' /\ HashesThere(proofs)'
  <2>1. HashesThere(U)
    BY NarrowerHashes, ZenonT(30) DEF WorkInv
  <2>2. HashesThere(U)'
    BY <1>1, <2>1, HashesLater, ZenonT(30)
  <2>. QED  BY <2>2, ZenonT(30) DEF RowsOK, Apart, HashesThere
<1>. QED  BY <1>3, <1>4, <1>5, <1>6, ZenonT(30) DEF WorkInv

\* What is known of the proof that sendFinalProof settles.
LEMMA SentProof ==
    ASSUME HashInv, WorkInv, snd.pc # "wait"
    PROVE  /\ snd.proof \in Generated /\ snd.proof.from \in Nat /\ snd.proof.to \in Nat
           /\ snd.proof.from <= snd.proof.to /\ LockedIn(proofs, snd.proof)
           /\ \A p \in Provers : \A k \in Claims(prv[p]) : Apart(k, snd.proof)
<1>1. snd.proof \in Generated
  BY Zenon DEF HashInv, Types, SenderTypes
<1>. QED  BY <1>1, RowFacts, RowNumbers, Zenon DEF WorkInv, SenderWorks

\* The steps of sendFinalProof that leave the table alone.
LEMMA WorkSettle ==
    ASSUME HashInv, HashInv', WorkInv,
           \/ startProofVerification \/ GetFinalBatchFails \/ settleDirect
           \/ settleWithAggLayer \/ WaitTxToBeMined
    PROVE  WorkInv'
<1>1. /\ UNCHANGED <<prv, proofs, accInputHashes, verified, expired, restarts>>
      /\ snd.pc # "wait"
      /\ snd' = Waiting \/ \E pc \in {"batch", "process", "mining"} : snd' = [snd EXCEPT !.pc = pc]
  BY Zenon DEF startProofVerification, GetFinalBatchFails, settleDirect, settleWithAggLayer,
     WaitTxToBeMined, outside
<1>2. IF snd'.pc = "wait" THEN snd'.proof = None
      ELSE snd.pc # "wait" /\ snd'.proof = snd.proof /\ LockedIn(proofs, snd.proof)
  <2>1. CASE snd' = Waiting
    BY <2>1, Zenon DEF Waiting
  <2>2. ASSUME NEW pc \in {"batch", "process", "mining"}, snd' = [snd EXCEPT !.pc = pc]
        PROVE  snd'.pc # "wait" /\ snd'.proof = snd.proof
    <3>1. snd \in [pc : {"wait", "received", "batch", "process", "mining"}, proof : Generated \cup {None}]
      BY Zenon DEF HashInv, Types, SenderTypes
    <3>. QED  BY <2>2, <3>1, Zenon
  <2>. QED  BY <1>1, <2>1, <2>2, SentProof, Zenon
<1>3. HashesStayKnown
  BY <1>1, FrameHashes, Zenon
<1>4. verified <= verified'
  BY <1>1, VerifiedType
<1>. QED  BY <1>1, <1>2, <1>3, <1>4, SameRows, BesideStep, Zenon

\* A change of rows within the proof sendFinalProof has takes no lock away.
LEMMA SentArea ==
    ASSUME HashInv, WorkInv, snd.pc # "wait", NEW U, U \subseteq Rows, RowsOK(U),
           Within(proofs, U, snd.proof.from, snd.proof.to)
    PROVE  \A p \in Provers : \A k \in Claims(prv[p]) : LockedIn(proofs, k) => LockedIn(U, k)
<1>1. SUFFICES ASSUME NEW p \in Provers, NEW k \in Claims(prv[p]), LockedIn(proofs, k)
               PROVE  LockedIn(U, k)
  BY Zenon
<1>2. k.from \in Nat /\ k.to \in Nat
  BY WorkBefore, ClaimNumbers, ZenonT(30)
<1>3. k.from <= k.to /\ proofs \subseteq Rows
  BY WorkBefore, ZenonT(30) DEF GoroutineWorks
<1>4. k.to < snd.proof.from \/ snd.proof.to < k.from
  BY SentProof, Zenon DEF Apart
<1>5. PICK lo, hi : lo = snd.proof.from /\ hi = snd.proof.to
  BY Zenon
<1>6. lo \in Nat /\ hi \in Nat
  BY <1>5, SentProof, Zenon
<1>7. Within(proofs, U, lo, hi) /\ (k.to < lo \/ hi < k.from)
  BY <1>4, <1>5, Zenon
<1>8. LockedIn(proofs, k) => LockedIn(U, k)
  BY <1>2, <1>3, <1>6, <1>7, StatusKept, Zenon
<1>. QED  BY <1>1, <1>8, Zenon

\* The state of sendFinalProof that waits for a proof.
LEMMA NothingSent == Waiting.pc = "wait" /\ Waiting.proof = None
  BY Zenon DEF Waiting

\* The proof is put back.
LEMMA WorkHandleFailure ==
    ASSUME HashInv, HashInv', WorkInv, handleFailureToAddVerifyBatchToBeMonitored PROVE WorkInv'
<1>1. /\ UNCHANGED <<prv, accInputHashes, verified, expired, restarts>>
      /\ snd.pc # "wait" /\ snd' = Waiting
  BY Zenon DEF handleFailureToAddVerifyBatchToBeMonitored, outside
<1>2. PICK U : U = UpdateGeneratedProof(proofs, Unlock(snd.proof))
  BY Zenon
<1>3. proofs \subseteq Rows /\ RowsOK(proofs) /\ verified \in Nat
  BY VerifiedType, Zenon DEF HashInv, Types, TableTypes, WorkInv
<1>4. U \subseteq Rows /\ RowsOK(U) /\ Within(proofs, U, snd.proof.from, snd.proof.to) /\ Narrower(proofs, U)
  BY <1>1, <1>2, <1>3, SentProof, UnlockRow, Zenon
<1>5. \A p \in Provers : \A k \in Claims(prv[p]) : LockedIn(proofs, k) => LockedIn(U, k)
  BY <1>1, <1>4, SentArea, Zenon
<1>6. snd'.pc = "wait" /\ snd'.proof = None /\ U = proofs'
  BY <1>1, <1>2, NothingSent, Zenon DEF handleFailureToAddVerifyBatchToBeMonitored
<1>7. HashesStayKnown /\ verified <= verified'
  BY <1>1, <1>3, FrameHashes
<1>. QED  BY <1>1, <1>4, <1>5, <1>6, <1>7, BesideStep, Zenon

\* The verification is final: the rows of its batches go, and the hashes before its
\* last batch, which nobody needs any more.
LEMMA WorkHandleResult ==
    ASSUME HashInv, HashInv', ValidInv, WorkInv, handleMonitoredTxResult PROVE WorkInv'
<1>1. /\ UNCHANGED <<prv, verified, expired, restarts>>
      /\ snd.pc # "wait" /\ snd.pc = "process" /\ pending = {} /\ snd' = Waiting
  BY Zenon DEF handleMonitoredTxResult, outside
<1>2. PICK U : U = DeleteGeneratedProofs(proofs, snd.proof.from, snd.proof.to)
  BY Zenon
<1>3. proofs \subseteq Rows /\ RowsOK(proofs) /\ verified \in Nat
  BY VerifiedType, Zenon DEF HashInv, Types, TableTypes, WorkInv
<1>4. U \subseteq Rows /\ RowsOK(U) /\ Within(proofs, U, snd.proof.from, snd.proof.to) /\ Narrower(proofs, U)
  BY <1>1, <1>2, <1>3, SentProof, DeleteRows, Zenon
<1>5. \A p \in Provers : \A k \in Claims(prv[p]) : LockedIn(proofs, k) => LockedIn(U, k)
  BY <1>1, <1>4, SentArea, Zenon
<1>6. snd'.pc = "wait" /\ snd'.proof = None /\ U = proofs'
  BY <1>1, <1>2, NothingSent, Zenon DEF handleMonitoredTxResult
<1>7. snd.proof.to <= verified /\ snd.proof.to \in Nat
  BY <1>1, SentProof, Zenon DEF WorkInv, ValidInv, SettledOnce
<1>8. HashesStayKnown
  <2>1. SUFFICES ASSUME NEW n \in 0 .. MaxBatch, HashKnown(n) PROVE HashKnown(n)'
    BY Zenon DEF HashesStayKnown
  <2>2. CASE n <= verified
    BY <1>1, <2>2, Zenon DEF HashKnown
  <2>3. CASE ~(n <= verified)
    <3>1. n - 1 \in 0 .. MaxBatch /\ ~(n - 1 < snd.proof.to)
      BY <1>3, <1>7, <2>3, SequenceTypes, SMTT(30)
    <3>2. accInputHashes'[n - 1] = accInputHashes[n - 1]
      BY <3>1, Zenon DEF handleMonitoredTxResult
    <3>3. ~MissingHash(n - 1)
      BY <2>1, <2>3, Zenon DEF HashKnown
    <3>. QED  BY <3>2, <3>3, Zenon DEF HashKnown, MissingHash
  <2>. QED  BY <2>2, <2>3, Zenon
<1>9. verified <= verified'
  BY <1>1, <1>3
<1>. QED  BY <1>1, <1>4, <1>5, <1>6, <1>8, <1>9, BesideStep, Zenon

\* Batches are sequenced, or a verification is mined.
LEMMA WorkL1 == ASSUME HashInv, HashInv', WorkInv, L1 PROVE WorkInv'
<1>1. /\ UNCHANGED <<prv, proofs, accInputHashes, snd, expired, restarts>>
      /\ verified' = verified \/ \E k \in pending : Accepts(k) /\ verified' = k.to
  BY Zenon DEF L1, Sequence, MineVerification, dbVars, memVars, boundVars
<1>2. verified \in Nat /\ verified' \in Nat
  BY SequenceTypes DEF HashInv, Types, L1Types
<1>3. verified <= verified'
  <2>1. \A k \in pending : Accepts(k) => verified < k.to
    BY Zenon DEF Accepts
  <2>. QED  BY <1>1, <1>2, <2>1
<1>4. HashesStayKnown
  BY <1>1, <1>2, <1>3, SMTT(30) DEF HashesStayKnown, HashKnown, MissingHash
<1>5. IF snd'.pc = "wait" THEN snd'.proof = None
      ELSE snd.pc # "wait" /\ snd'.proof = snd.proof /\ LockedIn(proofs, snd.proof)
  BY <1>1, ZenonT(30) DEF WorkInv, SenderWorks
<1>. QED  BY <1>1, <1>3, <1>4, <1>5, SameRows, BesideStep, Zenon

\* Working is the union of the claims, but for the batch getAndLockBatchToProve is
\* still about to insert.
LEMMA WorkingIsClaimed ==
    ASSUME HashInv, WorkInv, NEW p \in Provers
    PROVE  /\ \A n \in Working(p) : \E k \in Claims(prv[p]) : k.from <= n /\ n <= k.to
           /\ prv[p].pc \notin Building => \A k \in Claims(prv[p]) : k.from .. k.to \subseteq Working(p)
<1>. DEFINE g == prv[p]
<1>1. GoroutineOK(g) /\ GoroutineWorks(proofs, g)
  BY WorkBefore, Zenon
<1>2. CASE Holding(g) \/ g.pc \in {"input", "proving"}
  <2>1. Working(p) = g.proof.from .. g.proof.to /\ Claims(g) = {g.proof}
    BY <1>2, Zenon DEF Working, Claims, Holding
  <2>. QED  BY <2>1
<1>3. CASE ~(Holding(g) \/ g.pc \in {"input", "proving"}) /\ g.pc = "aggregating"
  <2>1. Working(p) = g.proof.from .. g.other.to /\ Claims(g) = {g.proof, g.other}
    BY <1>3, Zenon DEF Working, Claims, Holding
  <2>2. \A k \in Claims(g) : k.from \in Nat /\ k.to \in Nat /\ k.from <= k.to
    BY <1>1, ClaimNumbers, ZenonT(30) DEF GoroutineWorks
  <2>3. g.other.from = g.proof.to + 1
    BY <1>1, <1>3, Zenon DEF GoroutineWorks
  <2>4. /\ g.proof.from \in Nat /\ g.proof.to \in Nat /\ g.proof.from <= g.proof.to
        /\ g.other.from \in Nat /\ g.other.to \in Nat /\ g.other.from <= g.other.to
    BY <2>1, <2>2, Zenon
  <2>5. \A n \in g.proof.from .. g.other.to :
           \/ g.proof.from <= n /\ n <= g.proof.to
           \/ g.other.from <= n /\ n <= g.other.to
    BY <2>3, <2>4, SMTT(30)
  <2>6. /\ g.proof.from .. g.proof.to \subseteq g.proof.from .. g.other.to
        /\ g.other.from .. g.other.to \subseteq g.proof.from .. g.other.to
    BY <2>3, <2>4, SMT
  <2>. QED  BY <2>1, <2>5, <2>6, Zenon
<1>4. CASE ~(Holding(g) \/ g.pc \in {"input", "proving"}) /\ g.pc # "aggregating"
  <2>1. Working(p) = {} /\ (g.pc \notin Building => Claims(g) = {})
    BY <1>4, Zenon DEF Working, Claims, Holding
  <2>. QED  BY <2>1, Zenon
<1>. QED  BY <1>2, <1>3, <1>4, ZenonT(30)

\* The batches sendFinalProof works on.
LEMMA SettlingIsSent ==
    ASSUME HashInv, WorkInv
    PROVE  Settling = IF snd.pc = "wait" THEN {} ELSE snd.proof.from .. snd.proof.to
<1>1. CASE snd.pc = "wait"
  BY <1>1, ZenonT(30) DEF Settling, WorkInv, SenderWorks
<1>2. CASE snd.pc # "wait"
  <2>1. snd.proof \in Generated
    BY <1>2, SentProof, Zenon
  <2>2. \A r \in Generated : r \in [from : Nat, to : Nat, content : [old : Seq(Nat), new : Seq(Nat)], locked : BOOLEAN]
    BY SequenceTypes DEF Generated, Batch, Contents
  <2>3. snd.proof # None
    BY <2>1, <2>2, AggregatorAssumption, Zenon
  <2>. QED  BY <1>2, <2>3, Zenon DEF Settling
<1>. QED  BY <1>1, <1>2, Zenon

\* A lock expires only when nobody works on the row.
LEMMA WorkCleanup ==
    ASSUME MaxExpired = 0, HashInv, HashInv', WorkInv, NEW r \in proofs, CleanupLockedProofs(r)
    PROVE  WorkInv'
<1>1. /\ UNCHANGED <<prv, snd, verified, accInputHashes, restarts>> /\ r.locked
  BY Zenon DEF CleanupLockedProofs, l1Vars, memVars
<1>2. ~Owned(r) /\ expired' = expired
  <2>1. ~(expired < MaxExpired)
    BY DEF WorkInv
  <2>. QED  BY <2>1, Zenon DEF CleanupLockedProofs
<1>3. PICK U : U = proofs \ {r}
  BY Zenon
<1>4. U = proofs' /\ RowsOK(U) /\ Narrower(proofs, U)
  BY <1>3, Zenon DEF CleanupLockedProofs, WorkInv, RowsOK, Narrower, SameRange
<1>5. \A k : LockedIn(proofs, k) => LockedIn(U, k) \/ SameRange(r, k)
  BY <1>3, Zenon DEF LockedIn
<1>6. ASSUME NEW p \in Provers, NEW k \in Claims(prv[p]), LockedIn(proofs, k)
      PROVE  LockedIn(U, k) \/ (prv[p].pc \in Building /\ Uncovered(U, k))
  <2>1. CASE SameRange(r, k) /\ prv[p].pc \notin Building
    <3>1. r.from .. r.to \subseteq Working(p)
      BY <2>1, WorkingIsClaimed, Zenon DEF SameRange
    <3>. QED  BY <1>2, <3>1, Zenon DEF Owned
  <2>2. CASE SameRange(r, k) /\ prv[p].pc \in Building
    BY <1>3, <2>2, Zenon DEF WorkInv, RowsOK, Uncovered, Apart, SameRange
  <2>. QED  BY <1>5, <1>6, <2>1, <2>2, Zenon
<1>7. IF snd'.pc = "wait" THEN snd'.proof = None
      ELSE snd.pc # "wait" /\ snd'.proof = snd.proof /\ LockedIn(U, snd.proof)
  <2>1. CASE snd.pc = "wait"
    BY <1>1, <2>1, ZenonT(30) DEF WorkInv, SenderWorks
  <2>2. CASE snd.pc # "wait"
    <3>1. ~SameRange(r, snd.proof)
      <4>1. Settling = snd.proof.from .. snd.proof.to
        BY <2>2, SettlingIsSent, Zenon
      <4>. QED  BY <1>2, <4>1, Zenon DEF Owned, SameRange
    <3>. QED  BY <1>1, <1>5, <2>2, <3>1, SentProof, Zenon
  <2>. QED  BY <2>1, <2>2, Zenon
<1>8. HashesStayKnown
  BY <1>1, FrameHashes, Zenon
<1>9. verified <= verified'
  BY <1>1, VerifiedType
<1>. QED  BY <1>1, <1>2, <1>4, <1>6, <1>7, <1>8, <1>9, BesideStep, Zenon

-----------------------------------------------------------------------------
(* The theorem                                                             *)

\* Nobody has a claim at the start.
LEMMA InitWork == Init => WorkInv
<1>1. SUFFICES ASSUME Init PROVE WorkInv
  BY Zenon
<1>2. /\ expired = 0 /\ restarts = 0 /\ verified = 0 /\ proofs = {} /\ snd = Waiting
      /\ \A p \in Provers : prv[p] = Idle
  BY <1>1, Zenon DEF Init
<1>3. Idle.pc = "loop" /\ ~Holding(Idle) /\ Idle.last = 0
  BY Zenon DEF Idle, Holding
<1>4. Claims(Idle) = {}
  BY <1>3, Zenon DEF Claims, Building
<1>5. \A p \in Provers : GoroutineWorks(proofs, prv[p]) /\ Claims(prv[p]) = {}
  <2>1. Idle.last <= verified
    BY <1>2, <1>3
  <2>. QED  BY <1>2, <1>3, <1>4, <2>1, Zenon DEF GoroutineWorks
<1>6. SenderWorks
  BY <1>2, Zenon DEF SenderWorks, Waiting
<1>. QED  BY <1>2, <1>5, <1>6, Zenon DEF WorkInv, RowsOK, HashesThere

\* Every step keeps the claims apart.
LEMMA StepWork ==
    ASSUME MaxRollbacks = 0, MaxReorgs = 0, MaxRestarts = 0, MaxExpired = 0,
           HashInv, HashInv', ValidInv, WorkInv, [Next]_vars
    PROVE  WorkInv'
<1>1. CASE UNCHANGED vars
  <2>1. UNCHANGED <<verified, proofs, accInputHashes, prv, snd, expired, restarts>>
    BY <1>1, Zenon DEF vars, l1Vars, dbVars, memVars, boundVars
  <2>2. IF snd'.pc = "wait" THEN snd'.proof = None
        ELSE snd.pc # "wait" /\ snd'.proof = snd.proof /\ LockedIn(proofs, snd.proof)
    BY <2>1, Zenon DEF WorkInv, SenderWorks
  <2>3. HashesStayKnown
    BY <2>1, FrameHashes, Zenon
  <2>4. verified <= verified'
    BY <2>1, SequenceTypes DEF HashInv, Types, L1Types
  <2>. QED  BY <2>1, <2>2, <2>3, <2>4, SameRows, BesideStep, Zenon
<1>2. CASE L1
  BY <1>2, WorkL1, Zenon
<1>3. CASE Sender
  BY <1>3, WorkSettle, WorkHandleFailure, WorkHandleResult, Zenon DEF Sender
<1>4. CASE Callback
  BY <1>4, NoCallbacks, Zenon
<1>5. CASE Start
  BY <1>5 DEF Start, WorkInv
<1>6. CASE \E r \in proofs : CleanupLockedProofs(r)
  BY <1>6, WorkCleanup, Zenon
<1>7. ASSUME NEW p \in Provers, Prover(p) PROVE WorkInv'
  <2>1. CASE Channel(p)
    BY <2>1, WorkChannel, Zenon
  <2>2. CASE FinalProofStep(p)
    BY <2>2, WorkVerify, WorkLockReady, WorkValidate, WorkPutBack, WorkSend, Zenon
       DEF FinalProofStep
  <2>3. CASE AggregateStep(p)
    BY <2>3, WorkLockPair, WorkAggregate, WorkUnlockPair, Zenon DEF AggregateStep
  <2>4. CASE BatchStep(p)
    BY <2>4, WorkPick, WorkCalculate, WorkStoreHash, WorkAddProof, WorkWitnessFails,
       WorkBuildInput, WorkBatchProof, Zenon DEF BatchStep
  <2>. QED  BY <1>7, <2>1, <2>2, <2>3, <2>4, Zenon DEF Prover
<1>. QED  BY <1>1, <1>2, <1>3, <1>4, <1>5, <1>6, <1>7, Zenon DEF Next

\* Claims that are apart leave no batch to two.
LEMMA WorkIsApart == HashInv /\ WorkInv => NoDoubleWork
<1>1. SUFFICES ASSUME HashInv, WorkInv PROVE NoDoubleWork
  BY Zenon
<1>2. \A k, l : \A n : Apart(k, l) => ~(n \in Nat /\ k.from \in Nat /\ k.to \in Nat /\ l.from \in Nat /\ l.to \in Nat
                                     /\ k.from <= n /\ n <= k.to /\ l.from <= n /\ n <= l.to)
  BY DEF Apart
<1>3. ASSUME NEW r \in proofs, NEW q \in proofs, r # q PROVE (r.from .. r.to) \cap (q.from .. q.to) = {}
  <2>1. r.from \in Nat /\ r.to \in Nat /\ q.from \in Nat /\ q.to \in Nat /\ Apart(r, q)
    BY <1>1, <1>3, RowNumbers, Zenon DEF WorkInv, RowsOK, HashInv, Types, TableTypes
  <2>. QED  BY <2>1 DEF Apart
<1>4. ASSUME NEW p \in Provers, NEW n \in Working(p)
      PROVE  n \in Nat /\ \E k \in Claims(prv[p]) : k.from <= n /\ n <= k.to /\ k.from \in Nat /\ k.to \in Nat
  <2>1. PICK k \in Claims(prv[p]) : k.from <= n /\ n <= k.to
    BY <1>1, WorkingIsClaimed, Zenon
  <2>2. k.from \in Nat /\ k.to \in Nat
    BY <1>1, WorkBefore, ClaimNumbers, Zenon
  <2>3. n \in Int
    BY DEF Working
  <2>. QED  BY <2>1, <2>2, <2>3
<1>5. ASSUME NEW p \in Provers, NEW q \in Provers, p # q PROVE Working(p) \cap Working(q) = {}
  <2>1. SUFFICES ASSUME NEW n \in Working(p), n \in Working(q) PROVE FALSE
    BY Zenon
  <2>2. PICK k \in Claims(prv[p]) : k.from <= n /\ n <= k.to /\ k.from \in Nat /\ k.to \in Nat
    BY <1>4, Zenon
  <2>3. PICK l \in Claims(prv[q]) : l.from <= n /\ n <= l.to /\ l.from \in Nat /\ l.to \in Nat
    BY <1>4, <2>1, Zenon
  <2>4. Apart(k, l) /\ n \in Nat
    BY <1>1, <1>4, <1>5, Zenon DEF WorkInv
  <2>. QED  BY <2>2, <2>3, <2>4 DEF Apart
<1>6. ASSUME NEW p \in Provers PROVE Working(p) \cap Settling = {}
  <2>1. SUFFICES ASSUME NEW n \in Working(p), n \in Settling PROVE FALSE
    BY Zenon
  <2>2. snd.pc # "wait" /\ n \in snd.proof.from .. snd.proof.to
    BY <1>1, <2>1, SettlingIsSent, Zenon
  <2>3. PICK k \in Claims(prv[p]) : k.from <= n /\ n <= k.to /\ k.from \in Nat /\ k.to \in Nat
    BY <1>4, Zenon
  <2>4. Apart(k, snd.proof) /\ snd.proof.from \in Nat /\ snd.proof.to \in Nat
    BY <1>1, <2>2, SentProof, Zenon
  <2>. QED  BY <2>2, <2>3, <2>4 DEF Apart
<1>7. ASSUME NEW r \in proofs, ~r.locked PROVE ~Owned(r)
  <2>1. r.from \in Nat /\ r.to \in Nat /\ r.from <= r.to /\ r.from \in r.from .. r.to
    BY <1>1, RowNumbers DEF WorkInv, RowsOK, HashInv, Types, TableTypes
  <2>2. ASSUME NEW p \in Provers, r.from \in Working(p) PROVE FALSE
    <3>1. PICK k \in Claims(prv[p]) : k.from <= r.from /\ r.from <= k.to /\ k.from \in Nat /\ k.to \in Nat
      BY <1>4, <2>2, Zenon
    <3>2. LockedIn(proofs, k) \/ Uncovered(proofs, k)
      BY <1>1, Zenon DEF WorkInv, GoroutineWorks
    <3>3. Apart(k, r)
      BY <1>1, <1>7, <3>2, UnlockedIsApart, Zenon DEF WorkInv
    <3>. QED  BY <2>1, <3>1, <3>3 DEF Apart
  <2>3. ASSUME r.from \in Settling PROVE FALSE
    <3>1. snd.pc # "wait" /\ r.from \in snd.proof.from .. snd.proof.to
      BY <1>1, <2>3, SettlingIsSent, Zenon
    <3>2. LockedIn(proofs, snd.proof) /\ snd.proof.from \in Nat /\ snd.proof.to \in Nat
      BY <1>1, <3>1, SentProof, Zenon
    <3>3. Apart(snd.proof, r)
      BY <1>1, <1>7, <3>2, UnlockedIsApart, Zenon DEF WorkInv
    <3>. QED  BY <2>1, <3>1, <3>2, <3>3, SMTT(30) DEF Apart
  <2>. QED  BY <2>1, <2>2, <2>3, Zenon DEF Owned
<1>. QED  BY <1>3, <1>5, <1>6, <1>7, Zenon DEF NoDoubleWork
=============================================================================
