----------------------------- MODULE AggSender -----------------------------
(***************************************************************************)
(* aggsender/: on every epoch event the AggSender asks the AggLayer about  *)
(* the certificates it has not seen settled or failed, and when there are  *)
(* none it certifies the bridge exits and the claims of the L2 blocks that *)
(* the last certificate did not cover.                                     *)
(*                                                                         *)
(* One thread runs the loop.  Around it move the L2 bridge syncer, which   *)
(* stores blocks and rolls them back, and the AggLayer, which settles      *)
(* certificates or fails them.  A step is one call to either or one        *)
(* transaction of the certificate_info table.  An exit root is the set of  *)
(* the exits under it, which their blocks order; a certificate hash is the *)
(* content of the certificate.                                             *)
(***************************************************************************)
EXTENDS Integers, Sequences, FiniteSets

CONSTANTS
    MaxL2Block,    \* bound: number of L2 blocks
    MaxReorgs,     \* bound: number of rollbacks of the L2 syncer
    MaxErrors,     \* bound: number of certificates the AggLayer fails
    MaxLost,       \* bound: certificates accepted, but not recorded in the table
    NoRoot         \* common.Hash{}: the exit root of no certificate

\* An event is named by its block and the branch of that block.
Event == (1 .. MaxL2Block) \X (0 .. MaxReorgs)

ASSUME AggSenderAssumption ==
    /\ MaxL2Block \in Nat /\ MaxReorgs \in Nat /\ MaxErrors \in Nat /\ MaxLost \in Nat
    /\ \A root \in SUBSET Event : NoRoot # root

VARIABLES
    l2,                \* blocks stored by the L2 bridge syncer
    agglayer,          \* status of every certificate the AggLayer has accepted
    certificate_info,  \* rows of that table
    snd,               \* the goroutine of sendCertificates
    reorgs, errors, lost

vars == <<l2, agglayer, certificate_info, snd, reorgs, errors, lost>>

Status == {"Pending", "Proven", "Candidate", "InError", "Settled"}

\* Mutant of nonSettledStatuses: a candidate counts as settled.
nonSettledStatusesShort == {"Pending", "Proven"}

nonSettledStatuses == {"Pending", "Candidate", "Proven"}

Block == [bridge : BOOLEAN, claim : BOOLEAN, fork : 0 .. MaxReorgs]

Certificate ==
    [height : Nat, prev : SUBSET Event, new : SUBSET Event,
     bridges : SUBSET Event, claims : SUBSET Event]

CertificateInfo ==
    [height : Nat, cert : Certificate, ler : {NoRoot} \cup SUBSET Event,
     from : Nat, to : Nat, status : Status]

zeroLER == {}
NoCert  == [height |-> 0, prev |-> zeroLER, new |-> zeroLER, bridges |-> {}, claims |-> {}]
NoInfo  == [height |-> 0, cert |-> NoCert, ler |-> NoRoot, from |-> 0, to |-> 0,
            status |-> "Pending"]

Idle == [pc |-> "idle", todo |-> {}, pending |-> FALSE, last |-> NoInfo,
         from |-> 0, to |-> 0, bridges |-> {}, count |-> 0, claims |-> {},
         cert |-> NoCert]

SenderState ==
    [pc : {"idle", "check", "send", "bridges", "claims", "root", "submit", "save"},
     todo : SUBSET CertificateInfo, pending : BOOLEAN, last : CertificateInfo,
     from : Nat, to : Nat, bridges : SUBSET Event, count : Nat,
     claims : SUBSET Event, cert : Certificate]

\* Type invariant of the L2 blocks, the AggLayer, the certificates and the sender.
TypeOK ==
    /\ l2 \in Seq(Block) /\ Len(l2) <= MaxL2Block
    /\ DOMAIN agglayer \subseteq Certificate
    /\ \A c \in DOMAIN agglayer : agglayer[c] \in Status
    /\ certificate_info \subseteq CertificateInfo
    /\ snd \in SenderState
    /\ reorgs \in 0 .. MaxReorgs /\ errors \in 0 .. MaxErrors /\ lost \in 0 .. MaxLost

Init ==
    /\ l2 = << >>
    /\ agglayer = << >>
    /\ certificate_info = {}
    /\ snd = Idle
    /\ reorgs = 0 /\ errors = 0 /\ lost = 0

-----------------------------------------------------------------------------
(* The L2 bridge syncer, as the AggSender reads it                         *)

GetLastProcessedBlock == Len(l2)

GetBridgesPublished(from, to) == {<<n, l2[n].fork>> : n \in {m \in from .. to : l2[m].bridge}}

GetClaims(from, to) == {<<n, l2[n].fork>> : n \in {m \in from .. to : l2[m].claim}}

AllExits == GetBridgesPublished(1, Len(l2))

UpTo(exits, e) == {d \in exits : d[1] <= e[1]}

\* The root of the exit tree when it had that many leaves.
GetExitRootByIndex(count) == {e \in AllExits : Cardinality(UpTo(AllExits, e)) <= count}

ProcessL2Block ==
    /\ Len(l2) < MaxL2Block
    /\ \E b, c \in BOOLEAN : l2' = Append(l2, [bridge |-> b, claim |-> c, fork |-> reorgs])
    /\ UNCHANGED <<agglayer, certificate_info, snd, reorgs, errors, lost>>

ReorgL2(n) ==
    /\ reorgs < MaxReorgs
    /\ n \in 1 .. Len(l2)
    /\ l2' = SubSeq(l2, 1, n - 1)
    /\ reorgs' = reorgs + 1
    /\ UNCHANGED <<agglayer, certificate_info, snd, errors, lost>>

-----------------------------------------------------------------------------
(* The AggLayer.  A certificate it has accepted goes through Pending,      *)
(* Proven and Candidate to Settled, and may fail before.                   *)

InFlight == {c \in DOMAIN agglayer : agglayer[c] \notin {"InError", "Settled"}}

NextStatus(s) == CASE s = "Pending" -> "Proven" [] s = "Proven" -> "Candidate"
                   [] s = "Candidate" -> "Settled"

Advance(c) ==
    /\ c \in InFlight
    /\ agglayer' = [agglayer EXCEPT ![c] = NextStatus(@)]
    /\ UNCHANGED <<l2, certificate_info, snd, reorgs, errors, lost>>

FailCertificate(c) ==
    /\ c \in InFlight
    /\ errors < MaxErrors
    /\ agglayer' = [agglayer EXCEPT ![c] = "InError"]
    /\ errors' = errors + 1
    /\ UNCHANGED <<l2, certificate_info, snd, reorgs, lost>>

\* A certificate replaces a failed one of its height and no other.
Accepts(c) == \A d \in DOMAIN agglayer : d.height = c.height => agglayer[d] = "InError"

-----------------------------------------------------------------------------
(* sendCertificates                                                        *)

world == <<l2, reorgs, errors>>

GetCertificatesByStatus(statuses) == {r \in certificate_info : r.status \in statuses}

ReceiveEpoch ==
    /\ snd.pc = "idle"
    /\ LET rows == GetCertificatesByStatus(nonSettledStatuses) IN
       snd' = [Idle EXCEPT !.pc = IF rows = {} THEN "send" ELSE "check", !.todo = rows]
    /\ UNCHANGED <<world, agglayer, certificate_info, lost>>

UpdateCertificateStatus(cert, status) ==
    {IF q.cert = cert THEN [q EXCEPT !.status = status] ELSE q : q \in certificate_info}

\* One iteration of checkPendingCertificatesStatus, in the order of the heights.
CheckCertificate ==
    /\ snd.pc = "check"
    /\ \E r \in snd.todo :
          /\ \A q \in snd.todo : r.height <= q.height
          /\ LET status == agglayer[r.cert]
                 busy   == snd.pending \/ status \in nonSettledStatuses IN
             /\ certificate_info' = UpdateCertificateStatus(r.cert, status)
             /\ snd' = IF snd.todo # {r}
                       THEN [snd EXCEPT !.todo = @ \ {r}, !.pending = busy]
                       ELSE IF busy THEN Idle ELSE [Idle EXCEPT !.pc = "send"]
    /\ UNCHANGED <<world, agglayer, lost>>

GetLastSentCertificate ==
    IF certificate_info = {} THEN NoInfo
    ELSE CHOOSE r \in certificate_info : \A q \in certificate_info : q.height <= r.height

\* Mutant of previousToBlock: a failed certificate counts as covered.
previousToBlockSkips(last) == last.to

\* Mutant of previousToBlock: the last covered block is taken again.
previousToBlockOverlaps(last) ==
    IF last.status = "InError" THEN last.from - 1
    ELSE IF last.to = 0 THEN 0 ELSE last.to - 1

previousToBlock(last) ==
    IF last.status = "InError" THEN last.from - 1 ELSE last.to

\* Mutant of ChooseRange: a single new block is not certified.
ChooseRangeLate ==
    /\ snd.pc = "send"
    /\ LET last == GetLastSentCertificate
           prev == previousToBlock(last)
           to   == GetLastProcessedBlock IN
       snd' = IF \/ GetCertificatesByStatus(nonSettledStatuses) # {}
                 \/ prev + 1 >= to
              THEN Idle
              ELSE [Idle EXCEPT !.pc = "bridges", !.last = last, !.from = prev + 1, !.to = to]
    /\ UNCHANGED <<world, agglayer, certificate_info, lost>>

\* shouldSendCertificate, the two reads that follow it and the range they give.
ChooseRange ==
    /\ snd.pc = "send"
    /\ LET last == GetLastSentCertificate
           prev == previousToBlock(last)
           to   == GetLastProcessedBlock IN
       snd' = IF \/ GetCertificatesByStatus(nonSettledStatuses) # {}
                 \/ prev >= to
              THEN Idle
              ELSE [Idle EXCEPT !.pc = "bridges", !.last = last, !.from = prev + 1, !.to = to]
    /\ UNCHANGED <<world, agglayer, certificate_info, lost>>

\* depositCount is the index of the last bridge in the range.
GetBridges ==
    /\ snd.pc = "bridges"
    /\ LET bridges == GetBridgesPublished(snd.from, snd.to) IN
       snd' = IF GetLastProcessedBlock < snd.to \/ bridges = {} THEN Idle
              ELSE [snd EXCEPT !.pc = "claims", !.bridges = bridges,
                               !.count = Cardinality(GetBridgesPublished(1, snd.to))]
    /\ UNCHANGED <<world, agglayer, certificate_info, lost>>

ReadClaims ==
    /\ snd.pc = "claims"
    /\ snd' = IF GetLastProcessedBlock < snd.to THEN Idle
              ELSE [snd EXCEPT !.pc = "root", !.claims = GetClaims(snd.from, snd.to)]
    /\ UNCHANGED <<world, agglayer, certificate_info, lost>>

\* The previous root is the one of the last certificate, failed or not.
getNextHeightAndPreviousLER(last) ==
    IF last.ler = NoRoot THEN [height |-> 0, prev |-> zeroLER]
    ELSE [height |-> IF last.status = "InError" THEN last.height ELSE last.height + 1,
          prev   |-> last.ler]

\* GetExitRootByIndex fails when the tree no longer has that index.
BuildCertificate ==
    /\ snd.pc = "root"
    /\ LET next == getNextHeightAndPreviousLER(snd.last) IN
       snd' = IF Cardinality(AllExits) < snd.count THEN Idle
              ELSE [snd EXCEPT !.pc = "submit",
                               !.cert = [height |-> next.height, prev |-> next.prev,
                                         new |-> GetExitRootByIndex(snd.count),
                                         bridges |-> snd.bridges, claims |-> snd.claims]]
    /\ UNCHANGED <<world, agglayer, certificate_info, lost>>

SendCertificate ==
    /\ snd.pc = "submit"
    /\ Accepts(snd.cert)
    /\ agglayer' = [c \in DOMAIN agglayer \cup {snd.cert} |->
                       IF c = snd.cert THEN "Pending" ELSE agglayer[c]]
    /\ snd' = [snd EXCEPT !.pc = "save"]
    /\ UNCHANGED <<world, certificate_info, lost>>

\* Mutant of SaveLastSentCertificate: the failed certificate of the height stays.
SaveLastSentCertificateKeeps ==
    /\ snd.pc = "save"
    /\ certificate_info' = certificate_info \cup
           {[height |-> snd.cert.height, cert |-> snd.cert, ler |-> snd.cert.new,
             from |-> snd.from, to |-> snd.to, status |-> "Pending"]}
    /\ snd' = Idle
    /\ UNCHANGED <<world, agglayer, lost>>

\* A row of the same height is replaced.
SaveLastSentCertificate ==
    /\ snd.pc = "save"
    /\ certificate_info' = {r \in certificate_info : r.height # snd.cert.height} \cup
           {[height |-> snd.cert.height, cert |-> snd.cert, ler |-> snd.cert.new,
             from |-> snd.from, to |-> snd.to, status |-> "Pending"]}
    /\ snd' = Idle
    /\ UNCHANGED <<world, agglayer, lost>>

\* A call fails, or the process stops and is started again: all of the state
\* is in the table and the iteration is abandoned.
GiveUp ==
    /\ snd.pc \notin {"idle", "save"}
    /\ snd' = Idle
    /\ UNCHANGED <<world, agglayer, certificate_info, lost>>

\* The same after the AggLayer has accepted the certificate: its answer is
\* lost, the process stops, or SaveLastSentCertificate fails.
LoseCertificate ==
    /\ snd.pc = "save" /\ lost < MaxLost
    /\ lost' = lost + 1
    /\ snd' = Idle
    /\ UNCHANGED <<world, agglayer, certificate_info>>

AggLayer == \E c \in DOMAIN agglayer : Advance(c) \/ FailCertificate(c)
Syncer   == ProcessL2Block \/ \E n \in 1 .. MaxL2Block : ReorgL2(n)
Sender   == \/ ReceiveEpoch \/ CheckCertificate \/ ChooseRange \/ GetBridges \/ ReadClaims
            \/ BuildCertificate \/ SendCertificate \/ SaveLastSentCertificate
            \/ GiveUp \/ LoseCertificate

Next == Syncer \/ AggLayer \/ Sender

Spec == Init /\ [][Next]_vars

\* Epochs keep coming, calls that are repeated succeed in the end, and the
\* AggLayer answers every certificate.
Fairness ==
    /\ WF_vars(ReceiveEpoch) /\ SF_vars(CheckCertificate) /\ SF_vars(ChooseRange)
    /\ SF_vars(GetBridges) /\ SF_vars(ReadClaims) /\ SF_vars(BuildCertificate)
    /\ SF_vars(SendCertificate) /\ WF_vars(SaveLastSentCertificate)
    /\ WF_vars(AggLayer)

FairSpec == Spec /\ Fairness

-----------------------------------------------------------------------------
(* Properties                                                              *)

SettledBelow(h) == {c \in DOMAIN agglayer : agglayer[c] = "Settled" /\ c.height < h}

ExitsIn(certs) == UNION {c.bridges : c \in certs}

SettledExits == ExitsIn({c \in DOMAIN agglayer : agglayer[c] = "Settled"})

\* "if we have pending certificates, then we wait until they are settled": the
\* AggSender prepares no certificate while the AggLayer still works on another.
\* It holds as long as every accepted certificate is recorded.
WaitsForPending ==
    snd.pc \in {"bridges", "claims", "root", "submit"} => InFlight = {}

\* The rows of certificate_info have one height each, without gaps, and their
\* ranges tile the L2 blocks: no block is skipped between two certificates and
\* none is in two, whatever failed, was rolled back or was not recorded.
RangesTile ==
    /\ \A r, q \in certificate_info : r.height = q.height => r = q
    /\ \A r \in certificate_info :
          /\ r.from <= r.to
          /\ IF r.height = 0 THEN r.from = 1
             ELSE \E q \in certificate_info : q.height = r.height - 1 /\ r.from = q.to + 1

\* The new local exit root of a certificate is the root the AggLayer reaches
\* when it appends the exits of that certificate to those already settled, and
\* the certificate carries all the claims of its blocks.
ContentMatches ==
    /\ \A c \in DOMAIN agglayer :
          LET before == ExitsIn(SettledBelow(c.height)) IN
          c.bridges \cap before = {} /\ c.new = before \cup c.bridges
    /\ \A r \in certificate_info : r.cert.claims = GetClaims(r.from, r.to)

\* Certificates implement the ledger of exits: they settle the exits of the L2
\* in order, each one once, however often certificates fail and are rebuilt.
Ledger == INSTANCE ExitLedger WITH Exit <- Event, published <- AllExits, settled <- SettledExits

\* sendCertificates and the AggLayer refine the abstract ledger.
LedgerSpec == Ledger!Spec

\* When the L2 stops and the AggLayer fails only so many certificates, every
\* exit ends in a settled certificate.
AllExitsSettled == <>[](SettledExits = AllExits)

-----------------------------------------------------------------------------
(* What comments of the code say, and the code does not do                 *)

\* "previous certificate was in error, so we need to resend it": what is sent
\* at the height of a failed certificate starts from the root the failed one
\* started from.
ResendContinues ==
    \A c, d \in DOMAIN agglayer : c.height = d.height => c.prev = d.prev

\* "height 0 is never sent to the aggLayer".
HeightZeroNeverSent == \A c \in DOMAIN agglayer : c.height # 0
=============================================================================
