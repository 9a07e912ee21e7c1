---------------------------- MODULE ClaimSponsor ----------------------------
(***************************************************************************)
(* The claim sponsor: the RPC endpoint SponsorClaim appends claims to the  *)
(* claim table, and one goroutine takes the first pending claim, hands a   *)
(* transaction to the transaction manager, stores its id, and waits for    *)
(* the transaction.  No statement of the code stores the status "work in   *)
(* progress", and a round waits for the id that the row had when it was    *)
(* read, so the first round of every claim asks for the empty id.          *)
(***************************************************************************)
EXTENDS Integers, Sequences, FiniteSets

CONSTANTS
    GlobalIndexes,               \* global indexes users ask for
    Invalid,                     \* those whose proof the bridge contract refuses
    MaxClaims,                   \* bound: rows of the table
    MaxSponsorFaults,            \* bound: failed calls and restarts together
    MaxRetryAttemptsAfterError   \* -1: no limit

ASSUME SponsorAssumption ==
    /\ Invalid \subseteq GlobalIndexes
    /\ MaxClaims \in Nat /\ MaxSponsorFaults \in Nat
    /\ MaxRetryAttemptsAfterError \in Int

VARIABLES
    claim,          \* the table, in the order of rowid
    sponsor,        \* ClaimSponsor.claim
    attempts,       \* consecutive errors of the main loop
    monitored,      \* transactions of the manager: their position is their id
    claimed,        \* global indexes the bridge contract of L2 has paid out
    refuses,        \* the manager refuses a transaction it already monitors
    sponsorFaults

sponsorVars == <<claim, sponsor, attempts, monitored, claimed, refuses, sponsorFaults>>

NoTx      == 0
NoRound   == [pc |-> "idle", gi |-> NoTx, leaf |-> "asset", txID |-> NoTx, new |-> NoTx]
Concluded == {"success", "failed"}

SponsorInit ==
    /\ claim = << >> /\ sponsor = NoRound /\ attempts = 0
    /\ monitored = << >> /\ claimed = {}
    /\ refuses \in BOOLEAN
    /\ sponsorFaults = 0

-----------------------------------------------------------------------------
(* The endpoints                                                           *)

\* AddClaimToQueue inserts the claim as it is: neither its leaf type nor the
\* gas it takes is looked at, and a global index may be queued again.
SponsorClaim ==
    /\ Len(claim) < MaxClaims
    /\ \E gi \in GlobalIndexes, leaf \in {"asset", "message", "other"} :
          claim' = Append(claim, [gi |-> gi, leaf |-> leaf, status |-> "pending", txID |-> NoTx])
    /\ UNCHANGED <<sponsor, attempts, monitored, claimed, refuses, sponsorFaults>>

Rows(gi) == {i \in 1 .. Len(claim) : claim[i].gi = gi}

\* GetClaim and GetSponsoredClaimStatus: the first row of the global index.
GetSponsoredClaimStatus(gi) ==
    claim[CHOOSE i \in Rows(gi) : \A j \in Rows(gi) : i <= j].status

-----------------------------------------------------------------------------
(* The main loop                                                           *)

\* Start after an error of claim: RetryHandler.Handle ends the process or
\* waits before the next round.
Handle ==
    IF MaxRetryAttemptsAfterError > -1 /\ attempts + 1 >= MaxRetryAttemptsAfterError
    THEN sponsor' = [NoRound EXCEPT !.pc = "dead"] /\ UNCHANGED attempts
    ELSE /\ sponsor' = NoRound
         /\ attempts' = IF MaxRetryAttemptsAfterError > -1 THEN attempts + 1 ELSE attempts

SponsorFault == sponsorFaults < MaxSponsorFaults /\ sponsorFaults' = sponsorFaults + 1

Pending == {i \in 1 .. Len(claim) : claim[i].status = "pending"}

getFirstPendingClaim == claim[CHOOSE i \in Pending : \A j \in Pending : i <= j]

\* The first half of claim: getWIPClaim never finds a row, so the next pending
\* claim is read into memory.
PickClaim ==
    /\ sponsor.pc = "idle" /\ Pending # {}
    /\ sponsor' = [pc |-> "send", gi |-> getFirstPendingClaim.gi,
                   leaf |-> getFirstPendingClaim.leaf,
                   txID |-> getFirstPendingClaim.txID, new |-> NoTx]
    /\ UNCHANGED <<claim, attempts, monitored, claimed, refuses, sponsorFaults>>

buildClaimTxData == sponsor.leaf \in {"asset", "message"}

\* The transaction manager's Add: a repeated call has the same data.
AddTx == ~(refuses /\ \E i \in 1 .. Len(monitored) : monitored[i].gi = sponsor.gi)

sendClaim ==
    /\ sponsor.pc = "send"
    /\ \/ /\ buildClaimTxData /\ AddTx
          /\ monitored' = Append(monitored, [gi |-> sponsor.gi, status |-> "created"])
          /\ sponsor' = [sponsor EXCEPT !.pc = "save", !.new = Len(monitored) + 1]
          /\ UNCHANGED <<attempts, sponsorFaults>>
       \/ /\ ~(buildClaimTxData /\ AddTx)
          /\ Handle /\ UNCHANGED <<monitored, sponsorFaults>>
       \/ SponsorFault /\ Handle /\ UNCHANGED monitored
    /\ UNCHANGED <<claim, claimed, refuses>>

\* An UPDATE selects all rows of the global index.
Update(gi, field, value) ==
    [i \in 1 .. Len(claim) |->
        IF claim[i].gi = gi THEN [claim[i] EXCEPT ![field] = value] ELSE claim[i]]

\* Only the row gets the new id: the copy in memory keeps the old one.
updateClaimTxID ==
    /\ sponsor.pc = "save"
    /\ \/ /\ claim' = Update(sponsor.gi, "txID", sponsor.new)
          /\ sponsor' = [sponsor EXCEPT !.pc = "wait"]
          /\ UNCHANGED <<attempts, sponsorFaults>>
       \/ SponsorFault /\ Handle /\ UNCHANGED claim
    /\ UNCHANGED <<monitored, claimed, refuses>>

\* Mutant of claimStatus: a transaction that has been sent counts as a success.
claimStatusSent(id) ==
    CASE monitored[id].status = "created" -> "work in progress"
      [] monitored[id].status = "failed"  -> "failed"
      [] OTHER                            -> "success"

\* Mutant of claimStatus: a failed transaction is waited for.
claimStatusWaits(id) ==
    IF monitored[id].status = "mined" THEN "success" ELSE "work in progress"

claimStatus(id) ==
    CASE monitored[id].status \in {"created", "sent"} -> "work in progress"
      [] monitored[id].status = "failed"              -> "failed"
      [] monitored[id].status = "mined"               -> "success"

\* A tick of waitTxToBeSuccessOrFail, followed by updateClaimStatus when the
\* transaction is decided.  The manager knows no transaction with an empty id.
waitTxToBeSuccessOrFail ==
    /\ sponsor.pc = "wait"
    /\ \/ /\ sponsor.txID # NoTx /\ claimStatus(sponsor.txID) \in Concluded
          /\ sponsor' = [sponsor EXCEPT !.pc = "conclude"]
          /\ UNCHANGED <<attempts, sponsorFaults>>
       \/ sponsor.txID = NoTx /\ Handle /\ UNCHANGED sponsorFaults
       \/ SponsorFault /\ Handle
    /\ UNCHANGED <<claim, monitored, claimed, refuses>>

updateClaimStatus ==
    /\ sponsor.pc = "conclude"
    /\ \/ /\ claim' = Update(sponsor.gi, "status", claimStatus(sponsor.txID))
          /\ sponsor' = NoRound /\ attempts' = 0
          /\ UNCHANGED sponsorFaults
       \/ SponsorFault /\ Handle /\ UNCHANGED claim
    /\ UNCHANGED <<monitored, claimed, refuses>>

\* The process is killed and started again; the table and the manager's
\* storage survive.
SponsorRestart ==
    /\ sponsor.pc # "idle" /\ SponsorFault
    /\ sponsor' = NoRound /\ attempts' = 0
    /\ UNCHANGED <<claim, monitored, claimed, refuses>>

-----------------------------------------------------------------------------
(* The transaction manager and the bridge contract of L2                   *)

SendTx(i) ==
    /\ monitored[i].status = "created"
    /\ monitored' = [monitored EXCEPT ![i].status = "sent"]
    /\ UNCHANGED <<claim, sponsor, attempts, claimed, refuses, sponsorFaults>>

\* The contract pays a valid claim once.
MineTx(i) ==
    /\ monitored[i].status = "sent"
    /\ LET ok == monitored[i].gi \notin claimed \cup Invalid IN
       /\ monitored' = [monitored EXCEPT ![i].status = IF ok THEN "mined" ELSE "failed"]
       /\ claimed' = IF ok THEN claimed \cup {monitored[i].gi} ELSE claimed
    /\ UNCHANGED <<claim, sponsor, attempts, refuses, sponsorFaults>>

SponsorStep ==
    PickClaim \/ sendClaim \/ updateClaimTxID \/ waitTxToBeSuccessOrFail \/ updateClaimStatus

ManagerStep == \E i \in 1 .. Len(monitored) : SendTx(i) \/ MineTx(i)

SponsorNext == SponsorClaim \/ SponsorStep \/ SponsorRestart \/ ManagerStep

SponsorSpec == SponsorInit /\ [][SponsorNext]_sponsorVars

-----------------------------------------------------------------------------
(* Properties                                                              *)

\* A later transaction of the claim was executed before an earlier one.
Overtaken(gi) ==
    \E i, j \in 1 .. Len(monitored) :
        /\ i < j /\ monitored[i].gi = gi /\ monitored[j].gi = gi
        /\ monitored[i].status = "failed" /\ monitored[j].status = "mined"

\* What GetSponsoredClaimStatus answers is true: success is reported only for
\* a claim that the bridge contract has paid.  Failure is reported for a claim
\* that was paid in three cases only: a call failed (the row then holds the id
\* of a transaction that finds the claim already paid), the claim was requested
\* twice, or its second transaction overtook the first.
StatusIsTrue ==
    \A gi \in GlobalIndexes : Rows(gi) # {} =>
        /\ GetSponsoredClaimStatus(gi) = "success" => gi \in claimed
        /\ GetSponsoredClaimStatus(gi) = "failed" /\ gi \in claimed
              => sponsorFaults > 0 \/ Cardinality(Rows(gi)) > 1 \/ Overtaken(gi)

\* Every queued claim is concluded, failures and restarts included, when the
\* manager accepts repeated transactions and no claim of the queue has an
\* unknown leaf type: a claim that can not be built blocks the queue.
QueuedIsConcluded ==
    (claim # << >> /\ ~refuses) ~>
        \/ \A i \in 1 .. Len(claim) : claim[i].status \in Concluded
        \/ \E j \in 1 .. Len(claim) : claim[j].leaf = "other"
=============================================================================
