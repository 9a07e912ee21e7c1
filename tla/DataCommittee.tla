--------------------------- MODULE DataCommittee ---------------------------
(***************************************************************************)
(* The data committee backend of a validium: it reads the committee from   *)
(* L1 in separate calls, asks every member for a signature in a goroutine  *)
(* of its own, and joins the answers for the contract.  The same backend   *)
(* retrieves the data of a sequence from the members it has cached.  The   *)
(* committee of L1 may change at any time.                                 *)
(***************************************************************************)
EXTENDS Integers, Sequences, FiniteSets, SequencesExt

CONSTANTS
    Committees,  \* the committees of the contract, one after the other
    Hashes       \* hashes of the batches of a sequence, in order

ASSUME CommitteeAssumption ==
    /\ Hashes \in Seq(Nat)
    /\ \A v \in DOMAIN Committees :  \* setupCommittee wants them in this order
          /\ Committees[v].required \in Nat
          /\ Committees[v].members \in Seq(Nat)
          /\ \A i, j \in DOMAIN Committees[v].members :
                i < j => Committees[v].members[i] < Committees[v].members[j]

VARIABLES
    dac,         \* position of the contract in Committees
    backend,     \* cached members, the selected one (from 0, -1: none)
    call,        \* the call in progress and the committee it has read
    requests,    \* goroutine of each member: "no", "start", "asked", "done"
    ch,          \* signatures on their way, in a channel of capacity chCap
    collect,     \* what collectSignatures has received
    ctxDone,     \* the caller's context, and the one of the requests
    get          \* what GetSequence has done

dacVars == <<dac, backend, call, requests, ch, collect, ctxDone, get>>

Contract == Committees[dac]
NoCall   == [for |-> "none", pc |-> "idle", versions |-> {}, required |-> 0, n |-> 0,
             members |-> << >>]
NoCollect == [msgs |-> << >>, signed |-> 0, failed |-> 0, result |-> << >>]
NoGet     == [left |-> 0, initial |-> 0, data |-> << >>, res |-> "none"]

DACInit ==
    /\ dac = 1
    /\ backend = [members |-> << >>, selected |-> -1]
    /\ call = [NoCall EXCEPT !.for = "init", !.pc = "hash"]
    /\ requests = << >> /\ ch = << >> /\ collect = NoCollect
    /\ ctxDone = [caller |-> FALSE, signature |-> FALSE]
    /\ get = NoGet

setupCommittee ==
    /\ dac < Len(Committees) /\ dac' = dac + 1
    /\ UNCHANGED <<backend, call, requests, ch, collect, ctxDone, get>>

-----------------------------------------------------------------------------
(* getCurrentDataCommittee: one call of the contract per step              *)

Return(c, how) == call' = [c EXCEPT !.pc = how]

\* What the caller does with the committee it has read: Init selects a member
\* at random, PostSequence signs the sequence and starts the requests.
WithCommittee(c) ==
    \/ /\ c.for \in {"init", "get"}
       /\ \E s \in IF c.members = << >> THEN {-1} ELSE 0 .. Len(c.members) - 1 :
             backend' = [members |-> c.members, selected |-> s]
       /\ Return(c, IF c.for = "init" THEN "returned" ELSE "error")
       /\ UNCHANGED requests
    \/ /\ c.for = "post"
       /\ requests' = [i \in 1 .. Len(c.members) |-> "start"]
       /\ Return(c, "collect")
       /\ UNCHANGED backend
    \/ /\ c.for = "post"  \* the sequence can not be signed, or its hash is another
       /\ Return(c, "error") /\ UNCHANGED <<backend, requests>>

getCurrentDataCommittee ==
    /\ call.pc \in {"hash", "required", "amount", "members"}
    /\ LET c == [call EXCEPT !.versions = @ \cup {dac}] IN
       \/ /\ c.pc = "hash"
          /\ Return(c, "required") /\ UNCHANGED <<backend, requests>>
       \/ /\ c.pc = "required"
          /\ Return([c EXCEPT !.required = Contract.required], "amount")
          /\ UNCHANGED <<backend, requests>>
       \/ /\ c.pc = "amount"
          /\ Return([c EXCEPT !.n = Len(Contract.members)], "members")
          /\ UNCHANGED <<backend, requests>>
       \/ /\ c.pc = "members" /\ Len(c.members) < c.n
          /\ IF Len(c.members) < Len(Contract.members)
             THEN Return([c EXCEPT !.members = Append(@, Contract.members[Len(@) + 1])], "members")
             ELSE Return(c, "error")
          /\ UNCHANGED <<backend, requests>>
       \/ c.pc = "members" /\ Len(c.members) = c.n /\ WithCommittee(call)
       \/ /\ c.pc = "members" => Len(c.members) < c.n
          /\ Return(call, "error") /\ UNCHANGED <<backend, requests>>
    /\ UNCHANGED <<dac, ch, collect, ctxDone, get>>

-----------------------------------------------------------------------------
(* PostSequenceElderberry and PostSequenceBanana                           *)

\* One call after the other; a node whose Init fails does not start.
NewCall(for, pc) ==
    /\ call.pc = "returned" \/ (call.pc = "error" /\ call.for # "init")
    /\ \A i \in 1 .. Len(requests) : requests[i] = "done"
    /\ call' = [NoCall EXCEPT !.for = for, !.pc = pc]
    /\ requests' = << >> /\ ch' = << >> /\ collect' = NoCollect
    /\ ctxDone' = [caller |-> FALSE, signature |-> FALSE]
    /\ UNCHANGED <<dac, backend>>

PostSequence == NewCall("post", "hash") /\ get' = NoGet

CancelCaller ==
    /\ call.for = "post" /\ call.pc \notin {"returned", "error"} /\ ~ctxDone.caller
    /\ ctxDone' = [caller |-> TRUE, signature |-> TRUE]
    /\ UNCHANGED <<dac, backend, call, requests, ch, collect, get>>

chCap == Len(call.members)

\* The goroutine returns without a word when its context is already done;
\* otherwise it asks, with the context of the caller.
startRequest(i) ==
    /\ requests[i] = "start"
    /\ requests' = [requests EXCEPT ![i] = IF ctxDone.signature THEN "done" ELSE "asked"]
    /\ UNCHANGED <<dac, backend, call, ch, collect, ctxDone, get>>

\* The member signs, or the request fails or the signature is another's.
requestSignatureFromMember(i) ==
    /\ requests[i] = "asked" /\ Len(ch) < chCap
    /\ \E ok \in BOOLEAN :
          ch' = Append(ch, [addr |-> call.members[i], ok |-> ok])
    /\ requests' = [requests EXCEPT ![i] = "done"]
    /\ UNCHANGED <<dac, backend, call, collect, ctxDone, get>>

\* Mutant of buildSignaturesAndAddrs: signatures in the order of their arrival.
buildUnsorted(msgs, members) ==
    [signatures |-> SelectSeq(msgs, LAMBDA m : m.ok), addrs |-> members]

\* The messages by address; the signature of a failed one is empty.
buildSignaturesAndAddrs(msgs, members) ==
    [signatures |-> SelectSeq(SortSeq(msgs, LAMBDA a, b : a.addr < b.addr), LAMBDA m : m.ok),
     addrs |-> members]

\* Mutant of TooManyFailed: failures are not counted.
NoneFailed(failed) == FALSE

TooManyFailed(failed) == Len(call.members) - failed < call.required

Finish(how) ==
    /\ call' = [call EXCEPT !.pc = how]
    /\ ctxDone' = [ctxDone EXCEPT !.signature = TRUE]

collectSignatures ==
    /\ call.pc = "collect"
    /\ \/ /\ collect.signed >= call.required
          /\ Finish("returned")
          /\ collect' = [collect EXCEPT !.result = <<buildSignaturesAndAddrs(collect.msgs, call.members)>>]
          /\ UNCHANGED ch
       \/ /\ collect.signed < call.required /\ ch # << >>
          /\ ch' = Tail(ch)
          /\ LET m == Head(ch) IN
             /\ collect' = [collect EXCEPT !.msgs = Append(@, m),
                                           !.signed = IF m.ok THEN @ + 1 ELSE @,
                                           !.failed = IF m.ok THEN @ ELSE @ + 1]
             /\ IF ~m.ok /\ TooManyFailed(collect.failed + 1) THEN Finish("error")
                ELSE UNCHANGED <<call, ctxDone>>
    /\ UNCHANGED <<dac, backend, requests, get>>

-----------------------------------------------------------------------------
(* GetSequence                                                             *)

GetSequence ==
    /\ NewCall("get", "ask")
    /\ get' = [NoGet EXCEPT !.left = Len(backend.members), !.initial = backend.selected]

nextMember(s) == (s + 1) % Len(backend.members)

\* The loop over the hashes: a batch whose data has another hash is left out,
\* the next member is selected, and once that is the initial one the remaining
\* hashes are not looked at.
checkHashes[k \in 0 .. Len(Hashes), good \in SUBSET (1 .. Len(Hashes))] ==
    IF k = 0 THEN [sel |-> backend.selected, data |-> << >>, stop |-> FALSE]
    ELSE LET r == checkHashes[k - 1, good] IN
         IF r.stop THEN r
         ELSE IF k \in good THEN [r EXCEPT !.data = Append(@, Hashes[k])]
         ELSE [r EXCEPT !.sel = nextMember(@), !.stop = nextMember(r.sel) = get.initial]

\* ListOffChainData: the call fails, or some batches have the wanted data.
askMember ==
    /\ call.for = "get" /\ call.pc = "ask" /\ get.left > 0
    /\ \/ LET s == nextMember(backend.selected) IN
          /\ backend' = [backend EXCEPT !.selected = s]
          /\ get' = [get EXCEPT !.left = IF s = get.initial THEN 0 ELSE @ - 1]
          /\ UNCHANGED call
       \/ \E good \in SUBSET (1 .. Len(Hashes)) :
             LET r == checkHashes[Len(Hashes), good] IN
             /\ backend' = [backend EXCEPT !.selected = r.sel]
             /\ get' = [get EXCEPT !.data = r.data, !.res = "data"]
             /\ Return(call, "returned")
    /\ UNCHANGED <<dac, requests, ch, collect, ctxDone>>

\* All members failed: the committee is read again for the next call, and this
\* one returns an error.
reloadCommittee ==
    /\ call.for = "get" /\ call.pc = "ask" /\ get.left = 0
    /\ call' = [call EXCEPT !.pc = "hash"]
    /\ get' = [get EXCEPT !.res = "error"]
    /\ UNCHANGED <<dac, backend, requests, ch, collect, ctxDone>>

RequestStep(i) == i <= Len(requests) /\ (startRequest(i) \/ requestSignatureFromMember(i))

DACNext ==
    \/ setupCommittee \/ getCurrentDataCommittee \/ PostSequence \/ CancelCaller
    \/ collectSignatures \/ GetSequence \/ askMember \/ reloadCommittee
    \/ \E i \in 1 .. Len(requests) : RequestStep(i)

-----------------------------------------------------------------------------
(* Properties                                                              *)

\* The contract (external): as many signatures as required, by members, in
\* the order of their addresses, and the addresses of all members.
verifyMessage(committee, r) ==
    LET signers == [i \in 1 .. Len(r.signatures) |-> r.signatures[i].addr] IN
    /\ Len(signers) = committee.required /\ r.addrs = committee.members
    /\ ToSet(signers) \subseteq ToSet(committee.members)
    /\ \A i, j \in 1 .. Len(signers) : i < j => signers[i] < signers[j]

\* What PostSequence returns satisfies the contract it was read from, in
\* whatever order members answer and fail, unless the committee changed
\* between the first and the last call that read it.
SignaturesAccepted ==
    collect.result # << >> /\ Cardinality(call.versions) = 1 =>
        \A v \in call.versions : verifyMessage(Committees[v], collect.result[1])

\* PostSequence returns, whatever members do, unless it required more
\* signatures than it read members (the committee changed in between), or the
\* caller gave up: a request whose context is already done sends no message.  No
\* goroutine of a request is left behind: one that answers after
\* collectSignatures has returned, when nobody reads the channel any more, finds
\* room in it.
PostReturns ==
    (call.pc = "collect" /\ call.required <= Len(call.members))
        ~> \/ call.pc \in {"returned", "error"} /\ \A i \in 1 .. Len(requests) : requests[i] = "done"
           \/ ctxDone.caller

=============================================================================
