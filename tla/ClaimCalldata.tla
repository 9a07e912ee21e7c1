--------------------------- MODULE ClaimCalldata ---------------------------
(***************************************************************************)
(* bridgesync/downloader.go: with full claims enabled, the appender of a   *)
(* claim event asks for the call trace of its transaction and searches it  *)
(* for the call of the bridge that made the claim.  The calls of a         *)
(* transaction are 1 .. NCalls, call 1 is the transaction itself and the   *)
(* calls made by n follow it in their order.  The data of a claim call     *)
(* (proofs, exit roots, metadata) is the number of the call.               *)
(***************************************************************************)
EXTENDS Integers, Sequences, FiniteSets

CONSTANTS
    NCalls,         \* bound: calls of a transaction
    GlobalIndices   \* global indexes of the claims

ASSUME CalldataAssumption == NCalls \in Nat \ {0}

VARIABLES
    trace,    \* debug_traceTransaction: the caller of each call, and the calls
    claimEv,  \* the claim event
    search    \* setClaimCalldata: the stack of calls, and the outcome

calldataVars == <<trace, claimEv, search>>

Calls == 1 .. NCalls

\* What a call is about.  Only calls with to = "bridge" are looked at.
CallTypes ==
    [to : {"bridge"}, method : {"claimAsset"}, gi : GlobalIndices, err : BOOLEAN]
    \cup [to : {"bridge"}, method : {"claimMessage"}, gi : GlobalIndices, err : {FALSE}]
    \cup [to : {"bridge"}, method : {"other", "unknown"}, gi : {0}, err : {FALSE}]
    \cup [to : {"elsewhere"}, method : {"other"}, gi : {0}, err : {FALSE}]

IsClaim(c) == c.method \in {"claimAsset", "claimMessage"}

\* The calls whose claim the contract has carried out.  A call that reverts
\* takes the calls below it along; claim calls make no further claims here.
Claims(t) == {n \in Calls : IsClaim(t.call[n]) /\ ~t.call[n].err}

\* The contract accepts a global index once, so at most one call made the claim.
CalldataInit ==
    /\ \E callers \in {f \in [Calls -> 0 .. NCalls - 1] :
                          f[1] = 0 /\ \A n \in Calls \ {1} : f[n] \in 1 .. n - 1},
          calls \in [Calls -> CallTypes] :
          /\ calls[1].to = "elsewhere"
          /\ trace = [caller |-> callers, call |-> calls]
    /\ \A m, n \in Claims(trace) : m # n => trace.call[m].gi # trace.call[n].gi
    /\ \E n \in Claims(trace) :
          claimEv = [gi |-> trace.call[n].gi, data |-> 0, isMessage |-> FALSE, by |-> n]
    /\ search = [stack |-> <<1>>, res |-> "run"]

CalledBy(n) == SelectSeq([i \in Calls |-> i], LAMBDA m : trace.caller[m] = n)

\* Mutant of decodeClaimCallDataAndSetIfFound: the global index is not compared.
decodeAnyClaim(n) == TRUE

decodeClaimCallDataAndSetIfFound(n) == trace.call[n].gi = claimEv.gi

\* setClaimIfFoundOnInput: a method that is not in the ABI ends the search.
setClaimIfFoundOnInput(n) ==
    IF trace.call[n].method = "unknown" THEN "error"
    ELSE IF IsClaim(trace.call[n]) /\ decodeClaimCallDataAndSetIfFound(n) THEN "found"
    ELSE "no"

PushCalls(n) == CalledBy(n)

\* One round of the depth first search; ErrNotFound when the stack is empty.
setClaimCalldata ==
    /\ search.res = "run"
    /\ IF search.stack = << >> THEN search' = [search EXCEPT !.res = "not found"] /\ UNCHANGED claimEv
       ELSE LET n    == search.stack[Len(search.stack)]
                rest == SubSeq(search.stack, 1, Len(search.stack) - 1)
                hit  == IF trace.call[n].to = "bridge" THEN setClaimIfFoundOnInput(n) ELSE "no"
            IN /\ search' = IF hit = "no" THEN [search EXCEPT !.stack = rest \o PushCalls(n)]
                            ELSE [stack |-> << >>, res |-> hit]
               /\ claimEv' = IF hit = "found"
                             THEN [claimEv EXCEPT !.data = n,
                                                  !.isMessage = trace.call[n].method = "claimMessage"]
                             ELSE claimEv
    /\ UNCHANGED trace

CalldataNext == setClaimCalldata

-----------------------------------------------------------------------------
(* Properties                                                              *)

Reverted(gi) == {n \in Calls : IsClaim(trace.call[n]) /\ trace.call[n].err /\ trace.call[n].gi = gi}

\* The calldata stored with a claim is that of the call that made the claim,
\* with its kind, as long as no reverted call of the same transaction tried the
\* same global index: the search does not look at the error of a call.  That call
\* is found, however deep it is: the downloader repeats a search that fails for
\* ever, and it fails only when a call of the bridge has a method that the ABI
\* does not know.
CalldataIsOfClaim ==
    /\ search.res = "found" /\ Reverted(claimEv.gi) = {} =>
          /\ claimEv.data = claimEv.by
          /\ claimEv.isMessage = (trace.call[claimEv.by].method = "claimMessage")
    /\ search.res \in {"error", "not found"} =>
          \E n \in Calls : trace.call[n].to = "bridge" /\ trace.call[n].method = "unknown"
=============================================================================
