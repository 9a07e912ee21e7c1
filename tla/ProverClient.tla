---------------------------- MODULE ProverClient ----------------------------
(***************************************************************************)
(* The gRPC client of a prover, as the goroutine Aggregator.Channel uses   *)
(* it: a call sends one message and receives one, there is no other tie    *)
(* between request and response, and waitProof polls until the proof is    *)
(* there.  The prover itself is external: it computes one proof at a time  *)
(* and may answer a call with any message.                                 *)
(***************************************************************************)
EXTENDS Naturals, Sequences, FiniteSets

CONSTANTS
    ProofKinds,     \* "batch", "aggregated", "final"
    MaxJobs,        \* bound: proofs the prover is asked for
    MaxBadAnswers   \* bound: answers of a misbehaving prover

ASSUME ProverAssumption == MaxJobs \in Nat /\ MaxBadAnswers \in Nat

VARIABLES
    prover,    \* the external prover: its jobs (the id is the position), and the running one
    wire,      \* the message on the stream, either way; "broken" for ever after an error
    chan,      \* the goroutine: what it wants and which call it is in
    ctx,       \* the stream's context, and the calls made after it was done
    badAnswers

proverVars == <<prover, wire, chan, ctx, badAnswers>>

NoMsg    == [type |-> "none", id |-> 0, result |-> "none", kind |-> "none"]
NoWork   == [pc |-> "loop", kind |-> "none", id |-> 0, got |-> 0]

ProverInit ==
    /\ prover = [jobs |-> << >>, running |-> 0]
    /\ wire = NoMsg
    /\ chan = NoWork
    /\ ctx = [done |-> FALSE, calls |-> 0]
    /\ badAnswers = 0

Message(type, id, result, kind) == [type |-> type, id |-> id, result |-> result, kind |-> kind]

Down == wire.type = "broken"

-----------------------------------------------------------------------------
(* The goroutine                                                           *)

\* stream.Send, the first half of call; the second half is Recv.
Send(next, msg) ==
    /\ \/ ~Down /\ wire' = msg /\ chan' = next
       \/ Down /\ chan' = NoWork /\ UNCHANGED wire
    /\ ctx' = IF ctx.done /\ ~Down THEN [ctx EXCEPT !.calls = @ + 1] ELSE ctx
    /\ UNCHANGED <<prover, badAnswers>>

\* stream.Recv returns the answer, or the error of a broken stream.
Recv(pc, type) ==
    /\ chan.pc = pc
    /\ \/ wire.type = type /\ wire' = NoMsg
       \/ Down /\ UNCHANGED wire
    /\ UNCHANGED <<prover, ctx, badAnswers>>

\* IsIdle: Status has one kind of good answer.
Status ==
    /\ chan.pc = "loop" /\ ~ctx.done
    /\ Send([chan EXCEPT !.pc = "status"], Message("?status", 0, "none", "none"))

IsIdle ==
    \/ /\ Recv("status", "status")
       /\ chan' = IF ~Down /\ wire.result = "idle" THEN [chan EXCEPT !.pc = "work"] ELSE NoWork
    \/ chan.pc = "status" /\ wire.type \in {"gen", "proof"} /\ Recv("status", wire.type) /\ chan' = NoWork

\* BatchProof, AggregatedProof and FinalProof send the same way: the prover
\* answers with the id of the proof, or with a result that is not OK.
Request(kind) ==
    /\ chan.pc = "work" /\ Len(prover.jobs) < MaxJobs
    /\ Send([chan EXCEPT !.pc = "gen", !.kind = kind], Message("?gen", 0, "none", kind))

\* No proof to ask for.
NothingToDo ==
    /\ chan.pc = "work" /\ chan' = NoWork
    /\ UNCHANGED <<prover, wire, ctx, badAnswers>>

ProofID ==
    \/ /\ Recv("gen", "gen")
       /\ chan' = IF ~Down /\ wire.kind = chan.kind /\ wire.result = "OK"
                  THEN [chan EXCEPT !.pc = "wait", !.id = wire.id] ELSE NoWork
    \/ chan.pc = "gen" /\ wire.type \in {"status", "proof"} /\ Recv("gen", wire.type) /\ chan' = NoWork

\* waitProof: the context is looked at before each call, not during it.
PollProof ==
    /\ chan.pc = "wait"
    /\ \/ ~ctx.done /\ Send([chan EXCEPT !.pc = "poll"], Message("?proof", chan.id, "none", "none"))
       \/ ctx.done /\ chan' = NoWork /\ UNCHANGED <<prover, wire, ctx, badAnswers>>

\* The type switch of WaitRecursiveProof and WaitFinalProof: the proofs of
\* batches and aggregated ones have the same type.
Wanted(msg) == (msg.kind = "final") = (chan.kind = "final")

\* Mutant of waitProof: any answer but a pending one is a proof.
waitProofUnchecked ==
    /\ Recv("poll", "proof")
    /\ chan' = IF Down THEN NoWork
               ELSE IF wire.result = "PENDING" THEN [chan EXCEPT !.pc = "wait"]
               ELSE IF Wanted(wire) THEN [chan EXCEPT !.pc = "proved", !.got = wire.id] ELSE NoWork

waitProof ==
    \/ /\ Recv("poll", "proof")
       /\ chan' = IF Down THEN NoWork
                  ELSE IF wire.result = "PENDING" THEN [chan EXCEPT !.pc = "wait"]
                  ELSE IF wire.result = "COMPLETED_OK" /\ Wanted(wire)
                       THEN [chan EXCEPT !.pc = "proved", !.got = wire.id] ELSE NoWork
    \/ chan.pc = "poll" /\ wire.type \in {"status", "gen"} /\ Recv("poll", wire.type) /\ chan' = NoWork

\* The proof is used; another request may follow in the same round.
UseProof ==
    /\ chan.pc = "proved"
    /\ \E pc \in {"loop", "work"} : chan' = [NoWork EXCEPT !.pc = pc]
    /\ UNCHANGED <<prover, wire, ctx, badAnswers>>

-----------------------------------------------------------------------------
(* The prover and the stream                                               *)

Running == prover.running # 0

ProverAnswers ==
    /\ \/ /\ wire.type = "?status"
          /\ wire' = Message("status", 0, IF Running THEN "computing" ELSE "idle", "none")
          /\ UNCHANGED prover
       \/ /\ wire.type = "?gen"
          /\ IF Running THEN wire' = Message("gen", 0, "ERROR", wire.kind) /\ UNCHANGED prover
             ELSE LET id == Len(prover.jobs) + 1 IN
                  /\ prover' = [jobs |-> Append(prover.jobs, [kind |-> wire.kind, state |-> "PENDING"]),
                                running |-> id]
                  /\ wire' = Message("gen", id, "OK", wire.kind)
       \/ /\ wire.type = "?proof" /\ UNCHANGED prover
          /\ wire' = Message("proof", wire.id, prover.jobs[wire.id].state, prover.jobs[wire.id].kind)
    /\ UNCHANGED <<chan, ctx, badAnswers>>

\* A message of the wrong type, a result that is not OK or a proof of the wrong
\* type; a prover that passes something else off as the proof is not modelled.
MisAnswers ==
    /\ wire.type \in {"?status", "?gen", "?proof"} /\ badAnswers < MaxBadAnswers
    /\ badAnswers' = badAnswers + 1
    /\ \E t \in {"status", "gen", "proof"}, k \in ProofKinds, r \in {"ERROR", "COMPLETED_OK"} :
          /\ ~(wire.type = "?proof" /\ t = "proof" /\ r = "COMPLETED_OK" /\ Wanted([kind |-> k]))
          /\ wire' = Message(t, 0, r, k)
    /\ UNCHANGED <<prover, chan, ctx>>

JobEnds ==
    /\ Running
    /\ \E r \in {"COMPLETED_OK", "COMPLETED_ERROR"} :
          prover' = [jobs |-> [prover.jobs EXCEPT ![prover.running].state = r], running |-> 0]
    /\ UNCHANGED <<wire, chan, ctx, badAnswers>>

StreamBreaks ==
    /\ ~Down /\ wire' = [NoMsg EXCEPT !.type = "broken"]
    /\ ctx' = [ctx EXCEPT !.done = TRUE]
    /\ UNCHANGED <<prover, chan, badAnswers>>

\* The aggregator is stopped.
CtxDone ==
    /\ ~ctx.done /\ ctx' = [ctx EXCEPT !.done = TRUE]
    /\ UNCHANGED <<prover, wire, chan, badAnswers>>

ChanStep ==
    \/ Status \/ IsIdle \/ NothingToDo \/ ProofID \/ PollProof \/ waitProof \/ UseProof
    \/ \E k \in ProofKinds : Request(k)

ProverNext == ChanStep \/ ProverAnswers \/ MisAnswers \/ JobEnds \/ StreamBreaks \/ CtxDone

ProverSpec == ProverInit /\ [][ProverNext]_proverVars

-----------------------------------------------------------------------------
(* Properties                                                              *)

\* The proof that WaitRecursiveProof or WaitFinalProof returns is the one that
\* was asked for and is complete, although responses carry no request: also
\* after failed waits, and with a prover that answers with wrong messages.
ProofIsForRequest ==
    chan.pc = "proved" =>
        /\ chan.got = chan.id
        /\ prover.jobs[chan.got].state = "COMPLETED_OK" /\ prover.jobs[chan.got].kind = chan.kind

\* Once the context is done the goroutine makes at most one more call, the
\* request it was about to send: it does not poll for that proof.
StopsAfterDone == ctx.calls <= 1

=============================================================================
