----------------------------- MODULE NodeProofs -----------------------------
(***************************************************************************)
(* Proofs about the parts of the node that share no state with each other: *)
(* the notifiers, the clients of the provers, start-up and the builders of *)
(* sequence transactions.                                                  *)
(***************************************************************************)
EXTENDS EpochNotifier, ProverClient, Startup, TxBuilder, TLAPS

-----------------------------------------------------------------------------
(***************************************************************************)
(* EpochNotifier.                                                          *)
(* Epoch events are published in order, once each and at the configured    *)
(* place, for every start, length and percentage of the epochs and for     *)
(* every order in which block events arrive.                               *)
(***************************************************************************)

\* What the division of epochNumber means.
LEMMA DivBounds ==
    ASSUME NEW x \in Nat, NEW n \in Nat \ {0}
    PROVE  /\ x \div n \in Nat
           /\ (x \div n) * n <= x /\ x < (x \div n) * n + n
BY Z3

\* A block from the starting block on lies in the epoch epochNumber gives it.
LEMMA BlockInEpoch ==
    ASSUME NEW b \in Nat, b >= StartingEpochBlock
    PROVE  /\ epochNumber(b) \in Nat \ {0}
           /\ startingBlockEpoch(epochNumber(b)) \in Nat
           /\ startingBlockEpoch(epochNumber(b)) <= b
           /\ endBlockEpoch(epochNumber(b)) = startingBlockEpoch(epochNumber(b)) + NumBlockPerEpoch
           /\ b < endBlockEpoch(epochNumber(b))
<1> DEFINE q == (b - StartingEpochBlock) \div NumBlockPerEpoch
           p == q * NumBlockPerEpoch
<1>1. StartingEpochBlock \in Nat /\ NumBlockPerEpoch \in Nat \ {0}
  BY NotifierAssumption, Zenon
<1>2. b - StartingEpochBlock \in Nat
  BY <1>1
<1>3. q \in Nat /\ p <= b - StartingEpochBlock /\ b - StartingEpochBlock < p + NumBlockPerEpoch
  BY <1>1, <1>2, DivBounds, Zenon
<1>4. epochNumber(b) = 1 + q
  BY <1>1 DEF epochNumber
<1> HIDE DEF q
<1>5. p \in Nat /\ (q + 1) * NumBlockPerEpoch = p + NumBlockPerEpoch
  BY <1>1, <1>3
<1>6. startingBlockEpoch(1 + q) = StartingEpochBlock + p
  BY <1>1, <1>3 DEF startingBlockEpoch
<1>7. endBlockEpoch(1 + q) = StartingEpochBlock + p + NumBlockPerEpoch
  <2>1. (1 + q) + 1 # 0 /\ ((1 + q) + 1) - 1 = q + 1
    BY <1>3
  <2> QED
    BY <1>1, <1>3, <1>5, <2>1 DEF endBlockEpoch, startingBlockEpoch
<1> HIDE DEF p
<1> QED
  BY <1>1, <1>3, <1>4, <1>5, <1>6, <1>7

\* EpochsInOrder, and that the epoch waited for is past all published ones.
OrderInv ==
    /\ pct \in Nat /\ waiting \in Nat
    /\ notified \in Seq(Event)
    /\ \A i \in 1 .. Len(notified) : notified[i].epoch < waiting
    /\ EpochsInOrder

\* Nothing is published at first.
LEMMA InitOrder == Init => OrderInv
<1> SUFFICES ASSUME Init PROVE OrderInv
  BY Zenon
<1>1. notified = << >> /\ notified \in Seq(Event) /\ Len(notified) = 0
  BY DEF Init
<1>2. pct \in Nat
  BY NotifierAssumption DEF Init
<1>3. waiting \in Nat
  BY BlockInEpoch, NotifierAssumption DEF Init
<1> QED
  BY <1>1, <1>2, <1>3 DEF OrderInv, EpochsInOrder

\* A step that publishes keeps the order.
LEMMA PublishOrder ==
    ASSUME OrderInv, NEW b \in Nat, b >= StartingEpochBlock,
           isNotificationRequired(b, waiting), UNCHANGED pct,
           notified' = Append(notified, [epoch |-> epochNumber(b), block |-> b]),
           waiting' = epochNumber(b) + 1
    PROVE  OrderInv'
<1> DEFINE e == epochNumber(b)
           s == startingBlockEpoch(e)
           n == Len(notified)
<1>1. /\ e \in Nat /\ s \in Nat /\ s <= b /\ b < endBlockEpoch(e)
      /\ endBlockEpoch(e) = s + NumBlockPerEpoch /\ NumBlockPerEpoch \in Nat
  BY BlockInEpoch, NotifierAssumption, Zenon
<1>2. /\ waiting <= e
      /\ b = endBlockEpoch(e) - 1 \/ 100 * (b - s) >= pct * NumBlockPerEpoch
  <2>1. e + 1 > waiting /\ waiting \in Nat /\ thresholdReached(b) /\ elapsedBlocks(b) = b - s
    BY Zenon DEF OrderInv, isNotificationRequired, elapsedBlocks
  <2> HIDE DEF e, s
  <2>2. waiting <= e
    BY <1>1, <2>1
  <2>3. CASE 100 * elapsedBlocks(b) >= pct * NumBlockPerEpoch
    BY <2>1, <2>2, <2>3, Zenon
  <2>4. CASE elapsedBlocks(b) >= NumBlockPerEpoch - 1
    BY <1>1, <2>1, <2>2, <2>4
  <2> QED
    BY <2>1, <2>3, <2>4, Zenon DEF thresholdReached
<1> DEFINE ev == [epoch |-> e, block |-> b]
<1>3. ev.epoch = e /\ ev.block = b /\ ev \in Event /\ notified' = Append(notified, ev)
  BY <1>1, Zenon DEF Event
<1> HIDE DEF ev, e, s
<1>4. /\ notified' \in Seq(Event) /\ Len(notified') = n + 1 /\ n \in Nat
      /\ notified'[n + 1].epoch = e /\ notified'[n + 1].block = b
      /\ \A i \in 1 .. n : notified'[i] = notified[i]
      /\ \A i \in 1 .. n : notified[i].epoch \in Nat
  <2>1. notified \in Seq(Event)
    BY Zenon DEF OrderInv
  <2>2. \A i \in 1 .. n : notified[i] \in Event
    BY <2>1
  <2>3. /\ notified' \in Seq(Event) /\ Len(notified') = n + 1 /\ n \in Nat
        /\ notified'[n + 1] = ev
        /\ \A i \in 1 .. n : notified'[i] = notified[i]
    BY <1>3, <2>1
  <2> QED
    BY <1>3, <2>2, <2>3, Zenon DEF Event
<1>5. \A i \in 1 .. n : notified[i].epoch < e
  BY <1>1, <1>2, <1>4 DEF OrderInv
<1>6. waiting' = e + 1
  BY Zenon DEF e
<1>7. \A i \in 1 .. Len(notified') : notified'[i].epoch < waiting'
  BY <1>1, <1>4, <1>5, <1>6, SMTT(30)
<1>8. \A i, j \in 1 .. Len(notified') : i < j => notified'[i].epoch < notified'[j].epoch
  <2> SUFFICES ASSUME NEW i \in 1 .. n + 1, NEW j \in 1 .. n + 1, i < j
               PROVE  notified'[i].epoch < notified'[j].epoch
    BY <1>4, Zenon
  <2>1. i \in 1 .. n
    BY <1>4
  <2>2. CASE j = n + 1
    BY <1>4, <1>5, <2>1, <2>2, Zenon
  <2>3. CASE j \in 1 .. n
    <3>1. \A k, l \in 1 .. n : k < l => notified[k].epoch < notified[l].epoch
      BY Zenon DEF OrderInv, EpochsInOrder
    <3> QED
      BY <1>4, <2>1, <2>3, <3>1, Zenon
  <2>4. j = n + 1 \/ j \in 1 .. n
    <3>1. n \in Nat
      BY <1>4, Zenon
    <3> HIDE DEF n
    <3> QED
      BY <3>1
  <2> QED
    BY <2>2, <2>3, <2>4, Zenon
<1>9. ASSUME NEW i \in 1 .. Len(notified')
      PROVE  LET f == notified'[i].epoch
                 c == notified'[i].block IN
             /\ startingBlockEpoch(f) <= c /\ c < endBlockEpoch(f)
             /\ \/ c = endBlockEpoch(f) - 1
                \/ 100 * (c - startingBlockEpoch(f)) >= pct * NumBlockPerEpoch
  <2>1. CASE i = n + 1
    BY <1>1, <1>2, <1>4, <2>1, Zenon DEF s
  <2>2. CASE i \in 1 .. n
    BY <1>4, <2>2, Zenon DEF OrderInv, EpochsInOrder
  <2> QED
    BY <1>4, <2>1, <2>2
<1>10. EpochsInOrder'
  BY <1>8, <1>9, ZenonT(30) DEF EpochsInOrder, startingBlockEpoch, endBlockEpoch
<1> QED
  BY <1>1, <1>4, <1>6, <1>7, <1>10, SMTT(30) DEF OrderInv

\* Every step keeps the order.
LEMMA StepOrder == ASSUME OrderInv, [Next]_vars PROVE OrderInv'
<1>1. CASE UNCHANGED <<pct, waiting, notified>>
  BY <1>1 DEF OrderInv, EpochsInOrder, startingBlockEpoch, endBlockEpoch
<1>2. CASE UNCHANGED vars \/ MineBlock \/ ReorgL1 \/ Poll
  <2>1. UNCHANGED <<pct, waiting, notified>>
    BY <1>2, Zenon DEF vars, MineBlock, ReorgL1, Poll, epochVars
  <2> QED
    BY <1>1, <2>1, Zenon
<1>3. ASSUME NEW b \in FirstBlock .. LastBlock, Step(b) PROVE OrderInv'
  <2>1. b \in Nat /\ UNCHANGED pct /\ StartingEpochBlock \in Nat
    BY <1>3, NotifierAssumption DEF Step, Take
  <2>2. CASE b < StartingEpochBlock \/ b <= seen \/ ~isNotificationRequired(b, waiting)
    BY <1>1, <1>3, <2>1, <2>2, Zenon DEF Step, epochVars
  <2>3. CASE ~(b < StartingEpochBlock \/ b <= seen) /\ isNotificationRequired(b, waiting)
    <3>1. b >= StartingEpochBlock
      BY <2>1, <2>3
    <3>2. /\ notified' = Append(notified, [epoch |-> epochNumber(b), block |-> b])
          /\ waiting' = epochNumber(b) + 1
      BY <1>3, <2>3, Zenon DEF Step
    <3> QED
      BY <2>1, <2>3, <3>1, <3>2, PublishOrder, Zenon
  <2> QED
    BY <2>2, <2>3, Zenon
<1> QED
  BY <1>2, <1>3, Zenon DEF Next

\* Each epoch is published at most once and in order, by a block of that epoch
\* at or past the configured share of it, whatever block events were skipped,
\* repeated or reordered on the way from the poller.
THEOREM EpochsPublishedInOrder == Spec => []EpochsInOrder
<1>1. OrderInv => EpochsInOrder
  BY Zenon DEF OrderInv
<1> QED
  BY <1>1, InitOrder, StepOrder, PTL DEF Spec

-----------------------------------------------------------------------------
(***************************************************************************)
(* ProverClient.                                                           *)
(* The proof that a wait returns is the one that was asked for, and a      *)
(* goroutine whose context is done stops calling, for every set of proof   *)
(* kinds and every number of requests and of wrong answers.                *)
(***************************************************************************)

Job == [kind : ProofKinds, state : {"PENDING", "COMPLETED_OK", "COMPLETED_ERROR"}]

Chan == [pc : {"loop", "status", "work", "gen", "wait", "poll", "proved"},
         kind : ProofKinds \cup {"none"}, id : Nat, got : Nat]

\* The job a request asks for, followed through the stream: the id in an answer
\* to it is that of a job of the kind wanted, and the answer to a poll is about
\* the id polled.  The job that runs is not complete.
JobInv ==
    /\ prover = [jobs |-> prover.jobs, running |-> prover.running]
    /\ prover.jobs \in Seq(Job) /\ prover.running \in 0 .. Len(prover.jobs)
    /\ prover.running # 0 => prover.jobs[prover.running].state = "PENDING"

MsgInv ==
    /\ chan \in Chan
    /\ wire \in [type : {"none", "broken", "?status", "?gen", "?proof", "status", "gen", "proof"},
                 id : Nat, kind : ProofKinds \cup {"none"},
                 result : {"none", "idle", "computing", "OK", "ERROR", "PENDING",
                           "COMPLETED_OK", "COMPLETED_ERROR"}]
    /\ chan.pc \in {"wait", "poll", "proved"} =>
          chan.id \in 1 .. Len(prover.jobs) /\ prover.jobs[chan.id].kind = chan.kind
    /\ chan.pc = "proved" => chan.got = chan.id /\ prover.jobs[chan.id].state = "COMPLETED_OK"
    /\ wire.type = "?status" => chan.pc = "status"
    /\ wire.type = "?gen" => chan.pc = "gen" /\ wire.kind = chan.kind /\ chan.kind \in ProofKinds
    /\ wire.type = "gen" /\ wire.result = "OK" =>
          wire.id \in 1 .. Len(prover.jobs) /\ prover.jobs[wire.id].kind = wire.kind
    /\ wire.type = "?proof" => chan.pc = "poll" /\ wire.id = chan.id
    /\ wire.type = "proof" /\ wire.result = "COMPLETED_OK" /\ chan.pc = "poll" /\ Wanted(wire) =>
          wire.id = chan.id /\ prover.jobs[chan.id].state = "COMPLETED_OK"
    /\ chan.pc \in {"loop", "work", "wait", "proved"} => wire.type \in {"none", "broken"}

RequestInv == JobInv /\ MsgInv

\* Nothing is asked for at first.
LEMMA InitRequest == ProverInit => RequestInv
BY SMTT(30) DEF ProverInit, RequestInv, JobInv, MsgInv, Chan, NoMsg, NoWork, Wanted

\* Whatever goes wrong, the goroutine is back at its loop.
LEMMA BackToLoop ==
    ASSUME RequestInv, prover' = prover, chan' = NoWork, wire' = NoMsg \/ (Down /\ wire' = wire)
    PROVE  RequestInv'
BY DEF RequestInv, JobInv, MsgInv, Chan, NoWork, NoMsg, Down, Wanted

\* A step of the goroutine changes no job.
LEMMA ChanRequest == RequestInv /\ ChanStep => RequestInv'
<1> SUFFICES ASSUME RequestInv, ChanStep PROVE RequestInv'
  BY Zenon
<1> USE DEF RequestInv, MsgInv, Chan, Down, Wanted, NoMsg, NoWork, Message
<1>0. prover' = prover
  BY Zenon
     DEF ChanStep, Status, IsIdle, NothingToDo, ProofID, PollProof, waitProof, UseProof, Request, Send, Recv
<1>1. JobInv'
  BY <1>0, Zenon DEF JobInv
<1>2. CASE Status
  BY <1>0, <1>1, <1>2, SMTT(30) DEF Status, Send
<1>3. CASE IsIdle
  BY <1>0, <1>1, <1>3 DEF IsIdle, Recv
<1>4. CASE NothingToDo
  BY <1>0, <1>1, <1>4, Zenon DEF NothingToDo
<1>5. CASE ProofID
  <2>1. CASE chan' = NoWork
    BY <1>0, <1>5, <2>1, BackToLoop, Zenon DEF ProofID, Recv
  <2>2. CASE chan' # NoWork
    <3>1. /\ chan.pc = "gen" /\ wire.type = "gen" /\ wire' = NoMsg
          /\ wire.kind = chan.kind /\ wire.result = "OK"
          /\ chan' = [chan EXCEPT !.pc = "wait", !.id = wire.id]
      BY <1>5, <2>2, Zenon DEF ProofID, Recv
    <3>2. /\ chan'.pc = "wait" /\ chan'.id = wire.id /\ chan'.kind = chan.kind
          /\ chan' \in Chan
      BY <3>1, ZenonT(30)
    <3> QED
      BY <1>0, <1>1, <3>1, <3>2, Zenon
  <2> QED
    BY <2>1, <2>2, Zenon
<1>6. CASE PollProof
  BY <1>0, <1>1, <1>6, SMTT(30) DEF PollProof, Send
<1>7. CASE waitProof
  <2>1. CASE chan' = NoWork
    BY <1>0, <1>7, <2>1, BackToLoop, Zenon DEF waitProof, Recv
  <2>2. CASE chan' # NoWork
    <3>1. /\ chan.pc = "poll" /\ wire.type = "proof" /\ wire' = NoMsg
          /\ \/ chan' = [chan EXCEPT !.pc = "wait"]
             \/ /\ wire.result = "COMPLETED_OK" /\ Wanted(wire)
                /\ chan' = [chan EXCEPT !.pc = "proved", !.got = wire.id]
      BY <1>7, <2>2, Zenon DEF waitProof, Recv
    <3>2. /\ chan'.id = chan.id /\ chan'.kind = chan.kind
          /\ chan'.pc = "wait" \/ (chan'.pc = "proved" /\ chan'.got = wire.id)
          /\ chan' \in Chan
      <4>0. /\ wire.id \in Nat
            /\ chan \in Chan
        BY Zenon
      <4> HIDE DEF MsgInv
      <4>1. CASE chan' = [chan EXCEPT !.pc = "wait"]
        BY <4>0, <4>1, Zenon
      <4>2. CASE chan' = [chan EXCEPT !.pc = "proved", !.got = wire.id]
        BY <4>0, <4>2, Zenon
      <4> QED
        BY <3>1, <4>1, <4>2, Zenon
    <3> QED
      BY <1>0, <1>1, <3>1, <3>2, Zenon
  <2> QED
    BY <2>1, <2>2, Zenon
<1>8. CASE UseProof
  BY <1>0, <1>1, <1>8 DEF UseProof
<1>9. ASSUME NEW k \in ProofKinds, Request(k) PROVE RequestInv'
  <2>1. CASE Down
    BY <1>0, <1>9, <2>1, BackToLoop, Zenon DEF Request, Send
  <2>2. CASE ~Down
    <3>1. /\ chan' = [chan EXCEPT !.pc = "gen", !.kind = k]
          /\ wire' = [type |-> "?gen", id |-> 0, result |-> "none", kind |-> k]
      BY <1>9, <2>2, Zenon DEF Request, Send
    <3>2. /\ chan'.pc = "gen" /\ chan'.kind = k
          /\ chan' \in Chan
      BY <3>1, ZenonT(30)
    <3> QED
      BY <1>0, <1>1, <3>1, <3>2, Zenon
  <2> QED
    BY <2>1, <2>2, Zenon
<1> QED
  BY <1>2, <1>3, <1>4, <1>5, <1>6, <1>7, <1>8, <1>9, Zenon DEF ChanStep

\* The prover answers with the id of the job it has just started, or with the
\* state of the job it was asked for; a wrong answer carries no complete proof.
LEMMA PeerRequest ==
    RequestInv /\ (ProverAnswers \/ MisAnswers \/ JobEnds \/ StreamBreaks \/ CtxDone) => RequestInv'
<1> SUFFICES ASSUME RequestInv, ProverAnswers \/ MisAnswers \/ JobEnds \/ StreamBreaks \/ CtxDone
             PROVE  RequestInv'
  BY Zenon
<1> USE DEF RequestInv, Wanted, NoMsg, Message
<1>1. CASE ProverAnswers
  <2>0. chan' = chan
    BY <1>1, Zenon DEF ProverAnswers
  <2>1. CASE wire.type = "?status"
    BY <1>1, <2>0, <2>1, SMTT(30) DEF ProverAnswers, JobInv, MsgInv
  <2>2. CASE wire.type = "?gen" /\ Running
    BY <1>1, <2>0, <2>2 DEF ProverAnswers, JobInv, MsgInv
  <2>3. CASE wire.type = "?gen" /\ ~Running
    <3> DEFINE n   == Len(prover.jobs)
               job == [kind |-> wire.kind, state |-> "PENDING"]
    <3>1. /\ prover' = [jobs |-> Append(prover.jobs, job), running |-> n + 1]
          /\ wire' = [type |-> "gen", id |-> n + 1, result |-> "OK", kind |-> wire.kind]
      BY <1>1, <2>3, Zenon DEF ProverAnswers
    <3>2. chan.pc = "gen" /\ job \in Job
      BY <2>3, Zenon DEF MsgInv, Job
    <3>3. /\ prover'.jobs \in Seq(Job) /\ Len(prover'.jobs) = n + 1 /\ n \in Nat
          /\ prover'.jobs[n + 1] = job
      BY <3>1, <3>2 DEF JobInv
    <3>4. JobInv'
      BY <3>1, <3>3, SMTT(30) DEF JobInv
    <3>5. MsgInv'
      BY <2>0, <3>1, <3>2, <3>3 DEF MsgInv
    <3> QED
      BY <3>4, <3>5, Zenon
  <2>4. CASE wire.type = "?proof"
    <3>1. /\ prover' = prover /\ chan.pc = "poll" /\ wire.id = chan.id
          /\ chan.id \in 1 .. Len(prover.jobs) /\ prover.jobs[chan.id] \in Job
          /\ wire' = [type |-> "proof", id |-> wire.id, result |-> prover.jobs[wire.id].state,
                       kind |-> prover.jobs[wire.id].kind]
      BY <1>1, <2>4 DEF ProverAnswers, MsgInv, JobInv
    <3> QED
      BY <2>0, <3>1, Zenon DEF MsgInv, JobInv, Job
  <2> QED
    BY <1>1, <2>1, <2>2, <2>3, <2>4, Zenon DEF ProverAnswers
<1>2. CASE MisAnswers
  <2>1. PICK t \in {"status", "gen", "proof"}, k \in ProofKinds, r \in {"ERROR", "COMPLETED_OK"} :
           /\ ~(wire.type = "?proof" /\ t = "proof" /\ r = "COMPLETED_OK" /\ Wanted([kind |-> k]))
           /\ wire' = [type |-> t, id |-> 0, result |-> r, kind |-> k]
    BY <1>2, Zenon DEF MisAnswers
  <2>2. prover' = prover /\ chan' = chan /\ chan.pc \notin {"loop", "work", "wait", "proved"}
    BY <1>2, Zenon DEF MisAnswers, MsgInv
  <2>3. chan.pc = "poll" => wire.type = "?proof"
    BY <1>2, Zenon DEF MisAnswers, MsgInv
  <2> QED
    BY <2>1, <2>2, <2>3, Zenon DEF JobInv, MsgInv
<1>3. CASE JobEnds
  <2>1. PICK r \in {"COMPLETED_OK", "COMPLETED_ERROR"} :
           prover' = [jobs |-> [prover.jobs EXCEPT ![prover.running].state = r], running |-> 0]
    BY <1>3, Zenon DEF JobEnds
  <2>2. /\ prover.running \in 1 .. Len(prover.jobs)
        /\ prover.jobs[prover.running].state = "PENDING"
    BY <1>3 DEF JobEnds, Running, JobInv
  <2>3. /\ prover'.jobs \in Seq(Job) /\ Len(prover'.jobs) = Len(prover.jobs)
        /\ \A i \in 1 .. Len(prover.jobs) :
              /\ prover'.jobs[i].kind = prover.jobs[i].kind
              /\ prover.jobs[i].state # "PENDING" => prover'.jobs[i].state = prover.jobs[i].state
    <3> DEFINE J == prover.jobs
               m == prover.running
               K == [J EXCEPT ![m] = [J[m] EXCEPT !.state = r]]
    <3>1. prover'.jobs = K
      BY <2>1, Zenon
    <3>2. J \in Seq(Job) /\ m \in 1 .. Len(J) /\ J[m] \in Job /\ J[m].state = "PENDING"
      BY <2>2 DEF JobInv
    <3>3. /\ [J[m] EXCEPT !.state = r] \in Job /\ [J[m] EXCEPT !.state = r].kind = J[m].kind
      BY <3>2, Zenon DEF Job
    <3>4. K \in Seq(Job) /\ Len(K) = Len(J) /\ \A i \in 1 .. Len(J) : i # m => K[i] = J[i]
      BY <3>2, <3>3
    <3>5. K[m].kind = J[m].kind
      BY <3>2, <3>3
    <3> QED
      BY <3>1, <3>2, <3>4, <3>5, Zenon
  <2>4. JobInv'
    BY <2>1, <2>3 DEF JobInv
  <2>5. chan' = chan /\ wire' = wire
    BY <1>3, Zenon DEF JobEnds
  <2>6. wire.type = "proof" /\ wire.result = "COMPLETED_OK" /\ chan.pc = "poll" /\ Wanted(wire) =>
           prover'.jobs[chan.id].state = "COMPLETED_OK"
    BY <2>3, Zenon DEF MsgInv
  <2>7. chan.pc = "proved" => prover'.jobs[chan.id].state = "COMPLETED_OK"
    BY <2>3, Zenon DEF MsgInv
  <2> QED
    BY <2>3, <2>4, <2>5, <2>6, <2>7, SMTT(30) DEF MsgInv
<1>4. CASE StreamBreaks
  BY <1>4, Zenon DEF StreamBreaks, JobInv, MsgInv
<1>5. CASE CtxDone
  BY <1>5 DEF CtxDone, JobInv, MsgInv
<1> QED
  BY <1>1, <1>2, <1>3, <1>4, <1>5, Zenon

\* The invariant holds all the time.
LEMMA RequestAlways == ProverSpec => []RequestInv
<1>1. RequestInv /\ [ProverNext]_proverVars => RequestInv'
  <2>1. RequestInv /\ UNCHANGED proverVars => RequestInv'
    BY DEF RequestInv, JobInv, MsgInv, Wanted, proverVars
  <2> QED
    BY <2>1, ChanRequest, PeerRequest, Zenon DEF ProverNext
<1> QED
  BY <1>1, InitRequest, PTL DEF ProverSpec

\* For every set of kinds and every number of requests and wrong answers: the
\* proof that waitProof returns is complete and the one that was asked for.
THEOREM ProofsAreForRequests == ProverSpec => []ProofIsForRequest
<1>1. RequestInv => ProofIsForRequest
  BY Zenon DEF RequestInv, MsgInv, ProofIsForRequest
<1> QED
  BY <1>1, RequestAlways, PTL

\* After the context is done a call is made by a goroutine that was about to
\* send its request, which then waits, sees the context and stops.
CallInv ==
    /\ ctx \in [done : BOOLEAN, calls : Nat] /\ ctx.calls <= 1
    /\ ctx.calls > 0 => ctx.done /\ chan.pc \in {"gen", "wait", "loop"}

\* For every set of kinds: once the context is done, at most one more call.
THEOREM CallsStop == ProverSpec => []StopsAfterDone
<1>1. ProverInit => CallInv
  BY DEF ProverInit, CallInv, NoWork
<1>2. RequestInv /\ CallInv /\ [ProverNext]_proverVars => CallInv'
  <2> SUFFICES ASSUME RequestInv, CallInv, [ProverNext]_proverVars PROVE CallInv'
    BY Zenon
  <2>0. chan \in Chan
    BY Zenon DEF RequestInv, MsgInv
  <2> USE DEF CallInv, Chan, NoWork
  <2>1. CASE Status
    BY <2>1, Zenon DEF Status, Send, Down
  <2>2. CASE IsIdle \/ NothingToDo \/ UseProof
    BY <2>2, Zenon DEF IsIdle, NothingToDo, UseProof, Recv
  <2>3. CASE ProofID
    <3>0. /\ ctx' = ctx /\ chan.pc = "gen"
          /\ chan' = NoWork \/ chan' = [chan EXCEPT !.pc = "wait", !.id = wire.id]
      BY <2>3, Zenon DEF ProofID, Recv
    <3>1. chan'.pc \in {"wait", "loop"}
      <4>1. CASE chan' = NoWork
        BY <4>1, Zenon
      <4>2. CASE chan' = [chan EXCEPT !.pc = "wait", !.id = wire.id]
        BY <2>0, <4>2, Zenon
      <4> QED
        BY <3>0, <4>1, <4>2, Zenon
    <3> QED
      BY <3>0, <3>1, Zenon
  <2>4. CASE PollProof
    BY <2>4 DEF PollProof, Send, Down
  <2>5. CASE waitProof
    BY <2>5, Zenon DEF waitProof, Recv
  <2>6. ASSUME NEW k \in ProofKinds, Request(k) PROVE CallInv'
    <3>0. chan.pc = "work" /\ (chan' = NoWork \/ chan' = [chan EXCEPT !.pc = "gen", !.kind = k])
      BY <2>6, Zenon DEF Request, Send
    <3>1. chan'.pc \in {"gen", "loop"} /\ ctx.calls = 0
      <4>0. ctx.calls = 0
        BY <3>0
      <4>1. CASE chan' = NoWork
        BY <4>0, <4>1, Zenon
      <4>2. CASE chan' = [chan EXCEPT !.pc = "gen", !.kind = k]
        BY <2>0, <4>0, <4>2, Zenon
      <4> QED
        BY <3>0, <4>1, <4>2, Zenon
    <3>2. ctx' = ctx \/ (ctx.done /\ ctx' = [ctx EXCEPT !.calls = @ + 1])
      BY <2>6, Zenon DEF Request, Send
    <3> QED
      BY <3>1, <3>2
  <2>7. CASE ProverAnswers \/ MisAnswers \/ JobEnds \/ StreamBreaks \/ CtxDone
    BY <2>7, Zenon DEF ProverAnswers, MisAnswers, JobEnds, StreamBreaks, CtxDone
  <2>8. CASE UNCHANGED proverVars
    BY <2>8, Zenon DEF proverVars
  <2> QED
    BY <2>1, <2>2, <2>3, <2>4, <2>5, <2>6, <2>7, <2>8, Zenon DEF ProverNext, ChanStep
<1>3. CallInv => StopsAfterDone
  BY Zenon DEF CallInv, StopsAfterDone
<1> QED
  BY <1>1, <1>2, <1>3, RequestAlways, PTL DEF ProverSpec

-----------------------------------------------------------------------------
(***************************************************************************)
(* Startup.                                                                *)
(* No constructor is handed a nil pointer it dereferences, for every set   *)
(* of components and every configuration.                                  *)
(***************************************************************************)

\* An object that has been passed in the order of start exists if one of the
\* components of its list is requested.
Made(o, position, list) ==
    building > position /\ (\E c \in components : c \in list) => o \in objects

StartInv ==
    /\ components \subseteq Components /\ config \in Configs
    /\ building \in 1 .. 10
    /\ Made("l1Client", 1, Components)
    /\ Made("l2Client", 2, {"aggoracle", "rpc", "aggsender"})
    /\ Made("reorgDetectorL1", 3, Components)
    /\ Made("reorgDetectorL2", 4, {"aggoracle", "rpc", "aggsender"})
    /\ Made("l1InfoTreeSync", 5, Components \ {"aggregator"})
    /\ Made("l1BridgeSync", 7, {"rpc"})
    /\ Made("l2BridgeSync", 8, {"rpc", "aggsender"})
    /\ Made("lastGERSync", 9, {"rpc"})
    /\ NoNilArgument

\* Nothing has been created yet.
LEMMA InitStart == StartupInit => StartInv
BY StartupAssumption DEF StartupInit, StartInv, Made, NoNilArgument

\* What an object is needed for, as a fact about the requested components.
LEMMA NeededFor ==
    /\ Object("l1Client").needed <=> \E c \in components : c \in Components
    /\ Object("l2Client").needed <=> \E c \in components : c \in {"aggoracle", "rpc", "aggsender"}
    /\ Object("reorgDetectorL1").needed <=> \E c \in components : c \in Components
    /\ Object("reorgDetectorL2").needed <=> \E c \in components : c \in {"aggoracle", "rpc", "aggsender"}
    /\ Object("l1InfoTreeSync").needed <=> \E c \in components : c \in Components \ {"aggregator"}
    /\ Object("claimSponsor").needed <=> (\E c \in components : c \in {"rpc"}) /\ config.claimSponsor
    /\ Object("l1BridgeSync").needed <=> \E c \in components : c \in {"rpc"}
    /\ Object("l2BridgeSync").needed <=> \E c \in components : c \in {"rpc", "aggsender"}
    /\ Object("lastGERSync").needed <=> \E c \in components : c \in {"rpc"}
<1>1. Object("l1Client").needed <=> \E c \in components : c \in Components
  <2>1. Object("l1Client").needed = isNeeded(Components)
    BY Zenon DEF Object, runL1ClientIfNeeded
  <2>2. isNeeded(Components) <=> \E c \in components : c \in Components
    BY Zenon DEF isNeeded
  <2> QED
    BY <2>1, <2>2, Zenon
<1>2. Object("l2Client").needed <=> \E c \in components : c \in {"aggoracle", "rpc", "aggsender"}
  <2>1. Object("l2Client").needed = isNeeded({"aggoracle", "rpc", "aggsender"})
    BY Zenon DEF Object, runL2ClientIfNeeded
  <2>2. isNeeded({"aggoracle", "rpc", "aggsender"}) <=> \E c \in components : c \in {"aggoracle", "rpc", "aggsender"}
    BY Zenon DEF isNeeded
  <2> QED
    BY <2>1, <2>2, Zenon
<1>3. Object("reorgDetectorL1").needed <=> \E c \in components : c \in Components
  <2>1. Object("reorgDetectorL1").needed = isNeeded(Components)
    BY Zenon DEF Object, runReorgDetectorL1IfNeeded
  <2>2. isNeeded(Components) <=> \E c \in components : c \in Components
    BY Zenon DEF isNeeded
  <2> QED
    BY <2>1, <2>2, Zenon
<1>4. Object("reorgDetectorL2").needed <=> \E c \in components : c \in {"aggoracle", "rpc", "aggsender"}
  <2>1. Object("reorgDetectorL2").needed = isNeeded({"aggoracle", "rpc", "aggsender"})
    BY Zenon DEF Object, runReorgDetectorL2IfNeeded
  <2>2. isNeeded({"aggoracle", "rpc", "aggsender"}) <=> \E c \in components : c \in {"aggoracle", "rpc", "aggsender"}
    BY Zenon DEF isNeeded
  <2> QED
    BY <2>1, <2>2, Zenon
<1>5. Object("l1InfoTreeSync").needed <=> \E c \in components : c \in Components \ {"aggregator"}
  <2>1. Object("l1InfoTreeSync").needed = isNeeded(Components \ {"aggregator"})
    BY Zenon DEF Object, runL1InfoTreeSyncerIfNeeded
  <2>2. isNeeded(Components \ {"aggregator"}) <=> \E c \in components : c \in Components \ {"aggregator"}
    BY Zenon DEF isNeeded
  <2> QED
    BY <2>1, <2>2, Zenon
<1>6. Object("claimSponsor").needed <=> (\E c \in components : c \in {"rpc"}) /\ config.claimSponsor
  <2>1. Object("claimSponsor").needed = (isNeeded({"rpc"}) /\ config.claimSponsor)
    BY Zenon DEF Object, runClaimSponsorIfNeeded
  <2>2. isNeeded({"rpc"}) <=> \E c \in components : c \in {"rpc"}
    BY Zenon DEF isNeeded
  <2> QED
    BY <2>1, <2>2, Zenon
<1>7. Object("l1BridgeSync").needed <=> \E c \in components : c \in {"rpc"}
  <2>1. Object("l1BridgeSync").needed = isNeeded({"rpc"})
    BY Zenon DEF Object, runBridgeSyncL1IfNeeded
  <2>2. isNeeded({"rpc"}) <=> \E c \in components : c \in {"rpc"}
    BY Zenon DEF isNeeded
  <2> QED
    BY <2>1, <2>2, Zenon
<1>8. Object("l2BridgeSync").needed <=> \E c \in components : c \in {"rpc", "aggsender"}
  <2>1. Object("l2BridgeSync").needed = isNeeded({"rpc", "aggsender"})
    BY Zenon DEF Object, runBridgeSyncL2IfNeeded
  <2>2. isNeeded({"rpc", "aggsender"}) <=> \E c \in components : c \in {"rpc", "aggsender"}
    BY Zenon DEF isNeeded
  <2> QED
    BY <2>1, <2>2, Zenon
<1>9. Object("lastGERSync").needed <=> \E c \in components : c \in {"rpc"}
  <2>1. Object("lastGERSync").needed = isNeeded({"rpc"})
    BY Zenon DEF Object, runLastGERSyncIfNeeded
  <2>2. isNeeded({"rpc"}) <=> \E c \in components : c \in {"rpc"}
    BY Zenon DEF isNeeded
  <2> QED
    BY <2>1, <2>2, Zenon
<1> QED
  BY <1>1, <1>2, <1>3, <1>4, <1>5, <1>6, <1>7, <1>8, <1>9, Zenon

\* What the constructor of an object is handed.
LEMMA UsesOf ==
    /\ Object("l1Client").uses = {}
    /\ Object("l2Client").uses = {}
    /\ Object("reorgDetectorL1").uses = {"l1Client"}
    /\ Object("reorgDetectorL2").uses = {"l2Client"}
    /\ Object("l1InfoTreeSync").uses = {"reorgDetectorL1", "l1Client"}
    /\ Object("claimSponsor").uses = {"l2Client"}
    /\ Object("l1BridgeSync").uses = {"reorgDetectorL1", "l1Client"}
    /\ Object("l2BridgeSync").uses = {"reorgDetectorL2", "l2Client"}
    /\ Object("lastGERSync").uses = {"reorgDetectorL2", "l2Client", "l1InfoTreeSync"}
BY Zenon
   DEF Object, runL1ClientIfNeeded, runL2ClientIfNeeded, runReorgDetectorL1IfNeeded,
       runReorgDetectorL2IfNeeded, runL1InfoTreeSyncerIfNeeded, runClaimSponsorIfNeeded,
       runBridgeSyncL1IfNeeded, runBridgeSyncL2IfNeeded, runLastGERSyncIfNeeded

\* An object that is needed finds what it uses: its list of components is
\* contained in the lists of those objects, which come before it in the order.
LEMMA ObjectsFindTheirs ==
    ASSUME StartInv, building <= Len(Order), Object(Order[building]).needed
    PROVE  Object(Order[building]).uses \subseteq objects
<1>1. Len(Order) = 9 /\ building \in 1 .. 9
  BY DEF Order, StartInv
<1> USE NeededFor, UsesOf DEF Components, Made, StartInv
<1>2. CASE building = 1
  <2>1. Order[building] = "l1Client"
    BY <1>2, Zenon DEF Order
  <2> QED
    BY <1>2, <2>1, Zenon
<1>3. CASE building = 2
  <2>1. Order[building] = "l2Client"
    BY <1>3, Zenon DEF Order
  <2> QED
    BY <1>3, <2>1, Zenon
<1>4. CASE building = 3
  <2>1. Order[building] = "reorgDetectorL1"
    BY <1>4, Zenon DEF Order
  <2> QED
    BY <1>4, <2>1
<1>5. CASE building = 4
  <2>1. Order[building] = "reorgDetectorL2"
    BY <1>5, Zenon DEF Order
  <2> QED
    BY <1>5, <2>1
<1>6. CASE building = 5
  <2>1. Order[building] = "l1InfoTreeSync"
    BY <1>6, Zenon DEF Order
  <2> QED
    BY <1>6, <2>1
<1>7. CASE building = 6
  <2>1. Order[building] = "claimSponsor"
    BY <1>7, Zenon DEF Order
  <2> QED
    BY <1>7, <2>1
<1>8. CASE building = 7
  <2>1. Order[building] = "l1BridgeSync"
    BY <1>8, Zenon DEF Order
  <2> QED
    BY <1>8, <2>1
<1>9. CASE building = 8
  <2>1. Order[building] = "l2BridgeSync"
    BY <1>9, Zenon DEF Order
  <2> QED
    BY <1>9, <2>1
<1>10. CASE building = 9
  <2>1. Order[building] = "lastGERSync"
    BY <1>10, Zenon DEF Order
  <2> QED
    BY <1>10, <2>1
<1> QED
  BY <1>1, <1>2, <1>3, <1>4, <1>5, <1>6, <1>7, <1>8, <1>9, <1>10, SMTT(30)

\* A component that is requested finds what it uses.
LEMMA ComponentsFindTheirs ==
    ASSUME StartInv, building = 10, NEW c \in components, Component(c).ok
    PROVE  Component(c).uses \subseteq objects \cup Component(c).makes
<1> USE NeededFor DEF Components, Made, StartInv
<1>1. CASE c = "sequence-sender"
  <2>1. /\ Component(c).uses \subseteq {"l1InfoTreeSync", "l1Client"} \cup
              (IF config.validium THEN {"dataAvailability"} ELSE {})
        /\ Component(c).makes = IF config.validium THEN {"dataAvailability"} ELSE {}
    BY <1>1, Zenon DEF Component, createSequenceSender, newTxBuilder, newDataAvailability
  <2>2. "l1InfoTreeSync" \in objects /\ "l1Client" \in objects
    BY <1>1
  <2> QED
    BY <2>1, <2>2, Zenon
<1>2. CASE c \in {"aggregator", "l1infotreesync"}
  <2>1. Component(c).uses = {}
    BY <1>2, Zenon DEF Component, createAggregator
  <2> QED
    BY <2>1, Zenon
<1>3. CASE c = "aggoracle"
  <2>1. Component(c).uses = {"l1Client", "l2Client", "l1InfoTreeSync"}
    BY <1>3, Zenon DEF Component, createAggoracle
  <2> QED
    BY <1>3, <2>1
<1>4. CASE c = "rpc"
  <2>1. Component(c).uses = {"l1InfoTreeSync", "lastGERSync", "l1BridgeSync", "l2BridgeSync"}
    BY <1>4, Zenon DEF Component, createRPC
  <2> QED
    BY <1>4, <2>1
<1>5. CASE c = "aggsender"
  <2>1. Component(c).uses = {"l1Client", "l1InfoTreeSync", "l2BridgeSync"}
    BY <1>5, Zenon DEF Component, createAggSender
  <2> QED
    BY <1>5, <2>1
<1> QED
  BY <1>1, <1>2, <1>3, <1>4, <1>5, Zenon

\* A statement of start that creates, or skips, an object.
LEMMA CreateStart ==
    ASSUME StartInv, CreateObject
    PROVE  StartInv'
<1>0. components' = components /\ config' = config
  BY Zenon DEF CreateObject, Fatal
<1>1. CASE Fatal
  BY <1>1 DEF Fatal, StartInv, Made, NoNilArgument
<1>2. CASE ~Fatal
  <2> DEFINE o == Order[building]
  <2>1. /\ building \in 1 .. 9 /\ building' = building + 1
        /\ objects \subseteq objects'
        /\ Object(o).needed => o \in objects'
    <3>1. Len(Order) = 9
      BY Zenon DEF Order
    <3> QED
      BY <1>2, <3>1 DEF CreateObject, StartInv
  <2>2. holdsNil' = {}
    <3>1. CASE Object(o).needed
      <4>1. Object(o).uses \subseteq objects
        BY <3>1, ObjectsFindTheirs, Zenon DEF CreateObject
      <4> QED
        BY <1>2, <3>1, <4>1, Zenon DEF CreateObject, StartInv, NoNilArgument
    <3>2. CASE ~Object(o).needed
      BY <1>2, <3>2, Zenon DEF CreateObject, StartInv, NoNilArgument
    <3> QED
      BY <3>1, <3>2, Zenon
  <2> HIDE DEF o
  <2>3. CASE building = 1
    <3>1. o = "l1Client"
      BY <2>3, Zenon DEF o, Order
    <3> QED
      BY <1>0, <2>1, <2>2, <2>3, <3>1, NeededFor, SMTT(30) DEF StartInv, Made, NoNilArgument
  <2>4. CASE building = 2
    <3>1. o = "l2Client"
      BY <2>4, Zenon DEF o, Order
    <3> QED
      BY <1>0, <2>1, <2>2, <2>4, <3>1, NeededFor, SMTT(30) DEF StartInv, Made, NoNilArgument
  <2>5. CASE building = 3
    <3>1. o = "reorgDetectorL1"
      BY <2>5, Zenon DEF o, Order
    <3> QED
      BY <1>0, <2>1, <2>2, <2>5, <3>1, NeededFor, SMTT(30) DEF StartInv, Made, NoNilArgument
  <2>6. CASE building = 4
    <3>1. o = "reorgDetectorL2"
      BY <2>6, Zenon DEF o, Order
    <3> QED
      BY <1>0, <2>1, <2>2, <2>6, <3>1, NeededFor, SMTT(30) DEF StartInv, Made, NoNilArgument
  <2>7. CASE building = 5
    <3>1. o = "l1InfoTreeSync"
      BY <2>7, Zenon DEF o, Order
    <3> QED
      BY <1>0, <2>1, <2>2, <2>7, <3>1, NeededFor, SMTT(30) DEF StartInv, Made, NoNilArgument
  <2>8. CASE building = 6
    <3>1. o = "claimSponsor"
      BY <2>8, Zenon DEF o, Order
    <3> QED
      BY <1>0, <2>1, <2>2, <2>8, <3>1, NeededFor, SMTT(30) DEF StartInv, Made, NoNilArgument
  <2>9. CASE building = 7
    <3>1. o = "l1BridgeSync"
      BY <2>9, Zenon DEF o, Order
    <3> QED
      BY <1>0, <2>1, <2>2, <2>9, <3>1, NeededFor, SMTT(30) DEF StartInv, Made, NoNilArgument
  <2>10. CASE building = 8
    <3>1. o = "l2BridgeSync"
      BY <2>10, Zenon DEF o, Order
    <3> QED
      BY <1>0, <2>1, <2>2, <2>10, <3>1, NeededFor, SMTT(30) DEF StartInv, Made, NoNilArgument
  <2>11. CASE building = 9
    <3>1. o = "lastGERSync"
      BY <2>11, Zenon DEF o, Order
    <3> QED
      BY <1>0, <2>1, <2>2, <2>11, <3>1, NeededFor, SMTT(30) DEF StartInv, Made, NoNilArgument
  <2> QED
    BY <2>1, <2>3, <2>4, <2>5, <2>6, <2>7, <2>8, <2>9, <2>10, <2>11, SMTT(30)
<1> QED
  BY <1>1, <1>2, Zenon

\* A round of the loop over the components.
LEMMA ComponentStart ==
    ASSUME StartInv, NEW c \in Components, StartComponent(c)
    PROVE  StartInv'
<1>1. CASE Fatal
  BY <1>1, SMTT(30) DEF Fatal, StartInv, Made, NoNilArgument
<1>2. CASE ~Fatal
  <2>0. Len(Order) = 9
    BY Zenon DEF Order
  <2>1. /\ building = 10 /\ c \in components /\ Component(c).ok
        /\ building' = building /\ components' = components /\ config' = config
        /\ objects' = objects \cup Component(c).makes
        /\ holdsNil' = IF Component(c).uses \subseteq objects' THEN holdsNil ELSE holdsNil \cup {c}
    BY <1>2, <2>0 DEF StartComponent, StartInv
  <2>2. Component(c).uses \subseteq objects'
    BY <2>1, ComponentsFindTheirs, Zenon
  <2> QED
    BY <2>1, <2>2 DEF StartInv, Made, NoNilArgument
<1> QED
  BY <1>1, <1>2, Zenon

\* For every set of components and every configuration: nothing that start puts
\* together holds a nil pointer that it dereferences.
THEOREM NothingHoldsNil == StartupSpec => []NoNilArgument
<1>1. StartInv /\ [StartupNext]_startVars => StartInv'
  <2> SUFFICES ASSUME StartInv, [StartupNext]_startVars PROVE StartInv'
    BY Zenon
  <2>1. CASE Fatal
    BY <2>1, ZenonT(30) DEF Fatal, StartInv, Made, NoNilArgument
  <2>2. CASE UNCHANGED startVars
    BY <2>2, ZenonT(30) DEF startVars, StartInv, Made, NoNilArgument
  <2> QED
    BY <2>1, <2>2, CreateStart, ComponentStart, Zenon
       DEF StartupNext, DetectorError, ComponentFails, waitSignal
<1>2. StartInv => NoNilArgument
  BY Zenon DEF StartInv
<1> QED
  BY <1>1, <1>2, InitStart, PTL DEF StartupSpec

-----------------------------------------------------------------------------
(***************************************************************************)
(* TxBuilder.                                                              *)
(* The time margin of a sequence is kept, for every list of batches, every *)
(* margin and every course of the two clocks.                              *)
(***************************************************************************)

IsSeqTx(t) ==
    t = [pc |-> t.pc, kind |-> t.kind, batches |-> t.batches, header |-> t.header,
         counter |-> t.counter, root |-> t.root, old |-> t.old, expected |-> t.expected,
         follows |-> t.follows, maxTs |-> t.maxTs, changed |-> t.changed]

\* Batches are never newer than the clock, so the branch of marginTimeElapsed
\* for blocks ahead of it is never the one that ends the second wait.
TimeInv ==
    /\ clock \in Nat
    /\ IsSeqTx(seqTx)
    /\ seqTx.pc # "idle" =>
          seqTx.batches \in BatchLists /\ \A i \in DOMAIN seqTx.batches : seqTx.batches[i].ts <= clock
    /\ MarginIsKept

\* A step after which the same batches are at a place before the second wait has
\* ended, or at a later one when they had passed it.
LEMMA SameBatches ==
    ASSUME TimeInv, clock' = clock, seqTx.pc # "idle",
           seqTx'.batches = seqTx.batches,
           IsSeqTx(seqTx'),
           \/ seqTx'.pc \notin {"build", "built", "sent"}
           \/ seqTx.pc \in {"build", "built", "sent"}
    PROVE  TimeInv'
BY Zenon DEF TimeInv, MarginIsKept

\* Giving up forgets the batches.
LEMMA GivenUp ==
    ASSUME clock \in Nat, clock' = clock, Abandon
    PROVE  TimeInv'
BY Zenon DEF TimeInv, IsSeqTx, MarginIsKept, Abandon, NoSeqTx

\* The second wait ends when the clock is past the margin of the last batch,
\* which is the newest.
LEMMA ClockIsPastMargin ==
    ASSUME TimeInv, seqTx.pc # "idle",
           marginTimeElapsed(seqTx.batches[Len(seqTx.batches)].ts, clock)
    PROVE  \A i \in DOMAIN seqTx.batches : clock >= seqTx.batches[i].ts + TimeMargin
<1> DEFINE b == seqTx.batches
           t == b[Len(b)].ts
<1>1. /\ Len(b) \in Nat \ {0} /\ DOMAIN b = 1 .. Len(b)
      /\ \A i \in DOMAIN b : b[i].ts \in Nat /\ b[i].ts <= t
      /\ TimeMargin \in Nat
  BY TxBuilderAssumption, Zenon DEF TimeInv
<1>2. t \in Nat /\ t <= clock /\ clock \in Nat
  BY <1>1 DEF TimeInv
<1>3. t - TimeMargin > clock \/ clock - t >= TimeMargin
  BY Zenon DEF marginTimeElapsed
<1> HIDE DEF b, t
<1>4. clock >= t + TimeMargin
  BY <1>1, <1>2, <1>3, SMTT(30)
<1> QED
  BY <1>1, <1>2, <1>4, SMTT(30) DEF b

\* At first there is no sequence.
LEMMA InitTime == BuilderInit => TimeInv
BY DEF BuilderInit, TimeInv, IsSeqTx, MarginIsKept, NoSeqTx

\* A step of the attempt.
LEMMA AttemptTime ==
    ASSUME TimeInv,
           \/ NewSequence \/ ReadHeader \/ GetCounterL1InfoRoot \/ getL1InfoRoot \/ LastAccInputHash
           \/ waitForMargin \/ BuildSequenceBatchesTx \/ EstimateGas
    PROVE  TimeInv'
<1>0. clock' = clock /\ clock \in Nat /\ IsSeqTx(seqTx)
  BY Zenon
     DEF TimeInv, NewSequence, ReadHeader, GetCounterL1InfoRoot, getL1InfoRoot, LastAccInputHash,
         waitForMargin, BuildSequenceBatchesTx, EstimateGas
<1>1. CASE Abandon
  BY <1>0, <1>1, GivenUp, Zenon
<1>2. CASE ~Abandon
  <2>1. CASE NewSequence
    <3>1. PICK batches \in BatchLists, kind \in Kinds :
             /\ \A i \in DOMAIN batches : batches[i].ts <= clock
             /\ seqTx' = [NoSeqTx EXCEPT !.kind = kind, !.batches = batches,
                            !.pc = IF kind \in Banana THEN "header" ELSE "wait",
                            !.follows = Len(l1.acc), !.changed = ~InfoIsPrefix,
                            !.maxTs = IF kind \in Banana THEN NewSequenceBanana(batches)
                                      ELSE batches[Len(batches)].ts]
      BY <2>1, Zenon DEF NewSequence
    <3>2. /\ IsSeqTx(seqTx') /\ seqTx'.batches = batches
          /\ seqTx'.pc \in {"header", "wait"}
      BY <3>1, Zenon DEF NoSeqTx, IsSeqTx
    <3> QED
      BY <1>0, <3>1, <3>2, Zenon DEF TimeInv, MarginIsKept
  <2>2. CASE ReadHeader
    <3>1. seqTx.pc = "header" /\ seqTx' = [seqTx EXCEPT !.pc = "counter", !.header = l1.final + 1]
      BY <1>2, <2>2, Zenon DEF ReadHeader
    <3>2. IsSeqTx(seqTx') /\ seqTx'.batches = seqTx.batches /\ seqTx'.pc = "counter"
      BY <1>0, <3>1, Zenon DEF IsSeqTx
    <3> QED
      BY <1>0, <3>1, <3>2, SameBatches, Zenon
  <2>3. CASE GetCounterL1InfoRoot
    <3>1. PICK n : seqTx.pc = "counter" /\ seqTx' = [seqTx EXCEPT !.pc = "root", !.counter = n]
      BY <1>2, <2>3, Zenon DEF GetCounterL1InfoRoot
    <3>2. IsSeqTx(seqTx') /\ seqTx'.batches = seqTx.batches /\ seqTx'.pc = "root"
      BY <1>0, <3>1, Zenon DEF IsSeqTx
    <3> QED
      BY <1>0, <3>1, <3>2, SameBatches, Zenon
  <2>4. CASE getL1InfoRoot
    <3>1. PICK r : seqTx.pc = "root" /\ seqTx' = [seqTx EXCEPT !.pc = "acc", !.root = r]
      BY <1>2, <2>4, Zenon DEF getL1InfoRoot
    <3>2. IsSeqTx(seqTx') /\ seqTx'.batches = seqTx.batches /\ seqTx'.pc = "acc"
      BY <1>0, <3>1, Zenon DEF IsSeqTx
    <3> QED
      BY <1>0, <3>1, <3>2, SameBatches, Zenon
  <2>5. CASE LastAccInputHash
    <3>1. PICK h : seqTx.pc = "acc" /\ seqTx' = [seqTx EXCEPT !.pc = "wait", !.old = l1.acc, !.expected = h]
      BY <1>2, <2>5, Zenon DEF LastAccInputHash
    <3>2. IsSeqTx(seqTx') /\ seqTx'.batches = seqTx.batches /\ seqTx'.pc = "wait"
      BY <1>0, <3>1, Zenon DEF IsSeqTx
    <3> QED
      BY <1>0, <3>1, <3>2, SameBatches, Zenon
  <2>6. CASE waitForMargin
    <3>1. CASE seqTx.pc = "wait"
      <4>1. seqTx' = [seqTx EXCEPT !.pc = "wait now"]
        BY <1>2, <2>6, <3>1, Zenon DEF waitForMargin
      <4>2. IsSeqTx(seqTx') /\ seqTx'.batches = seqTx.batches /\ seqTx'.pc = "wait now"
        BY <1>0, <4>1, Zenon DEF IsSeqTx
      <4> QED
        BY <1>0, <3>1, <4>2, SameBatches, Zenon
    <3>2. CASE seqTx.pc = "wait now"
      <4>1. /\ seqTx' = [seqTx EXCEPT !.pc = "build"]
            /\ marginTimeElapsed(seqTx.batches[Len(seqTx.batches)].ts, clock)
        BY <1>2, <2>6, <3>2, Zenon DEF waitForMargin
      <4>2. IsSeqTx(seqTx') /\ seqTx'.batches = seqTx.batches /\ seqTx'.pc = "build"
        BY <1>0, <4>1, Zenon DEF IsSeqTx
      <4>3. \A i \in DOMAIN seqTx.batches : clock >= seqTx.batches[i].ts + TimeMargin
        BY <3>2, <4>1, ClockIsPastMargin, Zenon
      <4> QED
        BY <1>0, <3>2, <4>2, <4>3, Zenon DEF TimeInv, MarginIsKept
    <3> QED
      BY <2>6, <3>1, <3>2, Zenon DEF waitForMargin
  <2>7. CASE BuildSequenceBatchesTx
    <3>1. seqTx.pc = "build" /\ seqTx' = [seqTx EXCEPT !.pc = "built"]
      BY <1>2, <2>7, Zenon DEF BuildSequenceBatchesTx
    <3>2. IsSeqTx(seqTx') /\ seqTx'.batches = seqTx.batches /\ seqTx'.pc = "built"
      BY <1>0, <3>1, Zenon DEF IsSeqTx
    <3> QED
      BY <1>0, <3>1, <3>2, SameBatches, Zenon
  <2>8. CASE EstimateGas
    <3>1. seqTx.pc = "built" /\ seqTx' = [seqTx EXCEPT !.pc = "sent"]
      BY <1>2, <2>8, Zenon DEF EstimateGas
    <3>2. IsSeqTx(seqTx') /\ seqTx'.batches = seqTx.batches /\ seqTx'.pc = "sent"
      BY <1>0, <3>1, Zenon DEF IsSeqTx
    <3> QED
      BY <1>0, <3>1, <3>2, SameBatches, Zenon
  <2> QED
    BY <2>1, <2>2, <2>3, <2>4, <2>5, <2>6, <2>7, <2>8, Zenon
<1> QED
  BY <1>1, <1>2, Zenon

\* For every list of batches whose times do not go back and every margin: a
\* sequence is built only when the clock is past the margin of all its batches.
THEOREM MarginAlwaysKept == BuilderSpec => []MarginIsKept
<1>1. TimeInv /\ [BuilderNext]_builderVars => TimeInv'
  <2> SUFFICES ASSUME TimeInv, [BuilderNext]_builderVars PROVE TimeInv'
    BY Zenon
  <2>1. CASE NewL1Leaf \/ FinalL1Leaf \/ SyncLeaf \/ UNCHANGED builderVars
    BY <2>1, Zenon DEF NewL1Leaf, FinalL1Leaf, SyncLeaf, builderVars, TimeInv, MarginIsKept
  <2>2. CASE L1Changes
    <3>1. clock' = clock /\ seqTx' = [seqTx EXCEPT !.changed = (seqTx.pc # "idle")]
      BY <2>2, Zenon DEF L1Changes
    <3>2. /\ IsSeqTx(seqTx') /\ seqTx'.batches = seqTx.batches /\ seqTx'.pc = seqTx.pc
      BY <3>1, Zenon DEF TimeInv, IsSeqTx
    <3> QED
      BY <3>1, <3>2, Zenon DEF TimeInv, MarginIsKept
  <2>3. CASE Tick
    <3>1. seqTx' = seqTx /\ clock' \in Nat /\ clock' >= clock
      BY <2>3 DEF Tick, TimeInv
    <3>2. seqTx.pc # "idle" => \A i \in DOMAIN seqTx.batches :
             seqTx.batches[i].ts \in Nat /\ seqTx.batches[i].ts + TimeMargin \in Nat
      BY TxBuilderAssumption DEF TimeInv
    <3> QED
      BY <3>1, <3>2 DEF TimeInv, MarginIsKept
  <2> QED
    BY <2>1, <2>2, <2>3, AttemptTime, Zenon DEF BuilderNext
<1>2. TimeInv => MarginIsKept
  BY Zenon DEF TimeInv
<1> QED
  BY <1>1, <1>2, InitTime, PTL DEF BuilderSpec
=============================================================================
