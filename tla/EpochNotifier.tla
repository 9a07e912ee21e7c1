--------------------------- MODULE EpochNotifier ---------------------------
(***************************************************************************)
(* The clock of the AggSender: BlockNotifierPolling polls the L1 for the   *)
(* number of its latest block, EpochNotifierPerBlock turns block numbers   *)
(* into epoch events, and GenericSubscriberImpl carries both.  Publish     *)
(* starts one goroutine per event that blocks on an unbuffered channel, so *)
(* events wait in a bag and are received in any order.                     *)
(***************************************************************************)
EXTENDS Integers, Sequences, Bags

CONSTANTS
    StartingEpochBlock,  \* first block of epoch 1
    NumBlockPerEpoch,
    Percentages,         \* values of EpochNotificationPercentage to configure
    FirstBlock,          \* head of the L1 when the node starts
    LastBlock,           \* bound: highest L1 block
    MaxFaults,           \* bound: failed polls and L1 reorganisations together
    MaxWaiting,          \* bound: block events waiting to be received
    NoStatus             \* nil, the status of a poller that has seen no block

ASSUME NotifierAssumption ==
    /\ StartingEpochBlock \in Nat /\ NumBlockPerEpoch \in Nat \ {0}
    /\ Percentages \subseteq 0 .. 100
    /\ FirstBlock \in Nat /\ LastBlock \in Nat /\ FirstBlock <= LastBlock
    /\ MaxFaults \in Nat /\ MaxWaiting \in Nat \ {0}
    /\ NoStatus \notin Nat

VARIABLES
    pct,        \* EpochNotificationPercentage
    running,    \* NewEpochNotifierPerBlock accepted the configuration
    head,       \* number of the L1 block of the configured finality
    poller,     \* blockNotifierPollingInternalStatus.lastBlockSeen
    blocks,     \* goroutines that offer a block event: a bag of numbers
    seen,       \* internalStatus.lastBlockSeen
    waiting,    \* internalStatus.waitingForEpoch
    notified,   \* epoch events published, with the block that caused them
    faults

pollVars  == <<head, poller, faults>>
epochVars == <<seen, waiting, notified>>
vars      == <<pct, running, pollVars, blocks, epochVars>>

-----------------------------------------------------------------------------
(* Arithmetic of epochs                                                    *)

epochNumber(b) ==
    IF b < StartingEpochBlock THEN 0
    ELSE 1 + ((b - StartingEpochBlock) \div NumBlockPerEpoch)

startingBlockEpoch(e) ==
    IF e = 0 THEN StartingEpochBlock - 1
    ELSE StartingEpochBlock + (e - 1) * NumBlockPerEpoch

endBlockEpoch(e) == startingBlockEpoch(e + 1)

\* percentEpoch: the fraction of the epoch before b, in blocks
elapsedBlocks(b) == b - startingBlockEpoch(epochNumber(b))

\* Mutant of thresholdReached: the threshold is not capped to the last block.
thresholdReachedUncapped(b) ==
    100 * elapsedBlocks(b) >= pct * NumBlockPerEpoch

\* The comparison of percentEpoch with min(pct / 100, (N - 1) / N), cleared of
\* the denominators.
thresholdReached(b) ==
    \/ 100 * elapsedBlocks(b) >= pct * NumBlockPerEpoch
    \/ elapsedBlocks(b) >= NumBlockPerEpoch - 1

isNotificationRequired(b, epoch) ==
    thresholdReached(b) /\ epochNumber(b) + 1 > epoch

Validate == NumBlockPerEpoch > 0 /\ pct < 100

-----------------------------------------------------------------------------

Event == [epoch : Nat, block : Nat]

\* Type invariant of L1, the events under way and the two notifiers.
TypeOK ==
    /\ pct \in Percentages /\ running \in BOOLEAN
    /\ head \in FirstBlock .. LastBlock
    /\ poller \in {NoStatus} \cup 0 .. LastBlock
    /\ DOMAIN blocks \subseteq FirstBlock .. LastBlock
    /\ seen \in Nat /\ waiting \in Nat
    /\ notified \in Seq(Event)
    /\ faults \in 0 .. MaxFaults

Init ==
    /\ pct \in Percentages
    /\ running = Validate
    /\ head = FirstBlock
    /\ poller = NoStatus
    /\ blocks = EmptyBag
    /\ seen = StartingEpochBlock
    /\ waiting = epochNumber(StartingEpochBlock)
    /\ notified = << >>
    /\ faults = 0

MineBlock ==
    /\ head < LastBlock
    /\ head' = head + 1
    /\ UNCHANGED <<pct, running, poller, faults, blocks, epochVars>>

ReorgL1 ==
    /\ faults < MaxFaults /\ faults' = faults + 1
    /\ head > FirstBlock /\ head' = head - 1
    /\ UNCHANGED <<pct, running, poller, blocks, epochVars>>

Publish(b) ==
    /\ BagCardinality(blocks) < MaxWaiting
    /\ blocks' = blocks (+) SetToBag({b})

\* BlockNotifierPolling.step: a failed request clears the status to block 0, the
\* first block is remembered without an event, a block that differs from the
\* last one is published.
Poll ==
    /\ running
    /\ \/ /\ faults < MaxFaults /\ faults' = faults + 1
          /\ poller' = 0 /\ UNCHANGED blocks
       \/ /\ poller = NoStatus
          /\ poller' = head /\ UNCHANGED <<blocks, faults>>
       \/ /\ poller # NoStatus /\ poller # head
          /\ Publish(head) /\ poller' = head /\ UNCHANGED faults
       \/ /\ poller = head
          /\ UNCHANGED <<poller, blocks, faults>>
    /\ UNCHANGED <<pct, running, head, epochVars>>

Take(b) ==
    /\ running /\ BagIn(b, blocks)
    /\ blocks' = blocks (-) SetToBag({b})
    /\ UNCHANGED <<pct, running, pollVars>>

\* Mutant of Step: an older block is not recognised as such.
StepAnyBlock(b) ==
    /\ Take(b)
    /\ IF b < StartingEpochBlock \/ b = seen
       THEN UNCHANGED epochVars
       ELSE /\ seen' = b
            /\ IF isNotificationRequired(b, waiting)
               THEN /\ notified' = Append(notified, [epoch |-> epochNumber(b), block |-> b])
                    /\ waiting' = epochNumber(b)
               ELSE UNCHANGED <<waiting, notified>>

\* EpochNotifierPerBlock.step
Step(b) ==
    /\ Take(b)
    /\ IF b < StartingEpochBlock \/ b <= seen
       THEN UNCHANGED epochVars
       ELSE /\ seen' = b
            /\ IF isNotificationRequired(b, waiting)
               THEN /\ notified' = Append(notified, [epoch |-> epochNumber(b), block |-> b])
                    /\ waiting' = epochNumber(b) + 1
               ELSE UNCHANGED <<waiting, notified>>

Next == MineBlock \/ ReorgL1 \/ Poll \/ \E b \in FirstBlock .. LastBlock : Step(b)

Spec == Init /\ [][Next]_vars

\* The L1 grows, the ticker fires again and again, and the events that are
\* offered are received, one of them at a time and not in turn.
Fairness ==
    /\ WF_vars(MineBlock)
    /\ WF_vars(Poll /\ UNCHANGED faults)
    /\ WF_vars(\E b \in FirstBlock .. LastBlock : Step(b))

FairSpec == Spec /\ Fairness

-----------------------------------------------------------------------------
(* Properties                                                              *)

\* However block events are repeated, skipped or reordered, an epoch is
\* published once, epochs are published in increasing order, and the block
\* that causes it lies in the epoch, at or past the configured share of it or
\* at its last block.
EpochsInOrder ==
    /\ \A i, j \in 1 .. Len(notified) : i < j => notified[i].epoch < notified[j].epoch
    /\ \A i \in 1 .. Len(notified) :
          LET e == notified[i].epoch
              b == notified[i].block IN
          /\ startingBlockEpoch(e) <= b /\ b < endBlockEpoch(e)
          /\ \/ b = endBlockEpoch(e) - 1
             \/ 100 * (b - startingBlockEpoch(e)) >= pct * NumBlockPerEpoch

\* A poller that is at work before the last block of an epoch appears has its
\* epoch published in the end, although polls fail and the L1 is reorganised.
EpochIsPublished ==
    (running /\ poller # NoStatus /\ poller < LastBlock /\ head < LastBlock) ~>
        \E i \in 1 .. Len(notified) : notified[i].epoch = epochNumber(LastBlock)

-----------------------------------------------------------------------------
(* What comments of the code say, and the code does not do                 *)

\* "each time that a new block appear the subscriber will be notified": every
\* block number that the poller has passed was offered or received.
EveryBlockNotified ==
    poller # NoStatus /\ poller > FirstBlock =>
        \A b \in FirstBlock + 1 .. poller : BagIn(b, blocks) \/ seen >= b

\* "100 -> end of epoch (same as 0)": a notifier with that percentage runs.
PercentageAccepted == running
=============================================================================
