------------------------------ MODULE EVMSync ------------------------------
(***************************************************************************)
(* One syncer of the node: the EVM driver and the EVM downloader of sync/, *)
(* the processor the driver feeds (bridgesync, l1infotreesync,             *)
(* lastgersync), and the reorg detector that watches the blocks the driver *)
(* has handed to the processor.  They are four concurrent activities:      *)
(*                                                                         *)
(*   chain ----> downloader ==channel==> driver ----> processor (SQLite)   *)
(*     |                                  |   ^                            *)
(*     +------> reorg detector <- track --+   |                            *)
(*                    +---- ReorgedBlock / ReorgProcessed (unbuffered)     *)
(*                                                                         *)
(* A step is one call of the Ethereum client, one channel operation, one   *)
(* database transaction or one locked section.  Failed calls that the code *)
(* retries without changing state (RetryHandler) are stuttering steps.     *)
(***************************************************************************)
EXTENDS Chain, Sequences, FiniteSets, FiniteSetsExt

CONSTANTS
    ChunkSize,    \* syncBlockChunkSize
    BufferSize,   \* downloadBufferSize
    HaltBlocks,   \* blocks on which the sanity check of l1infotreesync may fail
    MaxRestarts   \* bound: number of times the process is killed and restarted

ASSUME SyncAssumption ==
    /\ InitialBlock > 2        \* see removeTrackedBlockRange
    /\ ChunkSize \in Nat
    /\ BufferSize \in Nat \ {0}
    /\ MaxRestarts \in Nat

VARIABLES
    tracked,        \* headersList of the subscriber, in memory
    tracked_block,  \* rows of that table, the last one saved for each number
    det,            \* detectReorgInTrackedList
    drv,            \* EVMDriver.Sync
    dl,             \* EVMDownloader.Download, the instance the driver listens to
    ch,             \* downloadCh
    closed,         \* downloadCh has been closed
    block,          \* the processor's block table, with what was stored for each
    halted,         \* the l1infotreesync processor's halted flag
    restarts

detVars == <<tracked, tracked_block, det>>
dlVars  == <<dl, ch, closed>>
vars    == <<chainVars, detVars, drv, dlVars, block, halted, restarts>>

\* A block as the downloader sends it: ev tells whether it comes with events.
EVMBlock  == [num : Blocks, hash : Hash \cup {ZeroHash}, ev : BOOLEAN]
ZeroBlock == [num |-> 0, hash |-> ZeroHash, ev |-> FALSE]

Lowest(S) == CHOOSE x \in S : \A y \in S : x.num <= y.num
Nums(S)   == {x.num : x \in S}

DetectorState ==
    [pc : {"idle", "scan", "notify", "await", "remove"}, snap : SUBSET Header,
     fin : Blocks, at : Blocks, top : Blocks, detached : BOOLEAN]

DriverState == [pc : {"reset", "select", "process", "ack"}, blk : EVMBlock]

DownloaderState ==
    [pc : {"init", "loop", "query", "headers", "send", "done"},
     from : 1 .. LastBlock + 1, to : Blocks, last : Blocks,
     logs : SUBSET Header, out : SUBSET EVMBlock,
     tail : BOOLEAN, cancelled : BOOLEAN]

\* Type invariant of the chain, the downloader, the driver and the detector.
TypeOK ==
    /\ ChainTypeOK
    /\ tracked \subseteq Header
    /\ tracked_block \subseteq Header
    /\ det \in DetectorState
    /\ drv \in DriverState
    /\ dl \in DownloaderState
    /\ ch \in Seq(EVMBlock) /\ Len(ch) <= BufferSize
    /\ closed \in BOOLEAN
    /\ block \subseteq EVMBlock
    /\ halted \in BOOLEAN
    /\ restarts \in 0 .. MaxRestarts

Idle       == [pc |-> "idle", snap |-> {}, fin |-> 0, at |-> 0, top |-> 0, detached |-> FALSE]
Stopped    == [pc |-> "done", from |-> 1, to |-> 0, last |-> 0, logs |-> {}, out |-> {},
               tail |-> FALSE, cancelled |-> FALSE]
At(pc)     == [pc |-> pc, blk |-> ZeroBlock]

\* bridgesync.New stores the initial block as an empty block before syncing.
Init ==
    /\ ChainInit
    /\ tracked = {} /\ tracked_block = {} /\ det = Idle
    /\ drv = At("reset")
    /\ dl = Stopped /\ ch = << >> /\ closed = FALSE
    /\ block = {[num |-> InitialBlock, hash |-> chain[InitialBlock], ev |-> FALSE]}
    /\ halted = FALSE
    /\ restarts = 0

-----------------------------------------------------------------------------
(* Tracked headers: memory (headersList) and the tracked_block table.      *)

add(list, h) == {x \in list : x.num # h.num} \cup {h}

removeRange(list, from, to) == {x \in list : ~(from <= x.num /\ x.num <= to)}

\* The statement is DELETE ... WHERE num >= $1 AND NUM <= 2 AND subscriber_id = $3:
\* the upper bound is the literal 2, not the argument.
removeTrackedBlockRange(rows, from, to) ==
    {r \in rows : ~(r.num >= from /\ r.num <= 2)}

\* A list that has become empty is replaced by a new object, so a scan that is
\* under way keeps an old one.
AddBlockToTrack(b) ==
    LET h == [num |-> b.num, hash |-> b.hash] IN
    IF h \in tracked
    THEN UNCHANGED detVars
    ELSE /\ tracked' = add(tracked, h)
         /\ tracked_block' = add(tracked_block, h)
         /\ det' = [det EXCEPT !.detached = @ \/ (tracked = {} /\ det.pc # "idle")]

-----------------------------------------------------------------------------
(* EVMDownloader.Download                                                  *)

\* Chunks hold ChunkSize + 1 blocks: toBlock is inclusive.
ToBlock == IF dl.from + ChunkSize > dl.last THEN dl.last ELSE dl.from + ChunkSize

\* GetBlockHeader under a cancelled context: Download returns without closing.
Abandon == dl' = [dl EXCEPT !.pc = "done"] /\ UNCHANGED <<ch, closed>>

\* Mutant of WaitForNewBlocks: a single new block is not noticed.
WaitForNewBlocksLate ==
    /\ ~dl.cancelled
    /\ \/ dl.pc = "init" /\ head > 0
       \/ dl.pc = "loop" /\ dl.from > ToBlock /\ head > dl.from
    /\ dl' = [dl EXCEPT !.pc = "loop", !.last = head]
    /\ UNCHANGED <<ch, closed>>

WaitForNewBlocks ==
    /\ ~dl.cancelled
    /\ \/ dl.pc = "init" /\ head > 0
       \/ dl.pc = "loop" /\ dl.from > ToBlock /\ head > dl.from - 1
    /\ dl' = [dl EXCEPT !.pc = "loop", !.last = head]
    /\ UNCHANGED <<ch, closed>>

CloseChannel ==
    /\ dl.cancelled /\ dl.pc \in {"init", "loop"}
    /\ dl' = [dl EXCEPT !.pc = "done"]
    /\ closed' = TRUE
    /\ UNCHANGED ch

StartRange ==
    /\ ~dl.cancelled /\ dl.pc = "loop" /\ dl.from <= ToBlock
    /\ dl' = [dl EXCEPT !.pc = "query", !.to = ToBlock]
    /\ UNCHANGED <<ch, closed>>

\* Mutant of GetLogs: the query starts one block late.
GetLogsLate ==
    /\ dl.pc = "query" /\ ~dl.cancelled
    /\ LET logs == {HeaderByNumber(n) : n \in {m \in dl.from + 1 .. dl.to :
                                                m <= head /\ chain[m].ev}} IN
       dl' = [dl EXCEPT !.pc = IF logs = {} THEN "send" ELSE "headers",
                        !.logs = logs, !.out = {}, !.tail = logs = {}]
    /\ UNCHANGED <<ch, closed>>

GetLogs ==
    /\ dl.pc = "query"
    /\ IF dl.cancelled THEN Abandon
       ELSE LET logs == {HeaderByNumber(n) : n \in {m \in dl.from .. dl.to :
                                                     m <= head /\ chain[m].ev}} IN
            /\ dl' = [dl EXCEPT !.pc = IF logs = {} THEN "send" ELSE "headers",
                                !.logs = logs, !.out = {}, !.tail = logs = {}]
            /\ UNCHANGED <<ch, closed>>

\* The header of the next block with logs is fetched; a changed hash restarts
\* the range.
CheckLogHeader ==
    /\ dl.pc = "headers"
    /\ IF dl.cancelled THEN Abandon
       ELSE LET l == Lowest(dl.logs) IN
            /\ l.num <= head
            /\ dl' = IF l.hash # chain[l.num]
                     THEN [dl EXCEPT !.pc = "query", !.logs = {}, !.out = {}]
                     ELSE [dl EXCEPT !.pc = IF dl.logs = {l} THEN "send" ELSE "headers",
                                     !.logs = @ \ {l},
                                     !.out = @ \cup {[num |-> l.num, hash |-> l.hash, ev |-> TRUE]},
                                     !.tail = l.num < dl.to]
            /\ UNCHANGED <<ch, closed>>

SendBlock ==
    /\ dl.pc = "send" /\ dl.out # {}
    /\ Len(ch) < BufferSize
    /\ LET b == Lowest(dl.out) IN
       /\ ch' = Append(ch, b)
       /\ dl' = IF dl.out = {b} /\ ~dl.tail
                THEN [dl EXCEPT !.pc = "loop", !.out = {}, !.from = dl.to + 1]
                ELSE [dl EXCEPT !.out = @ \ {b}]
    /\ UNCHANGED closed

\* The last block of the range had no logs: its header is sent without events.
GetTailHeader ==
    /\ dl.pc = "send" /\ dl.out = {} /\ dl.tail
    /\ IF dl.cancelled THEN Abandon
       ELSE /\ dl.to <= head
            /\ dl' = [dl EXCEPT !.out = {[num |-> dl.to, hash |-> chain[dl.to], ev |-> FALSE]},
                                !.tail = FALSE]
            /\ UNCHANGED <<ch, closed>>

Download ==
    /\ \/ WaitForNewBlocks \/ CloseChannel \/ StartRange \/ GetLogs
       \/ CheckLogHeader \/ SendBlock \/ GetTailHeader
    /\ UNCHANGED <<chainVars, detVars, drv, block, halted, restarts>>

-----------------------------------------------------------------------------
(* EVMDriver.Sync and the processor                                        *)

getLastProcessedBlock == Max({0} \cup Nums(block))

\* Mutant of StartSync: the last processed block is downloaded again.
StartSyncAgain ==
    /\ drv.pc = "reset"
    /\ drv' = At("select")
    /\ dl' = [Stopped EXCEPT !.pc = "init", !.from = getLastProcessedBlock]
    /\ ch' = << >> /\ closed' = FALSE
    /\ UNCHANGED <<chainVars, detVars, block, halted, restarts>>

StartSync ==
    /\ drv.pc = "reset"
    /\ drv' = At("select")
    /\ dl' = [Stopped EXCEPT !.pc = "init", !.from = getLastProcessedBlock + 1]
    /\ ch' = << >> /\ closed' = FALSE
    /\ UNCHANGED <<chainVars, detVars, block, halted, restarts>>

\* Receiving from a closed, drained channel yields the zero block.
ReceiveBlock ==
    /\ drv.pc = "select"
    /\ \/ ch # << >> /\ drv' = [pc |-> "process", blk |-> Head(ch)] /\ ch' = Tail(ch)
       \/ ch = << >> /\ closed /\ drv' = [pc |-> "process", blk |-> ZeroBlock] /\ UNCHANGED ch
    /\ AddBlockToTrack(drv'.blk)
    /\ UNCHANGED <<chainVars, dl, closed, block, halted, restarts>>

\* processor.ProcessBlock committing: INSERT INTO block fails for a stored
\* number, and the driver retries for ever.
ProcessBlock ==
    /\ drv.pc = "process" /\ ~halted
    /\ drv.blk.num \notin Nums(block)
    /\ block' = block \cup {drv.blk}
    /\ drv' = At("select")
    /\ UNCHANGED <<chainVars, detVars, dlVars, halted, restarts>>

\* ErrInconsistentState: the transaction is rolled back and the downloader is
\* cancelled.  A halted processor refuses every block; otherwise the check of
\* UpdateL1InfoTreeV2 fails on a block with events that the table can take.
HaltProcessor ==
    /\ drv.pc = "process"
    /\ halted \/ (drv.blk \in HaltBlocks /\ drv.blk.ev /\ drv.blk.num \notin Nums(block))
    /\ halted' = TRUE
    /\ dl' = [dl EXCEPT !.cancelled = TRUE]
    /\ drv' = At("select")
    /\ UNCHANGED <<chainVars, detVars, ch, closed, block, restarts>>

\* processor.Reorg: the blocks from first on are deleted.  Only a deletion that
\* finds rows clears halted.
Reorg(first) ==
    /\ block' = {b \in block : b.num < first}
    /\ halted' = (halted /\ block' = block)

\* The detector hands over the reorged block; handleReorg stops the downloader,
\* rolls the processor back and then blocks until ReorgProcessed is taken.
HandleReorg ==
    /\ drv.pc = "select" /\ det.pc = "notify"
    /\ dl' = Stopped /\ ch' = << >> /\ closed' = FALSE
    /\ Reorg(det.at)
    /\ drv' = At("ack")
    /\ det' = [det EXCEPT !.pc = "await"]
    /\ UNCHANGED <<chainVars, tracked, tracked_block, restarts>>

ReorgProcessed ==
    /\ drv.pc = "ack" /\ det.pc = "await"
    /\ drv' = At("reset")
    /\ det' = [det EXCEPT !.pc = "remove"]
    /\ UNCHANGED <<chainVars, tracked, tracked_block, dlVars, block, halted, restarts>>

-----------------------------------------------------------------------------
(* detectReorgInTrackedList, for this subscriber                           *)

DetectReorg ==
    /\ det.pc = "idle"
    /\ det' = IF tracked = {} THEN Idle
              ELSE [Idle EXCEPT !.pc = "scan", !.snap = tracked, !.fin = finalized]
    /\ UNCHANGED <<chainVars, tracked, tracked_block, drv, dlVars, block, halted, restarts>>

\* Mutant of CheckHeader: a matching header is dropped before it is final.
CheckHeaderDropsMatching ==
    /\ det.pc = "scan"
    /\ LET h == Lowest(det.snap) IN
       IF h.num > head
       THEN det' = Idle /\ UNCHANGED <<tracked, tracked_block>>
       ELSE IF h.hash = chain[h.num]
       THEN /\ tracked' = removeRange(tracked, h.num, h.num)
            /\ det' = IF det.snap = {h} THEN Idle ELSE [det EXCEPT !.snap = @ \ {h}]
            /\ UNCHANGED tracked_block
       ELSE /\ det' = [det EXCEPT !.pc = "notify", !.snap = {}, !.at = h.num,
                                 !.top = Max(Nums(det.snap))]
            /\ UNCHANGED <<tracked, tracked_block>>
    /\ UNCHANGED <<chainVars, drv, dlVars, block, halted, restarts>>

\* One header of the sorted snapshot is compared with the chain.  A header the
\* client does not have ends the scan with an error.
CheckHeader ==
    /\ det.pc = "scan"
    /\ LET h == Lowest(det.snap) IN
       IF h.num > head
       THEN det' = Idle /\ UNCHANGED <<tracked, tracked_block>>
       ELSE IF h.hash = chain[h.num]
       THEN /\ tracked' = IF h.num <= det.fin /\ ~det.detached
                          THEN removeRange(tracked, h.num, h.num) ELSE tracked
            /\ tracked_block' = removeTrackedBlockRange(tracked_block, h.num, h.num)
            /\ det' = IF det.snap = {h} THEN Idle ELSE [det EXCEPT !.snap = @ \ {h}]
       ELSE /\ det' = [det EXCEPT !.pc = "notify", !.snap = {}, !.at = h.num,
                                 !.top = Max(Nums(det.snap))]
            /\ UNCHANGED <<tracked, tracked_block>>
    /\ UNCHANGED <<chainVars, drv, dlVars, block, halted, restarts>>

\* After ReorgProcessed: the reorged block and the following ones, up to the
\* last of the snapshot, stop being tracked.
RemoveReorged ==
    /\ det.pc = "remove"
    /\ tracked_block' = removeTrackedBlockRange(tracked_block, det.at, det.top)
    /\ tracked' = IF det.detached THEN tracked ELSE removeRange(tracked, det.at, det.top)
    /\ det' = Idle
    /\ UNCHANGED <<chainVars, drv, dlVars, block, halted, restarts>>

-----------------------------------------------------------------------------
\* The process is killed and started again: only the databases survive, and
\* loadTrackedHeaders fills the list from the table.
Restart ==
    /\ restarts < MaxRestarts
    /\ restarts' = restarts + 1
    /\ tracked' = tracked_block /\ det' = Idle
    /\ drv' = At("reset")
    /\ dl' = Stopped /\ ch' = << >> /\ closed' = FALSE
    /\ halted' = FALSE
    /\ UNCHANGED <<chainVars, tracked_block, block>>

Environment ==
    /\ MineBlock \/ Finalize \/ \E n \in Blocks : ReorgChain(n)
    /\ UNCHANGED <<detVars, drv, dlVars, block, halted, restarts>>

Driver   == StartSync \/ ReceiveBlock \/ ProcessBlock \/ HaltProcessor
Detector == DetectReorg \/ CheckHeader \/ RemoveReorged

Next == Environment \/ Download \/ Driver \/ HandleReorg \/ ReorgProcessed \/ Detector \/ Restart

Spec == Init /\ [][Next]_vars

\* Goroutines that can run do run.  Sync's select takes a ready case at random,
\* so a notification offered again and again is taken; the chain grows.
Fairness ==
    /\ WF_vars(Download)
    /\ WF_vars(Driver)
    /\ SF_vars(HandleReorg)
    /\ WF_vars(ReorgProcessed)
    /\ WF_vars(Detector)
    /\ WF_vars(MineBlock /\ UNCHANGED <<detVars, drv, dlVars, block, halted, restarts>>)

FairSpec == Spec /\ Fairness

-----------------------------------------------------------------------------
(* Properties                                                              *)

InProcess == IF drv.pc = "process" THEN {drv.blk} ELSE {}

\* A block handed to a processor that can take it is above every stored block:
\* the INSERT of ProcessBlock never meets its own number, which the driver
\* would retry for ever, and blocks are stored in the order of the chain.
NoDuplicateBlock ==
    (drv.pc = "process" /\ ~halted) => drv.blk.num > getLastProcessedBlock

\* A block that has been canonical since it was mined and carries events is
\* stored with its events once the processor is past its number, whatever
\* ranges the downloader was cut into and whatever was rolled back meanwhile.
NoEventSkipped ==
    \A n \in InitialBlock + 1 .. head :
        (n <= getLastProcessedBlock /\ chain[n] = [fork |-> 0, ev |-> TRUE])
            => \E b \in block : b.num = n /\ b.ev

\* A stored block that the chain has abandoned can still be found out: the
\* detector tracks an abandoned block at or below it.
StaleIsTracked ==
    \A b \in block : b.hash # chain[b.num] =>
        \E h \in tracked : h.num <= b.num /\ h.hash # chain[h.num]

\* Once reorganisations stop, the processor ends with the whole chain and
\* nothing of an abandoned branch.
Converges ==
    <>[](/\ getLastProcessedBlock = LastBlock
         /\ \A b \in block : b.hash = chain[b.num])

-----------------------------------------------------------------------------
(* The invariant that makes NoDuplicateBlock inductive                     *)

Distinct(S) == \A x, y \in S : x.num = y.num => x = y
Done        == {0} \cup Nums(block)

\* Everything stored, in the driver's hands or in the channel is below n.
Below(n) ==
    /\ \A m \in Done : m < n
    /\ drv.pc = "process" => drv.blk.num < n
    /\ \A i \in 1 .. Len(ch) : ch[i].num < n

\* Between two downloads there is no channel to read from.
QuietInv ==
    drv.pc \in {"reset", "ack"} => dl.pc = "done" /\ ch = << >> /\ ~closed

\* A loop that is still running has something left to look at.
WorkInv ==
    /\ dl.pc = "headers" => dl.logs # {}
    /\ det.pc = "scan" => det.snap # {}

\* Only a halted processor cancels the downloader without replacing it.
HaltInv == (dl.cancelled \/ closed) => halted

ChannelOrder ==
    /\ drv.pc = "process" => \A m \in Done : m < drv.blk.num
    /\ \A i \in 1 .. Len(ch) :
          /\ \A m \in Done : m < ch[i].num
          /\ drv.pc = "process" => drv.blk.num < ch[i].num
          /\ \A j \in 1 .. Len(ch) : i < j => ch[i].num < ch[j].num

DownloadOrder ==
    /\ dl.pc \in {"init", "loop", "query", "headers"} => Below(dl.from)
    /\ dl.pc \in {"query", "headers"} => dl.from <= dl.to
    /\ dl.pc = "headers" =>
          /\ Distinct(dl.logs) /\ Distinct(dl.out)
          /\ \A h \in dl.logs : dl.from <= h.num /\ h.num <= dl.to
          /\ \A b \in dl.out : dl.from <= b.num /\ \A h \in dl.logs : b.num < h.num
    /\ dl.pc = "send" =>
          /\ Distinct(dl.out)
          /\ \A b \in dl.out : Below(b.num) /\ b.num <= dl.to
          /\ Below(dl.to + 1)
          /\ dl.tail => Below(dl.to) /\ \A b \in dl.out : b.num < dl.to

\* Blocks travel from the downloader to the processor in increasing order: the
\* downloader is ahead of the channel, the channel of the driver, and the
\* driver of the table.
OrderInv == ~halted => ChannelOrder /\ DownloadOrder

IInv == TypeOK /\ QuietInv /\ WorkInv /\ HaltInv /\ OrderInv

-----------------------------------------------------------------------------
(* What comments of the code say, and the code does not do                 *)

\* "Remove the reorged block and all the following blocks from memory": once a
\* reorg has been handled the detector does not report the same blocks again,
\* so what it reports is a block the syncer still holds from an abandoned
\* branch.
ReorgIsReal ==
    det.pc = "notify" =>
        \E b \in block \cup InProcess : b.num = det.at /\ b.hash # chain[b.num]

\* "Remove the reorged block and all the following blocks from DB": the table
\* that a restarted detector loads holds no header that memory has dropped.
RowsFollowMemory == tracked_block \subseteq tracked

\* "Indicate the last downloaded block if there are not events on it": a block
\* delivered without events has none.
TailHasNoEvents ==
    \A i \in 1 .. Len(ch) : ch[i].hash.ev => ch[i].ev

\* "Stopping downloader until there is a reorg": a syncer that stops on an
\* inconsistent block keeps what it had stored while the chain has no reorg.
StoppedUntilReorg ==
    forks = 0 => InitialBlock \in Nums(block)

\* "eventually the reorg will get detected, and the syncer will get unhalted":
\* a processor that has handled a reorg is not halted.
ReorgUnhalts == drv.pc = "ack" => ~halted
=============================================================================
