---------------------------- MODULE EVMSyncProofs ----------------------------
(***************************************************************************)
(* Proofs about EVMSync, for every chain length, number of                 *)
(* reorganisations, chunk size, buffer size and number of restarts.        *)
(***************************************************************************)
EXTENDS EVMSync, TLAPS, NaturalsInduction, WellFoundedInduction

-----------------------------------------------------------------------------
(* Facts about the helpers                                                 *)

\* A set of block numbers that is not empty has a smallest element.
LEMMA SmallestExists ==
    ASSUME NEW S \in SUBSET Nat, S # {}
    PROVE  \E x \in S : \A y \in S : x <= y
<1>1. IsWellFoundedOn(OpToRel(<, Nat), Nat)
  BY NatLessThanWellFounded, Zenon
<1>2. PICK x \in S : \A y \in S : ~(<<y, x>> \in OpToRel(<, Nat))
  BY <1>1, WFMin, Zenon
<1>3. \A y \in S : ~(y < x)
  BY <1>2, Zenon DEF OpToRel
<1>. QED  BY <1>3

\* Max, as the last processed block uses it, is the largest element of a set
\* of block numbers.
LEMMA MaxProp ==
    ASSUME NEW S \in SUBSET Blocks, S # {}
    PROVE  Max(S) \in S /\ \A y \in S : y <= Max(S)
<1>. DEFINE T == {LastBlock - y : y \in S}
<1>a. \A y \in S : LastBlock - y \in Nat
  BY ChainAssumption DEF Blocks
<1>1. T \in SUBSET Nat /\ T # {}
  BY <1>a, Zenon
<1>2. PICK t \in T : \A u \in T : t <= u
  BY <1>1, SmallestExists, Zenon
<1>3. PICK x \in S : t = LastBlock - x
  BY <1>2, Zenon
<1>b. \A y \in S : LastBlock - x <= LastBlock - y
  BY <1>2, <1>3, Zenon
<1>4. \A y \in S : x >= y
  BY <1>b, ChainAssumption DEF Blocks
<1>5. Max(S) \in S /\ \A y \in S : Max(S) >= y
  BY <1>4, Zenon DEF Max
<1>. QED  BY <1>5, ChainAssumption, Zenon DEF Blocks

\* Lowest picks the element with the smallest block number.
LEMMA LowestProp ==
    ASSUME NEW S, S # {}, \A x \in S : x.num \in Nat
    PROVE  Lowest(S) \in S /\ \A y \in S : Lowest(S).num <= y.num
<1>1. Nums(S) \in SUBSET Nat /\ Nums(S) # {}
  BY Zenon DEF Nums
<1>2. PICK n \in Nums(S) : \A m \in Nums(S) : n <= m
  BY <1>1, SmallestExists, Zenon
<1>3. PICK x \in S : x.num = n
  BY Zenon DEF Nums
<1>4. \A y \in S : x.num <= y.num
  BY <1>2, <1>3, Zenon DEF Nums
<1>. QED  BY <1>4, Zenon DEF Lowest

\* The last processed block is a block number, and no stored block is above it.
LEMMA LastProcessedProp ==
    ASSUME TypeOK
    PROVE  /\ getLastProcessedBlock \in Blocks
           /\ getLastProcessedBlock \in Done
           /\ \A m \in Done : m <= getLastProcessedBlock
<1>1. Done \in SUBSET Blocks /\ Done # {}
  BY ChainAssumption DEF TypeOK, Done, Nums, EVMBlock, Blocks
<1>2. getLastProcessedBlock = Max(Done)
  BY Zenon DEF getLastProcessedBlock, Done
<1>. QED  BY <1>1, <1>2, MaxProp, Zenon

-----------------------------------------------------------------------------
(* Type correctness                                                        *)

\* A new downloadCh, as Sync makes one, is a channel within its buffer.
LEMMA EmptyChannel == << >> \in Seq(EVMBlock) /\ Len(<< >>) <= BufferSize
  BY SyncAssumption

\* The types hold when NewEVMDriver and Start have run.
LEMMA InitType == Init => TypeOK
<1>. USE ChainAssumption, SyncAssumption
<1>. SUFFICES ASSUME Init PROVE TypeOK
  BY Zenon
<1>1. [fork |-> 0, ev |-> FALSE] \in Hash /\ InitialBlock \in Blocks /\ 0 \in Blocks
  BY DEF Hash, Blocks
<1>2. ChainTypeOK
  BY <1>1 DEF Init, ChainInit, ChainTypeOK, Blocks
<1>3. ZeroBlock \in EVMBlock
  BY <1>1, Zenon DEF ZeroBlock, EVMBlock
<1>4. block \subseteq EVMBlock
  BY <1>1, <1>2 DEF Init, EVMBlock, ChainTypeOK
<1>5. ch \in Seq(EVMBlock) /\ Len(ch) <= BufferSize
  BY DEF Init
<1>6. det \in DetectorState
  BY <1>1, Zenon DEF Init, Idle, DetectorState
<1>7. drv \in DriverState
  BY <1>3, Zenon DEF Init, At, DriverState
<1>8. dl \in DownloaderState
  BY <1>1 DEF Init, Stopped, DownloaderState
<1>9. restarts \in 0 .. MaxRestarts /\ tracked \subseteq Header /\ tracked_block \subseteq Header
  BY DEF Init
<1>10. closed \in BOOLEAN /\ halted \in BOOLEAN
  BY Zenon DEF Init
<1>. QED  BY <1>2, <1>4, <1>5, <1>6, <1>7, <1>8, <1>9, <1>10, Zenon DEF TypeOK

\* Mining, finalizing and reorganising the chain keep the types.
LEMMA EnvironmentType == ASSUME IInv, Environment PROVE TypeOK'
<1>. USE ChainAssumption, SyncAssumption
<1>1. ChainTypeOK'
  <2>1. CASE MineBlock
    BY <2>1 DEF IInv, TypeOK, ChainTypeOK, MineBlock, Hash, Blocks
  <2>2. CASE Finalize
    BY <2>2 DEF IInv, TypeOK, ChainTypeOK, Finalize, Blocks
  <2>3. ASSUME NEW n \in Blocks, ReorgChain(n) PROVE ChainTypeOK'
    BY <2>3 DEF IInv, TypeOK, ChainTypeOK, ReorgChain, Hash, Blocks
  <2>. QED  BY <2>1, <2>2, <2>3, Zenon DEF Environment
<1>. QED  BY <1>1, Zenon DEF Environment, IInv, TypeOK, detVars, dlVars

\* The steps of EVMDownloader.Download keep the types.
LEMMA DownloadType == ASSUME IInv, Download PROVE TypeOK'
<1>. USE ChainAssumption, SyncAssumption
<1>0. TypeOK /\ ChainTypeOK /\ WorkInv
  BY Zenon DEF IInv, TypeOK
<1>1. ChainTypeOK' /\ UNCHANGED <<tracked, tracked_block, det, drv, block, halted, restarts>>
  BY <1>0, Zenon DEF Download, chainVars, detVars, ChainTypeOK
<1>. SUFFICES /\ dl' \in DownloaderState
              /\ ch' \in Seq(EVMBlock) /\ Len(ch') <= BufferSize
              /\ closed' \in BOOLEAN
  BY <1>0, <1>1, Zenon DEF TypeOK
<1>a. ASSUME Abandon PROVE dl' \in DownloaderState /\ UNCHANGED <<ch, closed>>
  BY <1>0, <1>a, Zenon DEF Abandon, TypeOK, DownloaderState
<1>2. CASE WaitForNewBlocks
  BY <1>0, <1>2, Zenon DEF WaitForNewBlocks, TypeOK, ChainTypeOK, DownloaderState
<1>3. CASE CloseChannel
  BY <1>0, <1>3, Zenon DEF CloseChannel, TypeOK, DownloaderState
<1>4. CASE StartRange
  <2>1. ToBlock \in Blocks
    BY <1>0 DEF TypeOK, DownloaderState, ToBlock, Blocks
  <2>. QED  BY <1>0, <1>4, <2>1, Zenon DEF StartRange, TypeOK, DownloaderState
<1>5. CASE GetLogs
  <2>. DEFINE logs == {HeaderByNumber(n) : n \in {m \in dl.from .. dl.to :
                                                   m <= head /\ chain[m].ev}}
  <2>1. logs \subseteq Header
    <3>1. dl.from \in 1 .. LastBlock + 1 /\ dl.to \in Blocks
      BY <1>0, Zenon DEF TypeOK, DownloaderState
    <3>2. \A m \in dl.from .. dl.to : m \in Blocks
      BY <3>1 DEF Blocks
    <3>3. \A m \in Blocks : HeaderByNumber(m) \in Header
      BY <1>0, Zenon DEF ChainTypeOK, HeaderByNumber, Header
    <3>. QED  BY <3>2, <3>3, Zenon
  <2>2. CASE dl.cancelled
    BY <1>0, <1>5, <1>a, <2>2, Zenon DEF GetLogs, TypeOK
  <2>3. CASE ~dl.cancelled
    <3>1. dl' = [dl EXCEPT !.pc = IF logs = {} THEN "send" ELSE "headers",
                           !.logs = logs, !.out = {}, !.tail = logs = {}]
      BY <1>5, <2>3, Zenon DEF GetLogs
    <3>. HIDE DEF logs
    <3>2. dl' \in DownloaderState
      BY <1>0, <2>1, <3>1, Zenon DEF TypeOK, DownloaderState
    <3>. QED  BY <1>0, <1>5, <2>3, <3>2, Zenon DEF GetLogs, TypeOK
  <2>. QED  BY <2>2, <2>3, Zenon
<1>6. CASE CheckLogHeader
  <2>. DEFINE l == Lowest(dl.logs)
  <2>1. CASE dl.cancelled
    BY <1>0, <1>6, <1>a, <2>1, Zenon DEF CheckLogHeader, TypeOK
  <2>2. CASE ~dl.cancelled
    <3>1. l \in Header
      <4>1. dl.logs # {} /\ \A x \in dl.logs : x.num \in Nat
        <5>1. dl.logs # {} /\ \A x \in dl.logs : x.num \in Blocks
          BY <1>0, <1>6, Zenon DEF CheckLogHeader, WorkInv, TypeOK, DownloaderState, Header
        <5>2. \A n \in Blocks : n \in Nat
          BY DEF Blocks
        <5>. QED  BY <5>1, <5>2, Zenon
      <4>. QED  BY <1>0, <4>1, LowestProp, Zenon DEF TypeOK, DownloaderState
    <3>2. [num |-> l.num, hash |-> l.hash, ev |-> TRUE] \in EVMBlock
      BY <3>1, Zenon DEF Header, EVMBlock
    <3>. HIDE DEF l
    <3>3. CASE l.hash # chain[l.num]
      <4>1. dl' = [dl EXCEPT !.pc = "query", !.logs = {}, !.out = {}] /\ UNCHANGED <<ch, closed>>
        BY <1>6, <2>2, <3>3, Zenon DEF CheckLogHeader, l
      <4>2. dl' \in DownloaderState
        BY <1>0, <4>1, Zenon DEF TypeOK, DownloaderState
      <4>. QED  BY <1>0, <4>1, <4>2, Zenon DEF TypeOK
    <3>4. CASE l.hash = chain[l.num]
      <4>1. dl' = [dl EXCEPT !.pc = IF dl.logs = {l} THEN "send" ELSE "headers",
                             !.logs = @ \ {l},
                             !.out = @ \cup {[num |-> l.num, hash |-> l.hash, ev |-> TRUE]},
                             !.tail = l.num < dl.to]
        BY <1>6, <2>2, <3>4, Zenon DEF CheckLogHeader, l
      <4>. DEFINE out == dl.out \cup {[num |-> l.num, hash |-> l.hash, ev |-> TRUE]}
                  logs == dl.logs \ {l}
                  tail == l.num < dl.to
      <4>c. dl.out \in SUBSET EVMBlock /\ dl.logs \in SUBSET Header
        BY <1>0, Zenon DEF TypeOK, DownloaderState
      <4>a. out \in SUBSET EVMBlock /\ logs \in SUBSET Header
        BY <4>c, <3>2, Zenon
      <4>d. tail \in BOOLEAN
        BY <1>0, <3>1 DEF TypeOK, DownloaderState, Header, Blocks
      <4>b. dl' = [dl EXCEPT !.pc = IF dl.logs = {l} THEN "send" ELSE "headers",
                             !.logs = logs, !.out = out, !.tail = tail]
        BY <4>1, Zenon
      <4>. HIDE DEF out, logs, tail
      <4>2. dl' \in DownloaderState
        BY <1>0, <4>a, <4>b, <4>d, Zenon DEF TypeOK, DownloaderState
      <4>. QED  BY <1>0, <1>6, <2>2, <4>2, Zenon DEF CheckLogHeader, TypeOK
    <3>. QED  BY <3>3, <3>4, Zenon
  <2>. QED  BY <2>1, <2>2, Zenon
<1>7. CASE SendBlock
  <2>. DEFINE b == Lowest(dl.out)
  <2>1. b \in EVMBlock
    <3>1. dl.out # {}
      BY <1>7, Zenon DEF SendBlock
    <3>2. \A x \in dl.out : x.num \in Nat
      BY <1>0 DEF TypeOK, DownloaderState, EVMBlock, Blocks
    <3>. QED  BY <1>0, <3>1, <3>2, LowestProp, Zenon DEF TypeOK, DownloaderState
  <2>2. ch' \in Seq(EVMBlock) /\ Len(ch') <= BufferSize
    BY <1>0, <1>7, <2>1 DEF SendBlock, TypeOK
  <2>3. dl.to + 1 \in 1 .. LastBlock + 1
    BY <1>0 DEF TypeOK, DownloaderState, Blocks
  <2>4. dl' \in DownloaderState
    BY <1>0, <1>7, <2>1, <2>3, Zenon DEF SendBlock, TypeOK, DownloaderState
  <2>. QED  BY <1>0, <1>7, <2>2, <2>4, Zenon DEF SendBlock, TypeOK
<1>8. CASE GetTailHeader
  <2>1. [num |-> dl.to, hash |-> chain[dl.to], ev |-> FALSE] \in EVMBlock
    BY <1>0, Zenon DEF TypeOK, DownloaderState, ChainTypeOK, EVMBlock
  <2>2. CASE dl.cancelled
    BY <1>0, <1>8, <1>a, <2>2, Zenon DEF GetTailHeader, TypeOK
  <2>3. CASE ~dl.cancelled
    <3>. DEFINE out == {[num |-> dl.to, hash |-> chain[dl.to], ev |-> FALSE]}
    <3>a. out \in SUBSET EVMBlock
      BY <2>1, Zenon
    <3>b. dl' = [dl EXCEPT !.out = out, !.tail = FALSE]
      BY <1>8, <2>3, Zenon DEF GetTailHeader
    <3>. HIDE DEF out
    <3>1. dl' \in DownloaderState
      BY <1>0, <3>a, <3>b, Zenon DEF TypeOK, DownloaderState
    <3>. QED  BY <1>0, <1>8, <2>3, <3>1, Zenon DEF GetTailHeader, TypeOK
  <2>. QED  BY <2>2, <2>3, Zenon
<1>. QED  BY <1>2, <1>3, <1>4, <1>5, <1>6, <1>7, <1>8, Zenon DEF Download

\* The steps of Sync and handleNewBlock keep the types.
LEMMA DriverType == ASSUME IInv, Driver PROVE TypeOK'
<1>. USE ChainAssumption, SyncAssumption
<1>0. TypeOK /\ ChainTypeOK
  BY Zenon DEF IInv, TypeOK
<1>1. ChainTypeOK' /\ UNCHANGED restarts
  BY <1>0, Zenon
     DEF Driver, StartSync, ReceiveBlock, ProcessBlock, HaltProcessor, chainVars, ChainTypeOK
<1>a. ZeroBlock \in EVMBlock /\ 0 \in Blocks
  BY DEF ZeroBlock, EVMBlock, Blocks
<1>b. At("select") \in DriverState
  BY <1>a, Zenon DEF At, DriverState
<1>2. CASE StartSync
  <2>a. getLastProcessedBlock + 1 \in 1 .. LastBlock + 1
    BY <1>0, LastProcessedProp DEF Blocks
  <2>1. dl' \in DownloaderState
    BY <1>2, <1>a, <2>a, Zenon DEF StartSync, Stopped, DownloaderState
  <2>2. drv' \in DriverState
    BY <1>2, <1>b, Zenon DEF StartSync
  <2>3. ch' \in Seq(EVMBlock) /\ Len(ch') <= BufferSize /\ closed' \in BOOLEAN
    BY EmptyChannel, <1>2, Zenon DEF StartSync
  <2>. QED  BY <1>0, <1>1, <1>2, <2>1, <2>2, <2>3, Zenon DEF StartSync, TypeOK, detVars
<1>3. CASE ReceiveBlock
  <2>1. drv'.blk \in EVMBlock /\ drv' \in DriverState
    BY <1>0, <1>3, <1>a DEF ReceiveBlock, TypeOK, DriverState
  <2>2. ch' \in Seq(EVMBlock) /\ Len(ch') <= BufferSize
    BY <1>0, <1>3 DEF ReceiveBlock, TypeOK
  <2>. DEFINE b == drv'.blk
              h == [num |-> b.num, hash |-> b.hash]
  <2>3. h \in Header
    BY <2>1, Zenon DEF EVMBlock, Header
  <2>4. tracked' \subseteq Header /\ tracked_block' \subseteq Header /\ det' \in DetectorState
    <3>1. CASE h \in tracked
      BY <1>0, <1>3, <3>1, Zenon DEF ReceiveBlock, AddBlockToTrack, TypeOK, detVars
    <3>2. CASE h \notin tracked
      <4>1. tracked' = add(tracked, h) /\ tracked_block' = add(tracked_block, h)
        BY <1>3, <3>2, Zenon DEF ReceiveBlock, AddBlockToTrack
      <4>2. det' = [det EXCEPT !.detached = @ \/ (tracked = {} /\ det.pc # "idle")]
        BY <1>3, <3>2, Zenon DEF ReceiveBlock, AddBlockToTrack
      <4>. HIDE DEF h
      <4>3. tracked' \subseteq Header /\ tracked_block' \subseteq Header
        BY <1>0, <2>3, <4>1, Zenon DEF add, TypeOK
      <4>. DEFINE d == det.detached \/ (tracked = {} /\ det.pc # "idle")
      <4>4. d \in BOOLEAN /\ det' = [det EXCEPT !.detached = d]
        BY <4>2, Zenon
      <4>. HIDE DEF d
      <4>5. det' \in DetectorState
        BY <1>0, <4>4, Zenon DEF TypeOK, DetectorState
      <4>. QED  BY <4>3, <4>5, Zenon
    <3>. QED  BY <3>1, <3>2, Zenon
  <2>. QED  BY <1>0, <1>1, <1>3, <2>1, <2>2, <2>4, Zenon DEF ReceiveBlock, TypeOK
<1>4. CASE ProcessBlock
  <2>1. block' \subseteq EVMBlock
    BY <1>0, <1>4, Zenon DEF ProcessBlock, TypeOK, DriverState
  <2>. QED  BY <1>0, <1>1, <1>4, <1>b, <2>1, Zenon DEF ProcessBlock, TypeOK, detVars, dlVars
<1>5. CASE HaltProcessor
  <2>1. dl' \in DownloaderState
    BY <1>0, <1>5, Zenon DEF HaltProcessor, TypeOK, DownloaderState
  <2>2. halted' \in BOOLEAN
    BY <1>5, Zenon DEF HaltProcessor
  <2>. QED  BY <1>0, <1>1, <1>5, <1>b, <2>1, <2>2, Zenon DEF HaltProcessor, TypeOK, detVars
<1>. QED  BY <1>2, <1>3, <1>4, <1>5, Zenon DEF Driver

\* handleReorg and the answer on ReorgProcessed keep the types.
LEMMA HandshakeType == ASSUME IInv, HandleReorg \/ ReorgProcessed PROVE TypeOK'
<1>. USE ChainAssumption, SyncAssumption
<1>0. TypeOK /\ ChainTypeOK
  BY Zenon DEF IInv, TypeOK
<1>1. ChainTypeOK' /\ UNCHANGED <<tracked, tracked_block, restarts>>
  BY <1>0, Zenon DEF HandleReorg, ReorgProcessed, chainVars, ChainTypeOK
<1>a. ZeroBlock \in EVMBlock /\ 0 \in Blocks
  BY DEF ZeroBlock, EVMBlock, Blocks
<1>2. det' \in DetectorState /\ drv' \in DriverState
  BY <1>0, <1>a DEF HandleReorg, ReorgProcessed, TypeOK, DetectorState, DriverState, At
<1>3. CASE HandleReorg
  <2>1. dl' \in DownloaderState
    BY <1>3, <1>a DEF HandleReorg, Stopped, DownloaderState
  <2>2. ch' \in Seq(EVMBlock) /\ Len(ch') <= BufferSize /\ closed' \in BOOLEAN
    BY EmptyChannel, <1>3, Zenon DEF HandleReorg
  <2>3. block' \subseteq EVMBlock /\ halted' \in BOOLEAN
    BY <1>0, <1>3, Zenon DEF HandleReorg, Reorg, TypeOK
  <2>. QED  BY <1>0, <1>1, <1>2, <2>1, <2>2, <2>3, Zenon DEF TypeOK
<1>4. CASE ReorgProcessed
  BY <1>0, <1>1, <1>2, <1>4, Zenon DEF ReorgProcessed, TypeOK, dlVars
<1>. QED  BY <1>3, <1>4, Zenon

\* The steps of detectReorgInTrackedList keep the types.
LEMMA DetectorType == ASSUME IInv, Detector PROVE TypeOK'
<1>. USE ChainAssumption, SyncAssumption
<1>0. TypeOK /\ ChainTypeOK /\ WorkInv
  BY Zenon DEF IInv, TypeOK
<1>1. ChainTypeOK' /\ UNCHANGED <<drv, dl, ch, closed, block, halted, restarts>>
  BY <1>0, Zenon
     DEF Detector, DetectReorg, CheckHeader, RemoveReorged, chainVars, dlVars, ChainTypeOK
<1>. SUFFICES tracked' \subseteq Header /\ tracked_block' \subseteq Header /\ det' \in DetectorState
  BY <1>0, <1>1, Zenon DEF TypeOK
<1>a. Idle \in DetectorState
  BY DEF Idle, DetectorState, Blocks
<1>2. CASE DetectReorg
  BY <1>0, <1>2, <1>a, Zenon DEF DetectReorg, TypeOK, ChainTypeOK, Idle, DetectorState, Blocks
<1>3. CASE CheckHeader
  <2>. DEFINE h == Lowest(det.snap)
  <2>1. h \in Header
    <3>1. det.snap # {}
      BY <1>0, <1>3, Zenon DEF CheckHeader, WorkInv
    <3>2. \A x \in det.snap : x.num \in Nat
      BY <1>0 DEF TypeOK, DetectorState, Header, Blocks
    <3>. QED  BY <1>0, <3>1, <3>2, LowestProp, Zenon DEF TypeOK, DetectorState
  <2>2. Max(Nums(det.snap)) \in Blocks
    <3>1. Nums(det.snap) \in SUBSET Blocks /\ Nums(det.snap) # {}
      BY <1>0, <1>3 DEF CheckHeader, WorkInv, TypeOK, DetectorState, Header, Nums
    <3>. QED  BY <3>1, MaxProp, Zenon
  <2>3. tracked' \subseteq Header /\ tracked_block' \subseteq Header
    BY <1>0, <1>3, Zenon DEF CheckHeader, TypeOK, removeRange, removeTrackedBlockRange
  <2>. DEFINE top == Max(Nums(det.snap))
  <2>4. \/ det' = Idle
        \/ det' = [det EXCEPT !.snap = @ \ {h}]
        \/ det' = [det EXCEPT !.pc = "notify", !.snap = {}, !.at = h.num, !.top = top]
    BY <1>3, Zenon DEF CheckHeader
  <2>5. h.num \in Blocks
    BY <2>1, Zenon DEF Header
  <2>. HIDE DEF h, top
  <2>6. det' \in DetectorState
    BY <1>0, <1>a, <2>2, <2>4, <2>5, ZenonT(30) DEF TypeOK, DetectorState, top
  <2>. QED  BY <2>3, <2>6, Zenon
<1>4. CASE RemoveReorged
  BY <1>0, <1>4, <1>a, Zenon DEF RemoveReorged, TypeOK, removeRange, removeTrackedBlockRange
<1>. QED  BY <1>2, <1>3, <1>4, Zenon DEF Detector

\* A restart of the process keeps the types.
LEMMA RestartType == ASSUME IInv, Restart PROVE TypeOK'
<1>. USE ChainAssumption, SyncAssumption
<1>0. TypeOK /\ ChainTypeOK
  BY Zenon DEF IInv, TypeOK
<1>1. ChainTypeOK'
  BY <1>0, Zenon DEF Restart, chainVars, ChainTypeOK
<1>a. ZeroBlock \in EVMBlock /\ 0 \in Blocks
  BY DEF ZeroBlock, EVMBlock, Blocks
<1>2. det' \in DetectorState /\ drv' \in DriverState /\ dl' \in DownloaderState
  BY <1>a DEF Restart, Idle, At, Stopped, DetectorState, DriverState, DownloaderState
<1>3. ch' \in Seq(EVMBlock) /\ Len(ch') <= BufferSize /\ closed' \in BOOLEAN /\ halted' \in BOOLEAN
  BY EmptyChannel, Zenon DEF Restart
<1>4. restarts' \in 0 .. MaxRestarts
  BY <1>0 DEF Restart, TypeOK
<1>. QED  BY <1>0, <1>1, <1>2, <1>3, <1>4, Zenon DEF Restart, TypeOK

-----------------------------------------------------------------------------
(* The control part of the invariant: QuietInv, WorkInv, HaltInv           *)

\* Every step keeps what the program counters say of the flags: a cancelled or
\* halted download stays so, and the driver works on a block only when it has one.
LEMMA ControlStep ==
    ASSUME IInv, [Next]_vars
    PROVE  QuietInv' /\ WorkInv' /\ HaltInv'
<1>. USE DEF QuietInv, WorkInv, HaltInv
<1>0. QuietInv /\ WorkInv /\ HaltInv /\ TypeOK
  BY Zenon DEF IInv
<1>1. CASE Environment \/ UNCHANGED vars
  BY <1>0, <1>1 DEF Environment, vars, detVars, dlVars
<1>2. CASE Download
  <2>1. UNCHANGED <<det, drv, halted>>
    BY <1>2, Zenon DEF Download, detVars
  <2>2. dl.pc # "done"
    BY <1>2, Zenon
       DEF Download, WaitForNewBlocks, CloseChannel, StartRange, GetLogs, CheckLogHeader,
               SendBlock, GetTailHeader
  <2>3. QuietInv'
    BY <1>0, <2>1, <2>2, Zenon
  <2>4. dl'.cancelled = dl.cancelled /\ (closed' = closed \/ dl.cancelled)
    BY <1>0, <1>2, ZenonT(30)
       DEF Download, WaitForNewBlocks, CloseChannel, StartRange, GetLogs, CheckLogHeader,
               SendBlock, GetTailHeader, Abandon, TypeOK, DownloaderState
  <2>5. HaltInv'
    BY <1>0, <2>1, <2>4, Zenon
  <2>6. ASSUME dl'.pc = "headers" PROVE dl'.logs # {}
    <3>1. CASE WaitForNewBlocks \/ CloseChannel \/ StartRange \/ SendBlock \/ GetTailHeader
      BY <1>0, <2>6, <3>1, Zenon DEF WaitForNewBlocks, CloseChannel, StartRange, SendBlock,
                              GetTailHeader, Abandon, TypeOK, DownloaderState
    <3>2. CASE GetLogs
      BY <1>0, <2>6, <3>2, ZenonT(30) DEF GetLogs, Abandon, TypeOK, DownloaderState
    <3>3. CASE CheckLogHeader
      <4>. DEFINE l == Lowest(dl.logs)
      <4>1. dl.logs # {} /\ \A x \in dl.logs : x.num \in Nat
        BY <1>0, <3>3 DEF CheckLogHeader, TypeOK, DownloaderState, Header, Blocks
      <4>2. l \in dl.logs
        BY <4>1, LowestProp, Zenon
      <4>3. dl.logs # {l} /\ dl'.logs = dl.logs \ {l}
        BY <1>0, <2>6, <3>3, Zenon DEF CheckLogHeader, Abandon, TypeOK, DownloaderState
      <4>. QED  BY <4>2, <4>3, Zenon
    <3>. QED  BY <1>2, <3>1, <3>2, <3>3, Zenon DEF Download
  <2>. QED  BY <1>0, <2>1, <2>3, <2>5, <2>6, Zenon
<1>3. CASE StartSync
  BY <1>0, <1>3, Zenon DEF StartSync, At, Stopped, detVars
<1>4. CASE ReceiveBlock
  <2>1. det'.pc = det.pc /\ det'.snap = det.snap /\ drv'.pc = "process"
    BY <1>0, <1>4 DEF ReceiveBlock, AddBlockToTrack, TypeOK, DetectorState, detVars
  <2>. QED  BY <1>0, <1>4, <2>1, Zenon DEF ReceiveBlock
<1>5. CASE ProcessBlock
  BY <1>0, <1>5, Zenon DEF ProcessBlock, At, detVars, dlVars
<1>6. CASE HaltProcessor
  BY <1>0, <1>6, Zenon DEF HaltProcessor, At, detVars, TypeOK, DownloaderState
<1>7. CASE HandleReorg
  BY <1>0, <1>7, Zenon DEF HandleReorg, At, Stopped, TypeOK, DetectorState
<1>8. CASE ReorgProcessed
  BY <1>0, <1>8, Zenon DEF ReorgProcessed, At, dlVars, TypeOK, DetectorState
<1>9. CASE DetectReorg \/ RemoveReorged
  <2>1. UNCHANGED <<drv, dl, ch, closed, halted>>
    BY <1>9, Zenon DEF DetectReorg, RemoveReorged, dlVars
  <2>a. Idle.pc = "idle"
    BY Zenon DEF Idle
  <2>b. tracked # {} /\ DetectReorg => det'.snap = tracked
    BY Zenon DEF DetectReorg, Idle
  <2>2. det'.pc = "scan" => det'.snap # {}
    BY <1>9, <2>a, <2>b, Zenon DEF DetectReorg, RemoveReorged
  <2>. QED  BY <1>0, <2>1, <2>2, Zenon
<1>10. CASE CheckHeader
  <2>1. Lowest(det.snap) \in det.snap
    <3>1. det.snap # {} /\ \A x \in det.snap : x.num \in Nat
      BY <1>0, <1>10 DEF CheckHeader, TypeOK, DetectorState, Header, Blocks
    <3>. QED  BY <3>1, LowestProp, Zenon
  <2>2. ASSUME det'.pc = "scan" PROVE det'.snap # {}
    <3>. DEFINE h == Lowest(det.snap)
    <3>a. det.snap # {h} /\ det' = [det EXCEPT !.snap = @ \ {h}]
      <4>1. det' # Idle
        BY <2>2 DEF Idle
      <4>2. det'.pc # "notify"
        BY <2>2, Zenon
      <4>3. ~(h.num > head) /\ h.hash = chain[h.num]
        BY <1>0, <1>10, <4>1, <4>2, Zenon DEF CheckHeader, TypeOK, DetectorState
      <4>. QED  BY <1>10, <4>1, <4>3, Zenon DEF CheckHeader
    <3>1. det.snap # {h} /\ det'.snap = det.snap \ {h}
      BY <1>0, <3>a, Zenon DEF TypeOK, DetectorState
    <3>. QED  BY <2>1, <3>1, Zenon
  <2>. QED  BY <1>0, <1>10, <2>2, Zenon DEF CheckHeader, dlVars
<1>11. CASE Restart
  BY <1>11, Zenon DEF Restart, At, Stopped, Idle
<1>. QED  BY <1>1, <1>2, <1>3, <1>4, <1>5, <1>6, <1>7, <1>8, <1>9, <1>10, <1>11, Zenon
          DEF Next, Driver, Detector

-----------------------------------------------------------------------------
(* The order of the blocks on their way to the processor                   *)

\* What TypeOK says of the numbers that are compared.
LEMMA Numbers ==
    ASSUME TypeOK
    PROVE  /\ Done \in SUBSET Nat
           /\ drv.blk.num \in Nat
           /\ \A i \in 1 .. Len(ch) : ch[i].num \in Nat
           /\ Len(ch) \in Nat
           /\ dl.from \in Nat /\ dl.to \in Nat
           /\ \A h \in dl.logs : h.num \in Nat
           /\ \A b \in dl.out : b.num \in Nat
<1>. USE ChainAssumption
<1>1. Done \in SUBSET Nat
  BY DEF TypeOK, Done, Nums, EVMBlock, Blocks
<1>2. \A i \in 1 .. Len(ch) : ch[i] \in EVMBlock
  BY DEF TypeOK
<1>. QED  BY <1>1, <1>2 DEF TypeOK, DriverState, DownloaderState, EVMBlock, Header, Blocks

\* A step of Download keeps the channel and what is to be sent in increasing order,
\* above the last processed block.
LEMMA DownloadOrderStep ==
    ASSUME IInv, Download, ~halted'
    PROVE  ChannelOrder' /\ DownloadOrder'
<1>. USE DEF Below
<1>0. TypeOK /\ WorkInv /\ ChannelOrder /\ DownloadOrder
  BY Zenon DEF IInv, OrderInv, Download
<1>1. UNCHANGED <<block, drv>> /\ Done' = Done
  BY Zenon DEF Download, Done, Nums
<1>t. /\ Done \in SUBSET Nat /\ drv.blk.num \in Nat /\ \A i \in 1 .. Len(ch) : ch[i].num \in Nat
      /\ Len(ch) \in Nat /\ dl.from \in Nat /\ dl.to \in Nat
      /\ \A h \in dl.logs : h.num \in Nat
      /\ \A b \in dl.out : b.num \in Nat
  BY <1>0, Numbers, Zenon
<1>r. dl \in DownloaderState
  BY <1>0, Zenon DEF TypeOK
<1>s. ASSUME ch' = ch PROVE ChannelOrder'
  BY <1>0, <1>1, <1>s, Zenon DEF ChannelOrder
<1>2. CASE WaitForNewBlocks \/ CloseChannel
  <2>1. ch' = ch /\ dl'.from = dl.from /\ dl.pc \in {"init", "loop"} /\ dl'.pc \in {"loop", "done"}
    BY <1>2, <1>r, Zenon DEF WaitForNewBlocks, CloseChannel, DownloaderState
  <2>. QED  BY <1>0, <1>1, <1>s, <2>1, Zenon DEF DownloadOrder
<1>3. CASE StartRange
  <2>1. ch' = ch /\ dl'.from = dl.from /\ dl.pc = "loop" /\ dl'.pc = "query" /\ dl'.from <= dl'.to
    BY <1>3, <1>r, Zenon DEF StartRange, DownloaderState
  <2>. QED  BY <1>0, <1>1, <1>s, <2>1, Zenon DEF DownloadOrder
<1>a. ASSUME Abandon PROVE ChannelOrder' /\ DownloadOrder'
  <2>1. ch' = ch /\ dl'.pc = "done"
    BY <1>a, <1>r, Zenon DEF Abandon, DownloaderState
  <2>. QED  BY <1>s, <2>1, Zenon DEF DownloadOrder
<1>4. CASE GetLogs
  <2>1. CASE dl.cancelled
    BY <1>4, <1>a, <2>1, Zenon DEF GetLogs
  <2>2. CASE ~dl.cancelled
    <3>. DEFINE logs == {HeaderByNumber(n) : n \in {m \in dl.from .. dl.to :
                                                     m <= head /\ chain[m].ev}}
    <3>1. dl' = [dl EXCEPT !.pc = IF logs = {} THEN "send" ELSE "headers",
                           !.logs = logs, !.out = {}, !.tail = logs = {}]
          /\ ch' = ch /\ dl.pc = "query"
      BY <1>4, <2>2, Zenon DEF GetLogs
    <3>2. Distinct(logs) /\ \A h \in logs : dl.from <= h.num /\ h.num <= dl.to
      BY <1>t DEF Distinct, HeaderByNumber
    <3>. HIDE DEF logs
    <3>3. /\ dl'.from = dl.from /\ dl'.to = dl.to /\ dl'.logs = logs /\ dl'.out = {}
          /\ dl'.pc = IF logs = {} THEN "send" ELSE "headers"
      BY <1>r, <3>1, Zenon DEF DownloaderState
    <3>4. Below(dl.from) /\ dl.from <= dl.to
      BY <1>0, <3>1, Zenon DEF DownloadOrder
    <3>5. Below(dl.from)' /\ Below(dl.to)' /\ Below(dl.to + 1)'
      BY <1>1, <1>t, <3>1, <3>3, <3>4, SMTT(30)
    <3>6. Distinct(dl.logs)' /\ Distinct(dl.out)'
      BY <3>2, <3>3, Zenon DEF Distinct
    <3>7. DownloadOrder'
      BY <1>1, <3>1, <3>2, <3>3, <3>4, <3>5, <3>6, Zenon DEF DownloadOrder, Distinct
    <3>. QED  BY <1>s, <3>1, <3>7, Zenon
  <2>. QED  BY <2>1, <2>2, Zenon
<1>5. CASE CheckLogHeader
  <2>1. CASE dl.cancelled
    BY <1>5, <1>a, <2>1, Zenon DEF CheckLogHeader
  <2>2. CASE ~dl.cancelled
    <3>. DEFINE l == Lowest(dl.logs)
                b == [num |-> l.num, hash |-> l.hash, ev |-> TRUE]
    <3>1. l \in dl.logs /\ \A h \in dl.logs : l.num <= h.num
      BY <1>0, <1>t, <1>5, LowestProp, Zenon DEF CheckLogHeader, WorkInv
    <3>2. ch' = ch /\ dl.pc = "headers"
      BY <1>5, <2>2, Zenon DEF CheckLogHeader
    <3>3. CASE l.hash # chain[l.num]
      <4>1. dl'.from = dl.from /\ dl'.to = dl.to /\ dl'.pc = "query"
        BY <1>5, <1>r, <2>2, <3>3, Zenon DEF CheckLogHeader, DownloaderState
      <4>. QED  BY <1>0, <1>1, <1>s, <3>2, <4>1, Zenon DEF DownloadOrder
    <3>4. CASE l.hash = chain[l.num]
      <4>1. dl' = [dl EXCEPT !.pc = IF dl.logs = {l} THEN "send" ELSE "headers",
                             !.logs = @ \ {l}, !.out = @ \cup {b}, !.tail = l.num < dl.to]
        BY <1>5, <2>2, <3>4, Zenon DEF CheckLogHeader
      <4>2. b.num = l.num
        BY Zenon
      <4>. HIDE DEF l, b
      <4>3. /\ dl'.from = dl.from /\ dl'.to = dl.to /\ dl'.logs = dl.logs \ {l}
            /\ dl'.out = dl.out \cup {b} /\ dl'.tail = (l.num < dl.to)
            /\ dl'.pc = IF dl.logs = {l} THEN "send" ELSE "headers"
        BY <1>r, <4>1, Zenon DEF DownloaderState
      <4>4. /\ Below(dl.from) /\ dl.from <= dl.to /\ Distinct(dl.logs) /\ Distinct(dl.out)
            /\ \A h \in dl.logs : dl.from <= h.num /\ h.num <= dl.to
            /\ \A c \in dl.out : dl.from <= c.num /\ \A h \in dl.logs : c.num < h.num
        BY <1>0, <3>2, Zenon DEF DownloadOrder
      <4>5. \A h \in dl.logs \ {l} : l.num < h.num
        BY <1>t, <3>1, <4>4 DEF Distinct
      <4>6. \A c \in dl.out : c.num < l.num
        BY <3>1, <4>4, Zenon
      <4>7. Distinct(dl.logs)' /\ Distinct(dl.out)'
        BY <1>t, <3>1, <4>2, <4>3, <4>4, <4>6 DEF Distinct
      <4>8. \A c \in dl'.out : dl.from <= c.num /\ c.num <= l.num
        BY <1>t, <3>1, <4>2, <4>3, <4>4, <4>6
      <4>9. CASE dl.logs # {l}
        <5>1. \A c \in dl'.out : \A h \in dl'.logs : c.num < h.num
          BY <1>t, <3>1, <4>2, <4>3, <4>5, <4>6
        <5>. QED  BY <1>1, <1>s, <3>2, <4>3, <4>4, <4>7, <4>8, <4>9, <5>1, Zenon DEF DownloadOrder
      <4>10. CASE dl.logs = {l}
        <5>1. \A c \in dl'.out : Below(c.num)' /\ c.num <= dl.to
          BY <1>1, <1>t, <3>1, <3>2, <4>2, <4>3, <4>4, <4>8
        <5>2. Below(dl.to)' /\ Below(dl.to + 1)'
          BY <1>1, <1>t, <3>2, <4>3, <4>4, SMTT(30)
        <5>3. ASSUME dl'.tail, NEW c \in dl'.out PROVE c.num < dl.to
          <6>1. l.num < dl.to
            BY <4>3, <5>3, Zenon
          <6>2. c.num \in Nat /\ c.num <= l.num /\ l.num \in Nat
            BY <1>t, <3>1, <4>2, <4>3, <4>8, Zenon
          <6>. QED  BY <1>t, <6>1, <6>2
        <5>. QED  BY <1>s, <3>2, <4>3, <4>7, <4>10, <5>1, <5>2, <5>3, Zenon DEF DownloadOrder
      <4>. QED  BY <4>9, <4>10, Zenon
    <3>. QED  BY <3>3, <3>4, Zenon
  <2>. QED  BY <2>1, <2>2, Zenon
<1>6. CASE SendBlock
  <2>. DEFINE b == Lowest(dl.out)
              n == Len(ch) + 1
  <2>1. dl.pc = "send" /\ ch' = Append(ch, b)
    BY <1>6, Zenon DEF SendBlock
  <2>2. b \in dl.out /\ \A c \in dl.out : b.num <= c.num
    BY <1>t, <1>6, LowestProp, Zenon DEF SendBlock
  <2>3. \/ dl' = [dl EXCEPT !.pc = "loop", !.out = {}, !.from = dl.to + 1]
        \/ dl' = [dl EXCEPT !.out = @ \ {b}]
    BY <1>6, Zenon DEF SendBlock
  <2>. HIDE DEF b
  <2>4. /\ Len(ch') = n
        /\ \A i \in 1 .. Len(ch) : ch'[i] = ch[i]
        /\ ch'[n] = b
    BY <1>0, <2>1 DEF TypeOK
  <2>5. /\ Distinct(dl.out) /\ Below(dl.to + 1)
        /\ \A c \in dl.out : Below(c.num) /\ c.num <= dl.to
        /\ dl.tail => Below(dl.to) /\ \A c \in dl.out : c.num < dl.to
    BY <1>0, <2>1, Zenon DEF DownloadOrder
  <2>6. ChannelOrder'
    <3>1. \A m \in Done : m < b.num
      BY <2>2, <2>5, Zenon
    <3>2. drv.pc = "process" => drv.blk.num < b.num
      BY <2>2, <2>5, Zenon
    <3>3. \A i \in 1 .. Len(ch) : ch[i].num < b.num
      BY <2>2, <2>5, Zenon
    <3>4. drv.pc = "process" => \A m \in Done : m < drv.blk.num
      BY <1>0, Zenon DEF ChannelOrder
    <3>5. \A i \in 1 .. n : /\ \A m \in Done : m < ch'[i].num
                            /\ drv.pc = "process" => drv.blk.num < ch'[i].num
      <4>1. \A i \in 1 .. n : i \in 1 .. Len(ch) \/ i = n
        BY <1>t
      <4>. QED  BY <1>0, <2>4, <3>1, <3>2, <4>1, Zenon DEF ChannelOrder
    <3>6. ASSUME NEW i \in 1 .. n, NEW j \in 1 .. n, i < j PROVE ch'[i].num < ch'[j].num
      <4>1. i \in 1 .. Len(ch)
        BY <1>t, <3>6
      <4>2. CASE j = n
        BY <2>4, <3>3, <4>1, <4>2, Zenon
      <4>3. CASE j \in 1 .. Len(ch)
        BY <1>0, <2>4, <3>6, <4>1, <4>3, Zenon DEF ChannelOrder
      <4>. QED  BY <1>t, <4>2, <4>3
    <3>. QED  BY <1>1, <2>4, <3>4, <3>5, <3>6, Zenon DEF ChannelOrder
  <2>7. ASSUME NEW k \in Nat, Below(k), b.num < k
        PROVE  /\ \A m \in Done' : m < k
               /\ drv'.pc = "process" => drv'.blk.num < k
               /\ \A i \in 1 .. Len(ch') : ch'[i].num < k
    <3>1. \A i \in 1 .. n : i \in 1 .. Len(ch) \/ i = n
      BY <1>t
    <3>. QED  BY <1>1, <2>4, <2>7, <3>1, Zenon
  <2>8. DownloadOrder'
    <3>1. CASE dl' = [dl EXCEPT !.pc = "loop", !.out = {}, !.from = dl.to + 1]
      <4>1. dl'.pc = "loop" /\ dl'.from = dl.to + 1
        BY <1>r, <3>1, Zenon DEF DownloaderState
      <4>2. b.num < dl.to + 1 /\ dl.to + 1 \in Nat
        BY <1>t, <2>2, <2>5
      <4>3. Below(dl.from)'
        BY <2>5, <2>7, <4>1, <4>2, Zenon
      <4>. QED  BY <4>1, <4>3, Zenon DEF DownloadOrder
    <3>2. CASE dl' = [dl EXCEPT !.out = @ \ {b}]
      <4>1. dl'.pc = "send" /\ dl'.out = dl.out \ {b} /\ dl'.to = dl.to /\ dl'.tail = dl.tail
        BY <1>r, <2>1, <3>2, Zenon DEF DownloaderState
      <4>2. Distinct(dl.out)'
        BY <2>5, <4>1, Zenon DEF Distinct
      <4>3. \A c \in dl.out \ {b} : b.num < c.num
        BY <1>t, <2>2, <2>5 DEF Distinct
      <4>4. \A c \in dl'.out : Below(c.num)' /\ c.num <= dl'.to
        BY <1>t, <2>5, <2>7, <4>1, <4>3, Zenon
      <4>5. b.num < dl.to + 1 /\ dl.to + 1 \in Nat
        BY <1>t, <2>2, <2>5
      <4>6. Below(dl.to + 1)'
        BY <2>5, <2>7, <4>1, <4>5, Zenon
      <4>7. dl'.tail => Below(dl.to)' /\ \A c \in dl'.out : c.num < dl'.to
        BY <1>t, <2>2, <2>5, <2>7, <4>1, Zenon
      <4>. QED  BY <4>1, <4>2, <4>4, <4>6, <4>7, Zenon DEF DownloadOrder
    <3>. QED  BY <2>3, <3>1, <3>2, Zenon
  <2>. QED  BY <2>6, <2>8, Zenon
<1>7. CASE GetTailHeader
  <2>1. CASE dl.cancelled
    BY <1>7, <1>a, <2>1, Zenon DEF GetTailHeader
  <2>2. CASE ~dl.cancelled
    <3>. DEFINE b == [num |-> dl.to, hash |-> chain[dl.to], ev |-> FALSE]
    <3>1. ch' = ch /\ dl.pc = "send" /\ dl.tail /\ dl' = [dl EXCEPT !.out = {b}, !.tail = FALSE]
      BY <1>7, <2>2, Zenon DEF GetTailHeader
    <3>2. b.num = dl.to
      BY Zenon
    <3>. HIDE DEF b
    <3>3. dl'.pc = "send" /\ dl'.out = {b} /\ dl'.to = dl.to /\ ~dl'.tail
      BY <1>r, <3>1, Zenon DEF DownloaderState
    <3>4. Below(dl.to) /\ Below(dl.to + 1)
      BY <1>0, <3>1, Zenon DEF DownloadOrder
    <3>5. \A c \in dl'.out : Below(c.num)' /\ c.num <= dl'.to
      BY <1>1, <1>t, <3>1, <3>2, <3>3, <3>4
    <3>6. Below(dl.to + 1)' /\ Distinct(dl.out)'
      BY <1>1, <3>1, <3>3, <3>4, Zenon DEF Distinct
    <3>. QED  BY <1>s, <3>1, <3>3, <3>5, <3>6, Zenon DEF DownloadOrder
  <2>. QED  BY <2>1, <2>2, Zenon
<1>. QED  BY <1>2, <1>3, <1>4, <1>5, <1>6, <1>7, Zenon DEF Download

\* Every step keeps the order of the blocks from the downloader to the processor.
LEMMA OrderStep == ASSUME IInv, [Next]_vars PROVE OrderInv'
<1>. SUFFICES ASSUME ~halted' PROVE ChannelOrder' /\ DownloadOrder'
  BY Zenon DEF OrderInv
<1>. USE DEF Below
<1>0. TypeOK /\ QuietInv /\ HaltInv /\ OrderInv
  BY Zenon DEF IInv
<1>t. /\ Done \in SUBSET Nat /\ drv.blk.num \in Nat /\ \A i \in 1 .. Len(ch) : ch[i].num \in Nat
      /\ Len(ch) \in Nat /\ dl.from \in Nat /\ dl.to \in Nat
  BY <1>0, Numbers, Zenon
\* Nothing in the channel, no block in hand, no download.
<1>q. ASSUME ch' = << >>, drv'.pc # "process", dl'.pc = "done" PROVE ChannelOrder' /\ DownloadOrder'
  BY <1>q DEF ChannelOrder, DownloadOrder
<1>u. ASSUME UNCHANGED <<block, drv, ch, dl, halted>> PROVE ChannelOrder' /\ DownloadOrder'
  BY <1>0, <1>u, Zenon DEF OrderInv, ChannelOrder, DownloadOrder, Done, Nums, Distinct
<1>1. CASE Environment \/ Detector \/ UNCHANGED vars
  BY <1>1, <1>u, Zenon
     DEF Environment, Detector, DetectReorg, CheckHeader, RemoveReorged, vars, dlVars
<1>2. CASE Download
  BY <1>2, DownloadOrderStep, Zenon
<1>3. CASE StartSync
  <2>1. /\ ch' = << >> /\ drv'.pc = "select" /\ dl'.pc = "init" /\ Done' = Done
        /\ dl'.from = getLastProcessedBlock + 1
    BY <1>3, Zenon DEF StartSync, At, Stopped, Done, Nums
  <2>2. \A m \in Done : m < getLastProcessedBlock + 1
    BY <1>0, <1>t, LastProcessedProp DEF Blocks
  <2>3. Below(dl.from)'
    BY <2>1, <2>2
  <2>. QED  BY <2>1, <2>3 DEF ChannelOrder, DownloadOrder
<1>4. CASE ReceiveBlock
  <2>1. ChannelOrder /\ DownloadOrder /\ ~closed
    BY <1>0, <1>4, Zenon DEF ReceiveBlock, OrderInv, HaltInv
  <2>2. /\ ch # << >> /\ drv'.pc = "process" /\ drv'.blk = Head(ch) /\ ch' = Tail(ch)
        /\ UNCHANGED <<dl, block>> /\ Done' = Done
    BY <1>4, <2>1 DEF ReceiveBlock, Done, Nums
  <2>3. /\ Len(ch) \in Nat \ {0} /\ Len(ch') = Len(ch) - 1 /\ drv'.blk = ch[1]
        /\ \A i \in 1 .. Len(ch') : ch'[i] = ch[i + 1] /\ i + 1 \in 1 .. Len(ch)
    BY <1>0, <2>2 DEF TypeOK
  <2>4. ChannelOrder'
    BY <1>t, <2>1, <2>2, <2>3 DEF ChannelOrder
  <2>5. ASSUME NEW k, Below(k)
        PROVE  /\ \A m \in Done' : m < k
               /\ drv'.blk.num < k
               /\ \A i \in 1 .. Len(ch') : ch'[i].num < k
    BY <1>t, <2>2, <2>3, <2>5
  <2>6. DownloadOrder'
    BY <2>1, <2>2, <2>5, Zenon DEF DownloadOrder, Distinct
  <2>. QED  BY <2>4, <2>6, Zenon
<1>5. CASE ProcessBlock
  <2>1. /\ ChannelOrder /\ DownloadOrder /\ drv.pc = "process" /\ drv'.pc = "select"
        /\ UNCHANGED <<ch, dl>>
    BY <1>0, <1>5, Zenon DEF ProcessBlock, OrderInv, At, dlVars
  <2>2. Done' = Done \cup {drv.blk.num}
    BY <1>5, Zenon DEF ProcessBlock, Done, Nums
  <2>3. ChannelOrder'
    BY <1>t, <2>1, <2>2, Zenon DEF ChannelOrder
  <2>4. ASSUME NEW k, Below(k)
        PROVE  /\ \A m \in Done' : m < k
               /\ \A i \in 1 .. Len(ch') : ch'[i].num < k
    BY <2>1, <2>2, <2>4, Zenon
  <2>5. DownloadOrder'
    BY <2>1, <2>4, Zenon DEF DownloadOrder, Distinct
  <2>. QED  BY <2>3, <2>5, Zenon
<1>6. CASE HaltProcessor
  BY <1>6, Zenon DEF HaltProcessor
<1>7. CASE HandleReorg
  BY <1>7, <1>q, Zenon DEF HandleReorg, At, Stopped
<1>8. CASE ReorgProcessed
  BY <1>0, <1>8, <1>q, Zenon DEF ReorgProcessed, QuietInv, At, dlVars
<1>9. CASE Restart
  BY <1>9, <1>q, Zenon DEF Restart, At, Stopped
<1>. QED  BY <1>1, <1>2, <1>3, <1>4, <1>5, <1>6, <1>7, <1>8, <1>9, Zenon DEF Next, Driver

-----------------------------------------------------------------------------
(* The theorems                                                            *)

\* The inductive invariant holds at the start.
LEMMA InitIInv == Init => IInv
<1>. SUFFICES ASSUME Init PROVE IInv
  BY Zenon
<1>1. TypeOK
  BY InitType, Zenon
<1>2. QuietInv /\ WorkInv /\ HaltInv
  BY Zenon DEF Init, At, Stopped, Idle, QuietInv, WorkInv, HaltInv
<1>3. OrderInv
  BY DEF Init, At, Stopped, OrderInv, ChannelOrder, DownloadOrder
<1>. QED  BY <1>1, <1>2, <1>3, Zenon DEF IInv

\* Every step keeps the inductive invariant.
LEMMA StepIInv == IInv /\ [Next]_vars => IInv'
<1>. SUFFICES ASSUME IInv, [Next]_vars PROVE IInv'
  BY Zenon
<1>1. TypeOK'
  <2>1. CASE UNCHANGED vars
    BY <2>1, Zenon DEF IInv, TypeOK, ChainTypeOK, vars, chainVars, detVars, dlVars
  <2>. QED  BY <2>1, EnvironmentType, DownloadType, DriverType, HandshakeType, DetectorType,
               RestartType, Zenon DEF Next
<1>. QED  BY <1>1, ControlStep, OrderStep, Zenon DEF IInv

\* Every state the syncer reaches is well-typed: block numbers stay within the
\* chain and the download channel within its capacity.
THEOREM TypeCorrect == Spec => []TypeOK
<1>1. IInv => TypeOK
  BY Zenon DEF IInv
<1>. QED  BY <1>1, InitIInv, StepIInv, PTL DEF Spec

\* The driver never hands the processor a block at or below one it has stored,
\* through any number of reorgs, restarts and retried queries, for every chunk
\* and buffer size.
THEOREM DriverNeverRepeats == Spec => []NoDuplicateBlock
<1>1. IInv => NoDuplicateBlock
  <2>. SUFFICES ASSUME IInv, drv.pc = "process", ~halted
                PROVE  drv.blk.num > getLastProcessedBlock
    BY Zenon DEF NoDuplicateBlock
  <2>1. TypeOK /\ ChannelOrder
    BY Zenon DEF IInv, OrderInv
  <2>2. getLastProcessedBlock \in Done /\ Done \in SUBSET Nat /\ drv.blk.num \in Nat
    BY <2>1, LastProcessedProp, Numbers, Zenon
  <2>3. getLastProcessedBlock < drv.blk.num
    BY <2>1, <2>2, Zenon DEF ChannelOrder
  <2>. QED  BY <2>2, <2>3, Zenon
<1>. QED  BY <1>1, InitIInv, StepIInv, PTL DEF Spec

-----------------------------------------------------------------------------
(* No event is skipped: the invariant                                      *)

\* A block of the first branch with events, as NoEventSkipped speaks of it.
Event(n) == n \in InitialBlock + 1 .. head /\ chain[n] = [fork |-> 0, ev |-> TRUE]

Stored(n) == \E b \in block : b.num = n /\ b.ev

Sent(n) ==
    \/ Stored(n)
    \/ drv.pc = "process" /\ drv.blk.num = n /\ drv.blk.ev
    \/ \E i \in 1 .. Len(ch) : ch[i].num = n /\ ch[i].ev

Found(n) == \E b \in dl.out : b.num = n /\ b.ev

\* Before the first reorganisation nobody is ahead of the chain, so a block mined
\* now is a block nobody has passed.
HeadInv ==
    forks = 0 =>
       /\ \A m \in Done : m <= head
       /\ drv.blk.num <= head
       /\ \A i \in 1 .. Len(ch) : ch[i].num <= head
       /\ dl.from <= head + 1 /\ dl.to <= head /\ dl.last <= head
       /\ \A b \in dl.out : b.num <= head
       /\ \A h \in dl.logs : h.num <= head

\* An event that the driver, the channel or the downloader is past is stored, or in
\* the part of the pipeline before it.
OnItsWay(n) ==
    /\ drv.pc = "process" /\ n <= drv.blk.num => Sent(n)
    /\ \A i \in 1 .. Len(ch) : n <= ch[i].num => Sent(n)
    /\ dl.pc \in {"init", "loop", "query", "headers"} /\ n < dl.from => Sent(n)
    /\ dl.pc = "headers" /\ dl.from <= n /\ n <= dl.to => n \in Nums(dl.logs) \/ Found(n)
    /\ dl.pc = "send" /\ n <= dl.to => Sent(n) \/ Found(n)

EventInv ==
    \A n \in Blocks : Event(n) =>
       /\ \A m \in Done : n <= m => Stored(n)
       /\ ~halted => OnItsWay(n)

-----------------------------------------------------------------------------
(* No event is skipped: the steps                                          *)

\* What a step of the downloader does to its position, to the range and to the
\* numbers it holds.
LEMMA DownloadHead ==
    ASSUME IInv, HeadInv, forks = 0, Download PROVE HeadInv'
<1>0. TypeOK /\ WorkInv /\ dl \in DownloaderState /\ head \in Nat
  BY ChainAssumption DEF IInv, TypeOK, ChainTypeOK, Blocks
<1>1. UNCHANGED <<head, forks, drv, block>> /\ Done' = Done
  BY Zenon DEF Download, Done, Nums, chainVars
<1>t. /\ \A i \in 1 .. Len(ch) : ch[i].num \in Nat
      /\ Len(ch) \in Nat /\ dl.from \in Nat /\ dl.to \in Nat /\ dl.last \in Nat
      /\ \A h \in dl.logs : h.num \in Nat
      /\ \A b \in dl.out : b.num \in Nat
  BY <1>0, Numbers, ChainAssumption DEF DownloaderState, Blocks
<1>h. /\ \A m \in Done : m <= head
      /\ drv.blk.num <= head
      /\ \A i \in 1 .. Len(ch) : ch[i].num <= head
      /\ dl.from <= head + 1 /\ dl.to <= head /\ dl.last <= head
      /\ \A b \in dl.out : b.num <= head
      /\ \A h \in dl.logs : h.num <= head
  BY Zenon DEF HeadInv
<1>s. ASSUME ch' = ch, dl'.from = dl.from, dl'.to <= head, dl'.last <= head,
             \A b \in dl'.out : b.num <= head, \A h \in dl'.logs : h.num <= head
      PROVE  HeadInv'
  BY <1>1, <1>h, <1>s, Zenon DEF HeadInv
<1>2. CASE WaitForNewBlocks
  <2>1. /\ ch' = ch /\ dl'.from = dl.from /\ dl'.to = dl.to /\ dl'.last = head
        /\ dl'.out = dl.out /\ dl'.logs = dl.logs
    BY <1>0, <1>2, Zenon DEF WaitForNewBlocks, DownloaderState
  <2>. QED  BY <1>0, <1>h, <1>s, <2>1
<1>a. ASSUME Abandon \/ CloseChannel PROVE HeadInv'
  <2>1. /\ ch' = ch /\ dl'.from = dl.from /\ dl'.to = dl.to /\ dl'.last = dl.last
        /\ dl'.out = dl.out /\ dl'.logs = dl.logs
    BY <1>0, <1>a, Zenon DEF Abandon, CloseChannel, DownloaderState
  <2>. QED  BY <1>h, <1>s, <2>1, Zenon
<1>3. CASE StartRange
  <2>1. /\ ch' = ch /\ dl'.from = dl.from /\ dl'.to = ToBlock /\ dl'.last = dl.last
        /\ dl'.out = dl.out /\ dl'.logs = dl.logs
    BY <1>0, <1>3, Zenon DEF StartRange, DownloaderState
  <2>2. ToBlock <= dl.last /\ ToBlock \in Nat
    BY <1>t, SyncAssumption DEF ToBlock
  <2>3. dl'.to <= head
    BY <1>0, <1>t, <1>h, <2>1, <2>2
  <2>. QED  BY <1>h, <1>s, <2>1, <2>3, Zenon
<1>4. CASE GetLogs /\ ~dl.cancelled
  <2>. DEFINE logs == {HeaderByNumber(n) : n \in {m \in dl.from .. dl.to : m <= head /\ chain[m].ev}}
  <2>1. dl' = [dl EXCEPT !.pc = IF logs = {} THEN "send" ELSE "headers",
                         !.logs = logs, !.out = {}, !.tail = logs = {}]
        /\ ch' = ch
    BY <1>4, Zenon DEF GetLogs
  <2>2. \A h \in logs : h.num <= head
    BY DEF HeaderByNumber
  <2>. HIDE DEF logs
  <2>3. /\ dl'.from = dl.from /\ dl'.to = dl.to /\ dl'.last = dl.last
        /\ dl'.out = {} /\ dl'.logs = logs
    BY <1>0, <2>1, Zenon DEF DownloaderState
  <2>. QED  BY <1>h, <1>s, <2>1, <2>2, <2>3, Zenon
<1>5. CASE CheckLogHeader /\ ~dl.cancelled
  <2>. DEFINE l == Lowest(dl.logs)
              b == [num |-> l.num, hash |-> l.hash, ev |-> TRUE]
  <2>1. l \in dl.logs
    BY <1>0, <1>t, <1>5, LowestProp, Zenon DEF CheckLogHeader, WorkInv
  <2>2. ch' = ch /\ b.num = l.num
    BY <1>5, Zenon DEF CheckLogHeader
  <2>3. \/ dl' = [dl EXCEPT !.pc = "query", !.logs = {}, !.out = {}]
        \/ dl' = [dl EXCEPT !.pc = IF dl.logs = {l} THEN "send" ELSE "headers",
                            !.logs = @ \ {l}, !.out = @ \cup {b}, !.tail = l.num < dl.to]
    BY <1>5, Zenon DEF CheckLogHeader
  <2>. HIDE DEF l, b
  <2>4. /\ dl'.from = dl.from /\ dl'.to = dl.to /\ dl'.last = dl.last
        /\ dl'.out \subseteq dl.out \cup {b} /\ dl'.logs \subseteq dl.logs
    <3>1. CASE dl' = [dl EXCEPT !.pc = "query", !.logs = {}, !.out = {}]
      BY <1>0, <3>1, Zenon DEF DownloaderState
    <3>2. CASE dl' = [dl EXCEPT !.pc = IF dl.logs = {l} THEN "send" ELSE "headers",
                                !.logs = @ \ {l}, !.out = @ \cup {b}, !.tail = l.num < dl.to]
      BY <1>0, <3>2, Zenon DEF DownloaderState
    <3>. QED  BY <2>3, <3>1, <3>2, Zenon
  <2>. QED  BY <1>h, <1>s, <2>1, <2>2, <2>4, Zenon
<1>6. CASE SendBlock
  <2>. DEFINE b == Lowest(dl.out)
  <2>1. ch' = Append(ch, b)
    BY <1>6, Zenon DEF SendBlock
  <2>2. b \in dl.out
    BY <1>t, <1>6, LowestProp, Zenon DEF SendBlock
  <2>3. \/ dl' = [dl EXCEPT !.pc = "loop", !.out = {}, !.from = dl.to + 1]
        \/ dl' = [dl EXCEPT !.out = @ \ {b}]
    BY <1>6, Zenon DEF SendBlock
  <2>. HIDE DEF b
  <2>4. /\ dl'.from \in {dl.from, dl.to + 1} /\ dl'.to = dl.to /\ dl'.last = dl.last
        /\ dl'.out \subseteq dl.out /\ dl'.logs = dl.logs
    <3>1. CASE dl' = [dl EXCEPT !.pc = "loop", !.out = {}, !.from = dl.to + 1]
      BY <1>0, <3>1, Zenon DEF DownloaderState
    <3>2. CASE dl' = [dl EXCEPT !.out = @ \ {b}]
      BY <1>0, <3>2, Zenon DEF DownloaderState
    <3>. QED  BY <2>3, <3>1, <3>2, Zenon
  <2>5. \A i \in 1 .. Len(ch') : ch'[i].num <= head
    <3>1. /\ Len(ch') = Len(ch) + 1 /\ ch'[Len(ch) + 1] = b
          /\ \A i \in 1 .. Len(ch) : ch'[i] = ch[i]
      BY <1>0, <2>1 DEF TypeOK
    <3>2. \A i \in 1 .. Len(ch') : i \in 1 .. Len(ch) \/ i = Len(ch) + 1
      BY <1>t, <3>1
    <3>. QED  BY <1>h, <2>2, <3>1, <3>2, Zenon
  <2>6. dl'.from <= head + 1
    BY <1>0, <1>t, <1>h, <2>4
  <2>. QED  BY <1>1, <1>h, <2>4, <2>5, <2>6, Zenon DEF HeadInv
<1>7. CASE GetTailHeader /\ ~dl.cancelled
  <2>. DEFINE b == [num |-> dl.to, hash |-> chain[dl.to], ev |-> FALSE]
  <2>1. dl' = [dl EXCEPT !.out = {b}, !.tail = FALSE] /\ ch' = ch /\ b.num = dl.to
    BY <1>7, Zenon DEF GetTailHeader
  <2>. HIDE DEF b
  <2>2. /\ dl'.from = dl.from /\ dl'.to = dl.to /\ dl'.last = dl.last
        /\ dl'.out = {b} /\ dl'.logs = dl.logs
    BY <1>0, <2>1, Zenon DEF DownloaderState
  <2>. QED  BY <1>h, <1>s, <2>1, <2>2, Zenon
<1>8. (GetLogs \/ CheckLogHeader \/ GetTailHeader) /\ dl.cancelled => Abandon
  BY Zenon DEF GetLogs, CheckLogHeader, GetTailHeader
<1>. QED  BY <1>2, <1>a, <1>3, <1>4, <1>5, <1>6, <1>7, <1>8, Zenon DEF Download

\* Nobody gets ahead of the chain before the first reorganisation.
LEMMA HeadStep == ASSUME IInv, HeadInv, [Next]_vars PROVE HeadInv'
<1>0. /\ TypeOK /\ head \in Nat /\ forks \in Nat
      /\ Done \in SUBSET Nat /\ drv.blk.num \in Nat /\ \A i \in 1 .. Len(ch) : ch[i].num \in Nat
      /\ Len(ch) \in Nat /\ dl.from \in Nat /\ dl.to \in Nat /\ dl.last \in Nat
      /\ \A h \in dl.logs : h.num \in Nat
      /\ \A b \in dl.out : b.num \in Nat
  BY Numbers, ChainAssumption DEF IInv, TypeOK, ChainTypeOK, DownloaderState, Blocks
<1>1. forks' = 0 => forks = 0 /\ head <= head' /\ head' \in Nat
  <2>1. CASE Environment
    <3>1. CASE MineBlock
      BY <1>0, <3>1 DEF MineBlock
    <3>2. CASE Finalize
      BY <1>0, <3>2 DEF Finalize
    <3>3. ASSUME NEW n \in Blocks, ReorgChain(n) PROVE forks' # 0
      BY <1>0, <3>3 DEF ReorgChain
    <3>. QED  BY <2>1, <3>1, <3>2, <3>3, Zenon DEF Environment
  <2>2. CASE ~Environment
    <3>1. UNCHANGED <<head, forks>>
      BY <2>2, Zenon
         DEF Next, Download, Driver, StartSync, ReceiveBlock, ProcessBlock, HaltProcessor,
         HandleReorg, ReorgProcessed, Detector, DetectReorg, CheckHeader, RemoveReorged, Restart,
         vars, chainVars
    <3>. QED  BY <1>0, <3>1
  <2>. QED  BY <2>1, <2>2, Zenon
<1>2. SUFFICES ASSUME forks' = 0, forks = 0 PROVE HeadInv'
  BY <1>1, Zenon DEF HeadInv
<1>h. /\ \A m \in Done : m <= head'
      /\ drv.blk.num <= head'
      /\ \A i \in 1 .. Len(ch) : ch[i].num <= head'
      /\ dl.from <= head' + 1 /\ dl.to <= head' /\ dl.last <= head'
      /\ \A b \in dl.out : b.num <= head'
      /\ \A h \in dl.logs : h.num <= head'
  <2>1. /\ \A m \in Done : m <= head
        /\ drv.blk.num <= head
        /\ \A i \in 1 .. Len(ch) : ch[i].num <= head
        /\ dl.from <= head + 1 /\ dl.to <= head /\ dl.last <= head
        /\ \A b \in dl.out : b.num <= head
        /\ \A h \in dl.logs : h.num <= head
    BY <1>2, Zenon DEF HeadInv
  <2>2. head <= head' /\ head' \in Nat
    BY <1>1, <1>2, Zenon
  <2>3. \A m \in Nat : m <= head => m <= head'
    BY <1>0, <2>2
  <2>4. dl.from <= head' + 1
    BY <1>0, <2>1, <2>2
  <2>. QED  BY <1>0, <2>1, <2>3, <2>4, Zenon
<1>b. /\ Stopped.from = 1 /\ Stopped.to = 0 /\ Stopped.last = 0 /\ Stopped.out = {} /\ Stopped.logs = {}
      /\ \A pc : At(pc).blk.num = 0
  BY Zenon DEF Stopped, At, ZeroBlock
<1>3. CASE Environment \/ Detector \/ UNCHANGED vars
  <2>1. UNCHANGED <<drv, dl, ch, block>>
    BY <1>3, Zenon
       DEF Environment, Detector, DetectReorg, CheckHeader, RemoveReorged, vars, dlVars
  <2>. QED  BY <1>h, <2>1, Zenon DEF HeadInv, Done, Nums
<1>4. CASE Download
  BY <1>2, <1>4, DownloadHead, Zenon
<1>5. CASE StartSync
  <2>1. /\ ch' = << >> /\ drv' = At("select") /\ Done' = Done
        /\ dl' = [Stopped EXCEPT !.pc = "init", !.from = getLastProcessedBlock + 1]
    BY <1>5, Zenon DEF StartSync, Done, Nums
  <2>2. /\ dl'.from = getLastProcessedBlock + 1 /\ dl'.to = 0 /\ dl'.last = 0
        /\ dl'.out = {} /\ dl'.logs = {}
    BY <2>1, Zenon DEF Stopped
  <2>3. getLastProcessedBlock \in Done
    BY <1>0, LastProcessedProp, Zenon
  <2>4. dl'.from <= head' + 1 /\ 0 <= head'
    <3>1. PICK n : n = getLastProcessedBlock
      BY Zenon
    <3>2. n \in Done /\ dl'.from = n + 1
      BY <2>2, <2>3, <3>1, Zenon
    <3>3. n \in Nat /\ n <= head' /\ head' \in Nat
      BY <1>0, <1>1, <1>2, <1>h, <3>2, Zenon
    <3>4. \A a, b \in Nat : a <= b => a + 1 <= b + 1 /\ 0 <= b
      OBVIOUS
    <3>. QED  BY <3>2, <3>3, <3>4, Zenon
  <2>. QED  BY <1>b, <1>h, <2>1, <2>2, <2>4 DEF HeadInv
<1>6. CASE ReceiveBlock
  <2>1. /\ UNCHANGED <<dl, block>> /\ Done' = Done
        /\ \/ ch # << >> /\ drv'.blk = Head(ch) /\ ch' = Tail(ch)
           \/ drv'.blk = ZeroBlock /\ ch' = ch
    BY <1>6 DEF ReceiveBlock, Done, Nums
  <2>2. CASE drv'.blk = ZeroBlock /\ ch' = ch
    <3>1. drv'.blk.num <= head'
      BY <1>0, <1>1, <1>2, <2>2 DEF ZeroBlock
    <3>. QED  BY <1>h, <2>1, <2>2, <3>1, Zenon DEF HeadInv
  <2>3. CASE ch # << >> /\ drv'.blk = Head(ch) /\ ch' = Tail(ch)
    <3>1. /\ Len(ch) \in Nat \ {0} /\ Len(ch') = Len(ch) - 1 /\ drv'.blk = ch[1]
          /\ \A i \in 1 .. Len(ch') : ch'[i] = ch[i + 1] /\ i + 1 \in 1 .. Len(ch)
      BY <1>0, <2>3 DEF TypeOK
    <3>2. drv'.blk.num <= head' /\ \A i \in 1 .. Len(ch') : ch'[i].num <= head'
      BY <1>h, <3>1
    <3>. QED  BY <1>h, <2>1, <3>2, Zenon DEF HeadInv
  <2>. QED  BY <2>1, <2>2, <2>3, Zenon
<1>7. CASE ProcessBlock
  <2>1. /\ UNCHANGED <<dl, ch>> /\ drv' = At("select") /\ Done' = Done \cup {drv.blk.num}
    BY <1>7, Zenon DEF ProcessBlock, dlVars, Done, Nums
  <2>2. drv'.blk.num <= head'
    BY <1>0, <1>1, <1>2, <1>b, <2>1
  <2>. QED  BY <1>h, <2>1, <2>2, Zenon DEF HeadInv
<1>8. CASE HaltProcessor
  <2>1. /\ drv' = At("select") /\ Done' = Done /\ ch' = ch
        /\ dl' = [dl EXCEPT !.cancelled = TRUE]
    BY <1>8, Zenon DEF HaltProcessor, Done, Nums
  <2>2. /\ dl'.from = dl.from /\ dl'.to = dl.to /\ dl'.last = dl.last
        /\ dl'.out = dl.out /\ dl'.logs = dl.logs
    BY <1>0, <2>1, Zenon DEF TypeOK, DownloaderState
  <2>3. drv'.blk.num <= head'
    BY <1>0, <1>1, <1>2, <1>b, <2>1
  <2>. QED  BY <1>h, <2>1, <2>2, <2>3, Zenon DEF HeadInv
<1>9. CASE HandleReorg \/ ReorgProcessed \/ Restart
  <2>1. /\ drv'.blk.num = 0
        /\ Done' \subseteq Done
        /\ \/ dl' = Stopped /\ ch' = << >>
           \/ dl' = dl /\ ch' = ch
    <3>1. CASE HandleReorg
      <4>1. drv' = At("ack") /\ dl' = Stopped /\ ch' = << >> /\ block' \subseteq block
        BY <3>1, Zenon DEF HandleReorg, Reorg
      <4>2. Done' \subseteq Done
        BY <4>1, Zenon DEF Done, Nums
      <4>. QED  BY <1>b, <4>1, <4>2, Zenon
    <3>2. CASE ReorgProcessed
      BY <1>b, <3>2, Zenon DEF ReorgProcessed, dlVars, Done, Nums
    <3>3. CASE Restart
      <4>1. drv' = At("reset") /\ dl' = Stopped /\ ch' = << >> /\ block' = block
        BY <3>3, Zenon DEF Restart
      <4>2. Done' \subseteq Done
        BY <4>1, Zenon DEF Done, Nums
      <4>. QED  BY <1>b, <4>1, <4>2, Zenon
    <3>. QED  BY <1>9, <3>1, <3>2, <3>3, Zenon
  <2>2. 0 <= head' /\ 1 <= head' + 1
    BY <1>0, <1>1, <1>2
  <2>3. \A m \in Done' : m <= head'
    BY <1>h, <2>1, Zenon
  <2>4. CASE dl' = Stopped /\ ch' = << >>
    <3>1. \A i \in 1 .. Len(ch') : FALSE
      BY <2>4
    <3>. QED  BY <1>b, <2>1, <2>2, <2>3, <2>4, <3>1, Zenon DEF HeadInv
  <2>5. CASE dl' = dl /\ ch' = ch
    BY <1>h, <2>1, <2>2, <2>3, <2>5, Zenon DEF HeadInv
  <2>. QED  BY <2>1, <2>4, <2>5, Zenon
<1>. QED  BY <1>3, <1>4, <1>5, <1>6, <1>7, <1>8, <1>9, Zenon DEF Next, Driver

\* A step of the downloader passes no event: the query finds it, the headers it
\* fetches keep it, and it is sent before the range is left.
LEMMA DownloadEvents ==
    ASSUME IInv, Download, ~halted,
           NEW n \in Blocks, Event(n), OnItsWay(n)
    PROVE  OnItsWay(n)'
<1>0. /\ TypeOK /\ WorkInv /\ dl \in DownloaderState /\ n \in Nat
      /\ n <= head /\ chain[n].ev
      /\ ~dl.cancelled
      /\ ChannelOrder /\ DownloadOrder
  BY ChainAssumption DEF IInv, TypeOK, HaltInv, OrderInv, Event, Blocks
<1>1. UNCHANGED <<drv, block>>
  BY Zenon DEF Download
<1>t. /\ \A i \in 1 .. Len(ch) : ch[i].num \in Nat
      /\ Len(ch) \in Nat /\ dl.from \in Nat /\ dl.to \in Nat
      /\ \A h \in dl.logs : h.num \in Nat
      /\ \A b \in dl.out : b.num \in Nat
  BY <1>0, Numbers, ChainAssumption, Zenon DEF DownloaderState, Blocks
<1>2. /\ drv.pc = "process" /\ n <= drv.blk.num => Sent(n)
      /\ \A i \in 1 .. Len(ch) : n <= ch[i].num => Sent(n)
      /\ dl.pc \in {"init", "loop", "query", "headers"} /\ n < dl.from => Sent(n)
      /\ dl.pc = "headers" /\ dl.from <= n /\ n <= dl.to => n \in Nums(dl.logs) \/ Found(n)
      /\ dl.pc = "send" /\ n <= dl.to => Sent(n) \/ Found(n)
  BY Zenon DEF OnItsWay
<1>3. ASSUME ch' = ch,
             dl'.pc \in {"init", "loop", "query", "headers"} /\ n < dl'.from => Sent(n),
             dl'.pc = "headers" /\ dl'.from <= n /\ n <= dl'.to => n \in Nums(dl'.logs) \/ Found(n)',
             dl'.pc = "send" /\ n <= dl'.to => Sent(n) \/ Found(n)'
      PROVE  OnItsWay(n)'
  <2>1. Sent(n)' <=> Sent(n)
    BY <1>1, <1>3, Zenon DEF Sent, Stored
  <2>2. Nums(dl.logs)' = Nums(dl'.logs)
    BY Zenon DEF Nums
  <2>. QED  BY <1>1, <1>2, <1>3, <2>1, <2>2, Zenon DEF OnItsWay
<1>4. CASE WaitForNewBlocks
  <2>1. /\ dl.pc \in {"init", "loop"} /\ ch' = ch /\ dl'.pc = "loop" /\ dl'.from = dl.from
    BY <1>0, <1>4, Zenon DEF WaitForNewBlocks, DownloaderState
  <2>. QED  BY <1>2, <1>3, <2>1, Zenon
<1>5. CASE StartRange
  <2>1. /\ dl.pc = "loop" /\ ch' = ch /\ dl'.pc = "query" /\ dl'.from = dl.from
    BY <1>0, <1>5, Zenon DEF StartRange, DownloaderState
  <2>. QED  BY <1>2, <1>3, <2>1, Zenon
<1>6. CASE GetLogs
  <2>. DEFINE logs == {HeaderByNumber(k) : k \in {m \in dl.from .. dl.to : m <= head /\ chain[m].ev}}
  <2>1. /\ dl.pc = "query" /\ ch' = ch
        /\ dl' = [dl EXCEPT !.pc = IF logs = {} THEN "send" ELSE "headers",
                            !.logs = logs, !.out = {}, !.tail = logs = {}]
    BY <1>0, <1>6, Zenon DEF GetLogs
  <2>2. dl.from <= n /\ n <= dl.to => n \in Nums(logs)
    <3>. SUFFICES ASSUME dl.from <= n, n <= dl.to PROVE n \in Nums(logs)
      BY Zenon
    <3>1. n \in {m \in dl.from .. dl.to : m <= head /\ chain[m].ev}
      BY <1>0, <1>t
    <3>2. HeaderByNumber(n) \in logs /\ HeaderByNumber(n).num = n
      BY <3>1, Zenon DEF HeaderByNumber
    <3>. HIDE DEF logs
    <3>. QED  BY <3>2, Zenon DEF Nums
  <2>. HIDE DEF logs
  <2>3. /\ dl'.pc = IF logs = {} THEN "send" ELSE "headers"
        /\ dl'.from = dl.from /\ dl'.to = dl.to /\ dl'.logs = logs
    BY <1>0, <2>1, Zenon DEF DownloaderState
  <2>4. logs = {} => Nums(logs) = {}
    BY Zenon DEF Nums
  <2>5. n < dl.from => Sent(n)
    BY <1>2, <2>1, Zenon
  <2>6. n <= dl.to => n < dl.from \/ n \in Nums(logs)
    BY <1>0, <1>t, <2>2
  <2>7. CASE logs = {}
    BY <1>3, <2>1, <2>3, <2>4, <2>5, <2>6, <2>7
  <2>8. CASE logs # {}
    BY <1>3, <2>1, <2>2, <2>3, <2>5, <2>8
  <2>. QED  BY <2>7, <2>8, Zenon
<1>7. CASE CheckLogHeader
  <2>. DEFINE l == Lowest(dl.logs)
              b == [num |-> l.num, hash |-> l.hash, ev |-> TRUE]
  <2>1. dl.pc = "headers" /\ ch' = ch /\ b.num = l.num /\ b.ev
    BY <1>0, <1>7, Zenon DEF CheckLogHeader
  <2>2. \/ dl' = [dl EXCEPT !.pc = "query", !.logs = {}, !.out = {}]
        \/ dl' = [dl EXCEPT !.pc = IF dl.logs = {l} THEN "send" ELSE "headers",
                            !.logs = @ \ {l}, !.out = @ \cup {b}, !.tail = l.num < dl.to]
    BY <1>0, <1>7, Zenon DEF CheckLogHeader
  <2>. HIDE DEF l, b
  <2>3. n < dl.from => Sent(n)
    BY <1>2, <2>1, Zenon
  <2>4. CASE dl' = [dl EXCEPT !.pc = "query", !.logs = {}, !.out = {}]
    <3>1. dl'.pc = "query" /\ dl'.from = dl.from
      BY <1>0, <2>4, Zenon DEF DownloaderState
    <3>. QED  BY <1>3, <2>1, <2>3, <3>1, Zenon
  <2>5. CASE dl' = [dl EXCEPT !.pc = IF dl.logs = {l} THEN "send" ELSE "headers",
                              !.logs = @ \ {l}, !.out = @ \cup {b}, !.tail = l.num < dl.to]
    <3>1. /\ dl'.pc = IF dl.logs = {l} THEN "send" ELSE "headers"
          /\ dl'.from = dl.from /\ dl'.to = dl.to /\ dl'.logs = dl.logs \ {l}
          /\ dl'.out = dl.out \cup {b}
      BY <1>0, <2>5, Zenon DEF DownloaderState
    <3>2. dl.from <= n /\ n <= dl.to => n \in Nums(dl'.logs) \/ Found(n)'
      <4>1. CASE Found(n)
        BY <3>1, <4>1, Zenon DEF Found
      <4>2. ASSUME NEW h \in dl.logs, h.num = n PROVE n \in Nums(dl'.logs) \/ Found(n)'
        <5>1. CASE h = l
          BY <2>1, <3>1, <4>2, <5>1, Zenon DEF Found
        <5>2. CASE h # l
          <6>1. h \in dl'.logs
            BY <3>1, <4>2, <5>2, Zenon
          <6>. QED  BY <4>2, <6>1, Zenon DEF Nums
        <5>. QED  BY <5>1, <5>2, Zenon
      <4>3. n \in Nums(dl.logs) => \E h \in dl.logs : h.num = n
        BY Zenon DEF Nums
      <4>. QED  BY <1>2, <2>1, <4>1, <4>2, <4>3, Zenon
    <3>3. n < dl.from \/ dl.from <= n
      BY <1>0, <1>t
    <3>4. CASE dl.logs = {l}
      <4>1. Nums(dl'.logs) = {} /\ dl'.pc = "send"
        BY <3>1, <3>4, Zenon DEF Nums
      <4>. QED  BY <1>3, <2>1, <2>3, <3>1, <3>2, <3>3, <4>1, Zenon
    <3>5. CASE dl.logs # {l}
      BY <1>3, <2>1, <2>3, <3>1, <3>2, <3>5, Zenon
    <3>. QED  BY <3>4, <3>5, Zenon
  <2>. QED  BY <2>2, <2>4, <2>5, Zenon
<1>8. CASE SendBlock
  <2>. DEFINE b == Lowest(dl.out)
  <2>1. dl.pc = "send" /\ ch' = Append(ch, b)
    BY <1>8, Zenon DEF SendBlock
  <2>2. b \in dl.out /\ \A x \in dl.out : b.num <= x.num
    BY <1>t, <1>8, LowestProp, Zenon DEF SendBlock
  <2>3. \/ dl.out = {b} /\ dl' = [dl EXCEPT !.pc = "loop", !.out = {}, !.from = dl.to + 1]
        \/ dl' = [dl EXCEPT !.out = @ \ {b}]
    BY <1>8, Zenon DEF SendBlock
  <2>. HIDE DEF b
  <2>4. /\ Len(ch') = Len(ch) + 1 /\ ch'[Len(ch) + 1] = b
        /\ \A i \in 1 .. Len(ch) : ch'[i] = ch[i]
    BY <1>0, <2>1, <2>2 DEF TypeOK, DownloaderState
  <2>5. /\ \A i \in 1 .. Len(ch') : i \in 1 .. Len(ch) \/ i = Len(ch) + 1
        /\ \A i \in 1 .. Len(ch) : i \in 1 .. Len(ch')
        /\ Len(ch) + 1 \in 1 .. Len(ch')
    BY <1>t, <2>4
  <2>6. Sent(n) => Sent(n)'
    BY <1>1, <2>4, <2>5, Zenon DEF Sent, Stored
  <2>7. b.num = n /\ b.ev => Sent(n)'
    BY <2>4, <2>5, Zenon DEF Sent
  <2>8. n <= dl.to => Sent(n)' \/ (\E x \in dl.out \ {b} : x.num = n /\ x.ev)
    BY <1>2, <2>1, <2>6, <2>7, Zenon DEF Found
  <2>9. n <= b.num => Sent(n)'
    <3>1. b.num <= dl.to /\ Distinct(dl.out)
      BY <1>0, <2>1, <2>2, Zenon DEF DownloadOrder
    <3>2. ASSUME n <= b.num, NEW x \in dl.out, x.num = n PROVE x = b
      <4>1. x.num = b.num
        BY <1>0, <1>t, <2>2, <3>2
      <4>. QED  BY <2>2, <3>1, <3>2, <4>1, Zenon DEF Distinct
    <3>3. n <= b.num => n <= dl.to
      BY <1>0, <1>t, <2>2, <3>1
    <3>. QED  BY <2>8, <3>2, <3>3, Zenon
  <2>10. \A i \in 1 .. Len(ch') : n <= ch'[i].num => Sent(n)'
    BY <1>2, <2>4, <2>5, <2>6, <2>9, Zenon
  <2>11. CASE dl.out = {b} /\ dl' = [dl EXCEPT !.pc = "loop", !.out = {}, !.from = dl.to + 1]
    <3>1. dl'.pc = "loop" /\ dl'.from = dl.to + 1
      BY <1>0, <2>11, Zenon DEF DownloaderState
    <3>2. n < dl'.from => Sent(n)'
      BY <1>0, <1>t, <2>8, <2>11, <3>1
    <3>. QED  BY <1>1, <1>2, <2>6, <2>10, <3>1, <3>2, Zenon DEF OnItsWay
  <2>12. CASE dl' = [dl EXCEPT !.out = @ \ {b}]
    <3>1. dl'.pc = "send" /\ dl'.to = dl.to /\ dl'.out = dl.out \ {b}
      BY <1>0, <2>1, <2>12, Zenon DEF DownloaderState
    <3>2. n <= dl'.to => Sent(n)' \/ Found(n)'
      BY <2>8, <3>1, Zenon DEF Found
    <3>. QED  BY <1>1, <1>2, <2>6, <2>10, <3>1, <3>2, Zenon DEF OnItsWay
  <2>. QED  BY <2>3, <2>11, <2>12, Zenon
<1>9. CASE GetTailHeader
  <2>. DEFINE b == [num |-> dl.to, hash |-> chain[dl.to], ev |-> FALSE]
  <2>1. dl.pc = "send" /\ dl.out = {} /\ ch' = ch /\ dl' = [dl EXCEPT !.out = {b}, !.tail = FALSE]
    BY <1>0, <1>9, Zenon DEF GetTailHeader
  <2>. HIDE DEF b
  <2>2. dl'.pc = "send" /\ dl'.to = dl.to
    BY <1>0, <2>1, Zenon DEF DownloaderState
  <2>3. n <= dl.to => Sent(n)
    BY <1>2, <2>1, Zenon DEF Found
  <2>. QED  BY <1>3, <2>1, <2>2, <2>3, Zenon
<1>10. ~CloseChannel
  BY <1>0, Zenon DEF CloseChannel
<1>. QED  BY <1>4, <1>5, <1>6, <1>7, <1>8, <1>9, <1>10, Zenon DEF Download

\* Every step keeps the events: a new block is ahead of everybody, a reorganisation
\* only abandons events, and a rollback empties the pipeline and deletes from one
\* number on.
LEMMA EventStep == ASSUME IInv, HeadInv, EventInv, [Next]_vars PROVE EventInv'
<1>. SUFFICES ASSUME NEW n \in Blocks, Event(n)'
              PROVE  /\ (\A m \in Done : n <= m => Stored(n))'
                     /\ ~halted' => OnItsWay(n)'
  BY Zenon DEF EventInv, Blocks
<1>0. /\ TypeOK /\ head \in Nat /\ forks \in Nat /\ n \in Nat /\ n # 0 /\ InitialBlock \in Nat
      /\ Done \in SUBSET Nat /\ drv.blk.num \in Nat /\ \A i \in 1 .. Len(ch) : ch[i].num \in Nat
      /\ Len(ch) \in Nat /\ dl.from \in Nat /\ dl.to \in Nat
      /\ \A b \in block : b.num \in Nat
  <2>1. InitialBlock \in Nat /\ n \in Nat
    BY ChainAssumption DEF Blocks
  <2>2. n # 0
    BY <2>1 DEF Event
  <2>3. TypeOK
    BY Zenon DEF IInv
  <2>4. head \in Nat /\ forks \in Nat
    BY <2>3, ChainAssumption DEF TypeOK, ChainTypeOK, Blocks
  <2>5. \A b \in block : b.num \in Nat
    BY <2>3, ChainAssumption DEF TypeOK, EVMBlock, Blocks
  <2>. QED  BY <2>1, <2>2, <2>3, <2>4, <2>5, Numbers, Zenon
<1>e. Event(n) => /\ \A m \in Done : n <= m => Stored(n)
                  /\ ~halted => OnItsWay(n)
  BY Zenon DEF EventInv
<1>1. CASE Environment
  <2>1. UNCHANGED <<drv, dl, ch, block, halted>>
    BY <1>1, Zenon DEF Environment, dlVars
  <2>2. (OnItsWay(n)' <=> OnItsWay(n)) /\ Done' = Done /\ (Stored(n)' <=> Stored(n))
    BY <2>1, Zenon DEF OnItsWay, Sent, Stored, Found, Done, Nums
  <2>3. CASE Event(n)
    BY <1>e, <2>1, <2>2, <2>3, Zenon
  <2>4. CASE ~Event(n)
    <3>1. forks = 0 /\ n = head + 1
      <4>1. chain \in [Blocks -> Hash \cup {ZeroHash}] /\ head + 1 \in Nat
        BY <1>0 DEF TypeOK, ChainTypeOK
      <4>2. CASE MineBlock
        <5>1. PICK e \in BOOLEAN : chain' = [chain EXCEPT ![head + 1] = [fork |-> forks, ev |-> e]]
          BY <4>2, Zenon DEF MineBlock
        <5>2. CASE n = head + 1
          <6>1. chain'[n] = [fork |-> forks, ev |-> e]
            BY <4>1, <5>1, <5>2, Zenon
          <6>. QED  BY <5>2, <6>1 DEF Event
        <5>3. CASE n # head + 1
          <6>1. chain'[n] = chain[n] /\ head' = head + 1
            BY <4>1, <4>2, <5>1, <5>3, Zenon DEF MineBlock
          <6>2. n \in InitialBlock + 1 .. head
            BY <1>0, <5>3, <6>1 DEF Event
          <6>. QED  BY <2>4, <6>1, <6>2, Zenon DEF Event
        <5>. QED  BY <5>2, <5>3, Zenon
      <4>3. CASE Finalize
        BY <2>4, <4>3, Zenon DEF Finalize, Event
      <4>4. ASSUME NEW k \in Blocks, ReorgChain(k) PROVE FALSE
        <5>1. k \in Nat /\ head' = k /\ k <= head
          BY <4>4, ChainAssumption DEF ReorgChain, Blocks
        <5>2. PICK e \in BOOLEAN :
                 chain' = [m \in Blocks |-> IF m < k THEN chain[m]
                                            ELSE IF m = k THEN [fork |-> forks + 1, ev |-> e]
                                            ELSE ZeroHash]
          BY <4>4, Zenon DEF ReorgChain
        <5>3. n <= k /\ InitialBlock + 1 <= n /\ chain'[n] = [fork |-> 0, ev |-> TRUE]
          BY <1>0, <5>1 DEF Event
        <5>4. n # k
          <6>1. n = k => chain'[n].fork = forks + 1
            BY <5>1, <5>2
          <6>. QED  BY <1>0, <5>3, <6>1
        <5>5. chain'[n] = chain[n]
          BY <1>0, <5>1, <5>2, <5>3, <5>4
        <5>6. n \in InitialBlock + 1 .. head
          BY <1>0, <5>1, <5>3
        <5>. QED  BY <2>4, <5>3, <5>5, <5>6, Zenon DEF Event
      <4>. QED  BY <1>1, <4>2, <4>3, <4>4, Zenon DEF Environment
    <3>2. /\ \A m \in Done : ~(n <= m)
          /\ ~(n <= drv.blk.num)
          /\ \A i \in 1 .. Len(ch) : ~(n <= ch[i].num)
          /\ ~(n < dl.from) /\ ~(n <= dl.to)
      BY <1>0, <3>1 DEF HeadInv
    <3>3. OnItsWay(n)
      BY <3>2, Zenon DEF OnItsWay
    <3>. QED  BY <2>1, <2>2, <3>2, <3>3, Zenon
  <2>. QED  BY <2>3, <2>4, Zenon
<1>2. CASE ~Environment
  <2>e. Event(n)
    <3>1. UNCHANGED <<head, chain>>
      BY <1>2, Zenon
         DEF Next, Download, Driver, StartSync, ReceiveBlock, ProcessBlock, HaltProcessor,
         HandleReorg, ReorgProcessed, Detector, DetectReorg, CheckHeader, RemoveReorged, Restart,
         vars, chainVars
    <3>. QED  BY <3>1, Zenon DEF Event
  <2>d. /\ \A m \in Done : n <= m => Stored(n)
        /\ ~halted => OnItsWay(n)
    BY <1>e, <2>e, Zenon
  <2>k. ASSUME UNCHANGED block PROVE (\A m \in Done : n <= m => Stored(n))'
    <3>1. Done' = Done /\ (Stored(n)' <=> Stored(n))
      BY <2>k, Zenon DEF Done, Nums, Stored
    <3>. QED  BY <2>d, <3>1, Zenon
  <2>q. ASSUME drv'.pc # "process", dl'.pc = "done", ch' = << >> PROVE OnItsWay(n)'
    <3>1. \A i \in 1 .. Len(ch') : FALSE
      BY <2>q
    <3>. QED  BY <2>q, <3>1, Zenon DEF OnItsWay
  <2>b. Stopped.pc = "done" /\ \A pc : At(pc).pc = pc
    BY Zenon DEF Stopped, At
  <2>1. CASE Detector \/ UNCHANGED vars
    <3>1. UNCHANGED <<drv, dl, ch, block, halted>>
      BY <2>1, Zenon DEF Detector, DetectReorg, CheckHeader, RemoveReorged, vars, dlVars
    <3>2. OnItsWay(n)' <=> OnItsWay(n)
      BY <3>1, Zenon DEF OnItsWay, Sent, Stored, Found, Nums
    <3>. QED  BY <2>d, <2>k, <3>1, <3>2, Zenon
  <2>2. CASE Download
    <3>1. UNCHANGED <<block, halted>>
      BY <2>2, Zenon DEF Download
    <3>. QED  BY <2>2, <2>d, <2>e, <2>k, <3>1, DownloadEvents, Zenon
  <2>3. CASE StartSync
    <3>1. /\ ch' = << >> /\ drv' = At("select") /\ block' = block
          /\ dl' = [Stopped EXCEPT !.pc = "init", !.from = getLastProcessedBlock + 1]
      BY <2>3, Zenon DEF StartSync
    <3>2. dl'.pc = "init" /\ dl'.from = getLastProcessedBlock + 1 /\ drv'.pc = "select"
      BY <2>b, <3>1, Zenon DEF Stopped
    <3>3. getLastProcessedBlock \in Done
      BY <1>0, LastProcessedProp, Zenon
    <3>4. n < dl'.from => n <= getLastProcessedBlock
      BY <1>0, <3>2, <3>3
    <3>5. n < dl'.from => Sent(n)'
      BY <2>d, <3>1, <3>3, <3>4, Zenon DEF Sent, Stored
    <3>6. \A i \in 1 .. Len(ch') : FALSE
      BY <3>1
    <3>. QED  BY <2>k, <3>1, <3>2, <3>5, <3>6, Zenon DEF OnItsWay
  <2>4. CASE ReceiveBlock
    <3>1. UNCHANGED <<dl, closed, block, halted>> /\ drv.pc = "select"
      BY <2>4, Zenon DEF ReceiveBlock
    <3>2. ASSUME ~halted PROVE OnItsWay(n)'
      <4>1. ~closed
        BY <3>2, Zenon DEF IInv, HaltInv
      <4>2. /\ ch # << >> /\ ch' = Tail(ch) /\ drv' = [pc |-> "process", blk |-> Head(ch)]
        BY <2>4, <4>1, Zenon DEF ReceiveBlock
      <4>3. /\ Len(ch) \in Nat \ {0} /\ Len(ch') = Len(ch) - 1
            /\ drv'.pc = "process" /\ drv'.blk = ch[1] /\ 1 \in 1 .. Len(ch)
            /\ \A i \in 1 .. Len(ch') : ch'[i] = ch[i + 1] /\ i + 1 \in 1 .. Len(ch)
            /\ \A i \in 1 .. Len(ch) : i # 1 => i - 1 \in 1 .. Len(ch') /\ ch'[i - 1] = ch[i]
        BY <1>0, <4>2 DEF TypeOK
      <4>4. Sent(n) => Sent(n)'
        <5>1. CASE Stored(n)
          BY <3>1, <5>1, Zenon DEF Sent, Stored
        <5>2. ASSUME NEW i \in 1 .. Len(ch), ch[i].num = n, ch[i].ev PROVE Sent(n)'
          BY <4>3, <5>2, Zenon DEF Sent
        <5>. QED  BY <3>1, <5>1, <5>2, Zenon DEF Sent
      <4>5. OnItsWay(n)
        BY <2>d, <3>2, Zenon
      <4>6. /\ n <= drv'.blk.num => Sent(n)'
            /\ \A i \in 1 .. Len(ch') : n <= ch'[i].num => Sent(n)'
        BY <4>3, <4>4, <4>5, Zenon DEF OnItsWay
      <4>7. Found(n)' <=> Found(n)
        BY <3>1, Zenon DEF Found
      <4>8. Nums(dl.logs)' = Nums(dl.logs)
        BY <3>1, Zenon DEF Nums
      <4>. QED  BY <3>1, <4>4, <4>5, <4>6, <4>7, <4>8, Zenon DEF OnItsWay
    <3>. QED  BY <2>k, <3>1, <3>2, Zenon
  <2>5. CASE ProcessBlock
    <3>1. /\ drv.pc = "process" /\ ~halted /\ block' = block \cup {drv.blk}
          /\ drv' = At("select") /\ UNCHANGED <<dl, ch, halted>>
      BY <2>5, Zenon DEF ProcessBlock, dlVars
    <3>2. OnItsWay(n) /\ ChannelOrder
      BY <2>d, <3>1, Zenon DEF IInv, OrderInv
    <3>3. (Stored(n) => Stored(n)') /\ (drv.blk.num = n /\ drv.blk.ev => Stored(n)')
      BY <3>1, Zenon DEF Stored
    <3>4. Sent(n) => Sent(n)'
      BY <3>1, <3>3, Zenon DEF Sent
    <3>5. n <= drv.blk.num => Stored(n)'
      <4>1. \A i \in 1 .. Len(ch) : drv.blk.num < ch[i].num
        BY <3>1, <3>2, Zenon DEF ChannelOrder
      <4>2. n <= drv.blk.num => ~\E i \in 1 .. Len(ch) : ch[i].num = n
        BY <1>0, <4>1
      <4>. QED  BY <3>1, <3>2, <3>3, <4>2, Zenon DEF OnItsWay, Sent
    <3>6. Done' = Done \cup {drv.blk.num}
      BY <3>1, Zenon DEF Done, Nums
    <3>7. (\A m \in Done : n <= m => Stored(n))'
      BY <2>d, <3>3, <3>5, <3>6, Zenon
    <3>8. drv'.pc = "select" /\ (Found(n)' <=> Found(n)) /\ Nums(dl.logs)' = Nums(dl.logs)
      BY <2>b, <3>1, Zenon DEF Found, Nums
    <3>9. OnItsWay(n)'
      BY <3>1, <3>2, <3>4, <3>8, Zenon DEF OnItsWay
    <3>. QED  BY <3>7, <3>9, Zenon
  <2>6. CASE HaltProcessor
    <3>1. halted' /\ UNCHANGED block
      BY <2>6, Zenon DEF HaltProcessor
    <3>. QED  BY <2>k, <3>1, Zenon
  <2>7. CASE HandleReorg
    <3>1. /\ drv' = At("ack") /\ dl' = Stopped /\ ch' = << >>
          /\ block' = {b \in block : b.num < det.at}
      BY <2>7, Zenon DEF HandleReorg, Reorg
    <3>2. OnItsWay(n)'
      BY <2>b, <2>q, <3>1, Zenon
    <3>3. ASSUME NEW m \in Done', n <= m PROVE Stored(n)'
      <4>1. m # 0
        BY <1>0, <3>3
      <4>2. PICK b \in block' : b.num = m
        BY <4>1, Zenon DEF Done, Nums
      <4>3. b \in block /\ m < det.at
        BY <3>1, <4>2, Zenon
      <4>4. m \in Done /\ m \in Nat /\ det.at \in Nat
        BY <1>0, <4>2, <4>3, ChainAssumption DEF Done, Nums, TypeOK, DetectorState, Blocks
      <4>5. PICK x \in block : x.num = n /\ x.ev
        BY <2>d, <3>3, <4>4, Zenon DEF Stored
      <4>6. x.num < det.at
        BY <1>0, <3>3, <4>3, <4>4, <4>5
      <4>. QED  BY <3>1, <4>5, <4>6, Zenon DEF Stored
    <3>. QED  BY <3>2, <3>3, Zenon
  <2>8. CASE ReorgProcessed
    <3>1. /\ drv.pc = "ack" /\ drv' = At("reset") /\ UNCHANGED <<dl, ch, block>>
      BY <2>8, Zenon DEF ReorgProcessed, dlVars
    <3>2. dl.pc = "done" /\ ch = << >> /\ drv'.pc = "reset"
      BY <2>b, <3>1, Zenon DEF IInv, QuietInv
    <3>. QED  BY <2>k, <2>q, <3>1, <3>2, Zenon
  <2>9. CASE Restart
    <3>1. /\ drv' = At("reset") /\ dl' = Stopped /\ ch' = << >> /\ UNCHANGED block
      BY <2>9, Zenon DEF Restart
    <3>. QED  BY <2>b, <2>k, <2>q, <3>1, Zenon
  <2>. QED  BY <1>2, <2>1, <2>2, <2>3, <2>4, <2>5, <2>6, <2>7, <2>8, <2>9, Zenon DEF Next, Driver
<1>. QED  BY <1>1, <1>2, Zenon

\* The initial state: only the initial block is stored, and no event is due below it.
LEMMA InitEvents == Init => HeadInv /\ EventInv
<1>. SUFFICES ASSUME Init PROVE HeadInv /\ EventInv
  BY Zenon
<1>0. InitialBlock \in Nat
  BY ChainAssumption, Zenon
<1>1. /\ ch = << >> /\ head = InitialBlock
      /\ drv.pc = "reset" /\ drv.blk.num = 0
      /\ dl.pc = "done" /\ dl.from = 1 /\ dl.to = 0 /\ dl.last = 0 /\ dl.out = {} /\ dl.logs = {}
      /\ Done = {0, InitialBlock}
  <2>1. /\ ch = << >> /\ head = InitialBlock
        /\ drv.pc = "reset" /\ drv.blk.num = 0
    BY Zenon DEF Init, ChainInit, At, ZeroBlock
  <2>2. dl.pc = "done" /\ dl.from = 1 /\ dl.to = 0 /\ dl.last = 0 /\ dl.out = {} /\ dl.logs = {}
    BY Zenon DEF Init, Stopped
  <2>3. Done = {0, InitialBlock}
    BY DEF Init, Done, Nums
  <2>. QED  BY <2>1, <2>2, <2>3, Zenon
<1>2. \A i \in 1 .. Len(ch) : FALSE
  BY <1>1
<1>3. HeadInv
  BY <1>0, <1>1, <1>2 DEF HeadInv
<1>4. \A n \in Blocks : ~Event(n)
  BY <1>0, <1>1 DEF Event
<1>. QED  BY <1>3, <1>4, Zenon DEF EventInv

\* An event of the first branch is stored with its block once getLastProcessedBlock
\* is past it, in every interleaving of the downloader's ranges, retries and
\* restarts with reorganisations (Download, handleNewBlock, handleReorg).
THEOREM EventsAreStored == Spec => []NoEventSkipped
<1>1. Init => IInv /\ HeadInv /\ EventInv
  BY InitIInv, InitEvents, Zenon
<1>2. (IInv /\ HeadInv /\ EventInv) /\ [Next]_vars => (IInv /\ HeadInv /\ EventInv)'
  BY StepIInv, HeadStep, EventStep, Zenon
<1>3. IInv /\ EventInv => NoEventSkipped
  <2>. SUFFICES ASSUME IInv, EventInv,
                       NEW n \in InitialBlock + 1 .. head, n <= getLastProcessedBlock,
                       chain[n] = [fork |-> 0, ev |-> TRUE]
                PROVE  \E b \in block : b.num = n /\ b.ev
    BY Zenon DEF NoEventSkipped
  <2>1. getLastProcessedBlock \in Done
    BY LastProcessedProp, Zenon DEF IInv
  <2>2. n \in Blocks /\ Event(n)
    BY ChainAssumption DEF IInv, TypeOK, ChainTypeOK, Blocks, Event
  <2>. QED  BY <2>1, <2>2, Zenon DEF EventInv, Stored
<1>. QED  BY <1>1, <1>2, <1>3, PTL DEF Spec

-----------------------------------------------------------------------------
(* An abandoned block can be found out: the invariant                      *)

HeaderOf(b) == [num |-> b.num, hash |-> b.hash]
Stale(x)    == x.hash # chain[x.num]

\* What is on its way to the table, and what the detector holds.
Pipe  == InProcess \cup {ch[i] : i \in 1 .. Len(ch)} \cup dl.out
Known == tracked \cup tracked_block \cup det.snap

\* The canonical chain ends at the head and holds branches that exist.
BranchInv ==
    /\ finalized >= InitialBlock
    /\ \A n \in Blocks : n <= head <=> chain[n] \in Hash
    /\ \A n \in Blocks : n <= head => chain[n].fork <= forks

\* A hash of the first branch that is abandoned has been replaced by the second one.
Sound(x) ==
    /\ x.hash \in Hash /\ x.hash.fork <= forks
    /\ Stale(x) => /\ x.hash.fork = 0 /\ forks # 0
                   /\ chain[x.num] \in Hash => chain[x.num].fork # 0

HoldInv ==
    /\ ~halted
    /\ dl.pc \notin {"headers", "send"} => dl.out = {}
    /\ \A x \in Pipe \cup Known \cup block : Sound(x)
    /\ \A x \in Pipe \cup Known : x.num > InitialBlock

\* The table of tracked blocks never loses a row here: what is stored is in it.
RowsInv ==
    /\ tracked \subseteq tracked_block /\ Distinct(tracked_block)
    /\ \A b \in block : b.num = InitialBlock \/ HeaderOf(b) \in tracked_block
    /\ \A b \in InProcess : HeaderOf(b) \in tracked_block
    /\ \E b \in block : b.num = InitialBlock

\* Until the reorganisation everything that is not final is tracked.
BeforeInv ==
    forks = 0 =>
       /\ det.pc \in {"idle", "scan"}
       /\ \A b \in block \cup InProcess : b.num > finalized => HeaderOf(b) \in tracked

\* The snapshot of a scan never shows as canonical what is abandoned in the list.
ScanInv ==
    /\ det.fin <= finalized
    /\ \A h \in det.snap : \A w \in tracked : h.num = w.num /\ ~Stale(h) => ~Stale(w)

\* A reorg that is being handled has emptied the pipeline, and what is removed from
\* the list afterwards is needed by no stored block.
NotifyInv ==
    /\ det.pc \in {"notify", "await", "remove"} => det.at > InitialBlock
    /\ det.pc \in {"await", "remove"} =>
          /\ \A x \in Pipe : ~Stale(x)
          /\ \A b \in block : Stale(b) =>
                \E h \in tracked : Stale(h) /\ h.num <= b.num /\ h.num < det.at

\* While an abandoned block is on its way, the detector has seen the first branch only.
PipeInv ==
    /\ \A b \in InProcess : Stale(b) => HeaderOf(b) \in tracked
    /\ \A y \in Pipe : Stale(y) =>
          /\ \A h \in tracked \cup det.snap : h.hash.fork = 0
          /\ \A x \in Pipe : x.num < y.num => x.hash.fork = 0

StaleInv ==
    /\ BranchInv /\ HoldInv /\ RowsInv /\ BeforeInv /\ ScanInv /\ NotifyInv /\ PipeInv
    /\ StaleIsTracked

-----------------------------------------------------------------------------
(* An abandoned block can be found out: the steps                          *)

\* What the pipeline and the detector hold are blocks and headers.
LEMMA HoldTypes ==
    ASSUME TypeOK
    PROVE  /\ Pipe \subseteq EVMBlock
           /\ Known \subseteq Header
           /\ \A x \in Pipe \cup Known \cup block : x.num \in Blocks /\ x.num \in Nat
           /\ InitialBlock \in Nat /\ InitialBlock > 2 /\ head \in Nat /\ finalized \in Nat
           /\ forks \in Nat /\ det.at \in Nat /\ det.fin \in Nat
<1>1. InitialBlock \in Nat /\ InitialBlock > 2 /\ head \in Nat /\ finalized \in Nat /\ forks \in Nat
  BY ChainAssumption, SyncAssumption DEF TypeOK, ChainTypeOK, Blocks
<1>2. det.at \in Nat /\ det.fin \in Nat
  BY ChainAssumption DEF TypeOK, DetectorState, Blocks
<1>3. Known \subseteq Header
  BY Zenon DEF TypeOK, DetectorState, Known
<1>4. InProcess \subseteq EVMBlock /\ dl.out \subseteq EVMBlock
  BY Zenon DEF TypeOK, DriverState, DownloaderState, InProcess
<1>5. \A i \in 1 .. Len(ch) : ch[i] \in EVMBlock
  BY DEF TypeOK
<1>6. Pipe \subseteq EVMBlock
  BY <1>4, <1>5, Zenon DEF Pipe
<1>7. \A x \in Pipe \cup block : x.num \in Blocks
  BY <1>6, Zenon DEF EVMBlock, TypeOK
<1>8. \A x \in Known : x.num \in Blocks
  BY <1>3, Zenon DEF Header
<1>9. \A n \in Blocks : n \in Nat
  BY ChainAssumption DEF Blocks
<1>. QED  BY <1>1, <1>2, <1>3, <1>6, <1>7, <1>8, <1>9, Zenon

\* A longer chain and a later finality change no verdict.
LEMMA GrowthKeeps ==
    ASSUME TypeOK, BranchInv, MineBlock \/ Finalize
    PROVE  /\ BranchInv'
           /\ forks' = forks /\ finalized' \in Nat /\ finalized <= finalized'
           /\ \A x : x.num \in Blocks /\ Sound(x) => (Stale(x)' <=> Stale(x)) /\ Sound(x)'
<1>0. /\ head \in Nat /\ finalized \in Nat /\ forks \in Nat /\ InitialBlock \in Nat
      /\ forks \in 0 .. MaxForks
      /\ chain \in [Blocks -> Hash \cup {ZeroHash}]
      /\ \A n \in Blocks : n \in Nat
      /\ LastBlock \in Nat
  BY HoldTypes, ChainAssumption DEF TypeOK, ChainTypeOK, Blocks
<1>1. CASE Finalize
  <2>1. UNCHANGED <<chain, head, forks>> /\ finalized' = finalized + 1
    BY <1>1, Zenon DEF Finalize
  <2>2. finalized' \in Nat /\ finalized <= finalized' /\ finalized' >= InitialBlock
    BY <1>0, <2>1 DEF BranchInv
  <2>3. BranchInv'
    BY <2>1, <2>2, Zenon DEF BranchInv
  <2>4. \A x : (Stale(x)' <=> Stale(x)) /\ (Sound(x)' <=> Sound(x))
    BY <2>1, Zenon DEF Stale, Sound
  <2>. QED  BY <2>1, <2>2, <2>3, <2>4, Zenon
<1>2. CASE MineBlock
  <2>1. head' = head + 1 /\ head < LastBlock /\ UNCHANGED <<finalized, forks>>
    BY <1>2, Zenon DEF MineBlock
  <2>2. PICK e \in BOOLEAN : chain' = [chain EXCEPT ![head + 1] = [fork |-> forks, ev |-> e]]
    BY <1>2, Zenon DEF MineBlock
  <2>3. head + 1 \in Blocks
    BY <1>0, <2>1 DEF Blocks
  <2>4. /\ chain'[head + 1] = [fork |-> forks, ev |-> e]
        /\ \A n \in Blocks : n # head + 1 => chain'[n] = chain[n]
    BY <1>0, <2>2, <2>3, Zenon
  <2>5. chain'[head + 1] \in Hash /\ chain'[head + 1].fork = forks
    BY <1>0, <2>4 DEF Hash
  <2>6. chain[head + 1] \notin Hash
    BY <1>0, <2>3 DEF BranchInv
  <2>7. BranchInv'
    <3>1. ASSUME NEW n \in Blocks
          PROVE  (n <= head + 1 <=> chain'[n] \in Hash) /\ (n <= head + 1 => chain'[n].fork <= forks)
      <4>1. CASE n = head + 1
        BY <1>0, <2>5, <4>1
      <4>2. CASE n # head + 1
        <5>1. n <= head + 1 <=> n <= head
          BY <1>0, <4>2
        <5>. QED  BY <2>4, <4>2, <5>1, Zenon DEF BranchInv
      <4>. QED  BY <4>1, <4>2, Zenon
    <3>. QED  BY <2>1, <3>1, Zenon DEF BranchInv
  <2>8. ASSUME NEW x, x.num \in Blocks, Sound(x)
        PROVE  (Stale(x)' <=> Stale(x)) /\ Sound(x)'
    <3>1. CASE x.num # head + 1
      <4>1. chain'[x.num] = chain[x.num]
        BY <2>4, <2>8, <3>1, Zenon
      <4>. QED  BY <2>1, <2>8, <4>1, Zenon DEF Stale, Sound
    <3>2. CASE x.num = head + 1
      <4>1. Stale(x)
        BY <2>6, <2>8, <3>2, Zenon DEF Sound, Stale
      <4>2. x.hash.fork = 0 /\ forks # 0
        BY <2>8, <4>1, Zenon DEF Sound
      <4>3. Stale(x)'
        BY <2>5, <3>2, <4>2, Zenon DEF Stale
      <4>. QED  BY <2>1, <2>5, <2>8, <3>2, <4>1, <4>2, <4>3, Zenon DEF Sound
    <3>. QED  BY <3>1, <3>2, Zenon
  <2>9. finalized <= finalized' /\ finalized' \in Nat
    BY <1>0, <2>1
  <2>. QED  BY <2>1, <2>7, <2>8, <2>9, Zenon
<1>. QED  BY <1>1, <1>2, Zenon

\* The reorganisation abandons what is at or above its block, and all that was held
\* is of the first branch.
LEMMA ReorgAbandons ==
    ASSUME TypeOK, BranchInv, forks = 0, NEW n \in Blocks, ReorgChain(n)
    PROVE  /\ BranchInv'
           /\ forks' = 1 /\ finalized' = finalized /\ n > finalized
           /\ \A x : x.num \in Blocks /\ Sound(x) =>
                 (Stale(x)' <=> x.num >= n) /\ Sound(x)' /\ x.hash.fork = 0
<1>0. /\ head \in Nat /\ finalized \in Nat /\ InitialBlock \in Nat
      /\ chain \in [Blocks -> Hash \cup {ZeroHash}]
      /\ \A m \in Blocks : m \in Nat
      /\ n \in Nat
  BY HoldTypes, ChainAssumption DEF TypeOK, ChainTypeOK, Blocks
<1>1. /\ n > finalized /\ n <= head /\ forks' = 1 /\ head' = n /\ finalized' = finalized
      /\ 1 \in 0 .. MaxForks
  BY ChainAssumption DEF ReorgChain
<1>2. PICK e \in BOOLEAN :
         chain' = [m \in Blocks |-> IF m < n THEN chain[m]
                                    ELSE IF m = n THEN [fork |-> forks + 1, ev |-> e]
                                    ELSE ZeroHash]
  BY Zenon DEF ReorgChain
<1>3. /\ \A m \in Blocks : m < n => chain'[m] = chain[m]
      /\ chain'[n] = [fork |-> 1, ev |-> e]
      /\ \A m \in Blocks : m > n => chain'[m] = ZeroHash
  BY <1>0, <1>2
<1>4. chain'[n] \in Hash /\ chain'[n].fork = 1 /\ ZeroHash \notin Hash
  BY <1>1, <1>3, ZeroHashAssumption DEF Hash
<1>5. BranchInv'
  <2>1. ASSUME NEW m \in Blocks
        PROVE  (m <= n <=> chain'[m] \in Hash) /\ (m <= n => chain'[m].fork <= 1)
    <3>1. CASE m < n
      <4>1. chain[m] \in Hash /\ chain[m].fork <= 0
        BY <1>0, <1>1, <3>1 DEF BranchInv
      <4>2. chain[m].fork \in Nat
        BY <4>1, ChainAssumption DEF Hash
      <4>. QED  BY <1>0, <1>3, <3>1, <4>1, <4>2
    <3>2. CASE m = n
      BY <1>0, <1>4, <3>2
    <3>3. CASE m > n
      <4>1. ~(m <= n)
        BY <1>0, <3>3
      <4>2. chain'[m] = ZeroHash
        BY <1>3, <3>3, Zenon
      <4>. QED  BY <1>4, <4>1, <4>2, Zenon
    <3>4. m < n \/ m = n \/ m > n
      BY <1>0
    <3>. QED  BY <3>1, <3>2, <3>3, <3>4, Zenon
  <2>. QED  BY <1>1, <2>1, Zenon DEF BranchInv
<1>6. ASSUME NEW x, x.num \in Blocks, Sound(x)
      PROVE  (Stale(x)' <=> x.num >= n) /\ Sound(x)' /\ x.hash.fork = 0
  <2>1. x.hash \in Hash /\ x.hash.fork = 0 /\ x.hash = chain[x.num] /\ x.num \in Nat
    <3>1. x.hash \in Hash /\ x.hash.fork <= 0 /\ ~Stale(x)
      BY <1>6, Zenon DEF Sound
    <3>2. x.hash.fork \in Nat
      BY <3>1, ChainAssumption DEF Hash
    <3>3. x.hash.fork = 0
      BY <3>1, <3>2
    <3>4. x.hash = chain[x.num] /\ x.num \in Nat
      BY <1>0, <1>6, <3>1, Zenon DEF Stale
    <3>. QED  BY <3>1, <3>3, <3>4, Zenon
  <2>2. CASE x.num < n
    <3>1. ~Stale(x)' /\ ~(x.num >= n)
      BY <1>0, <1>3, <1>6, <2>1, <2>2 DEF Stale
    <3>. QED  BY <1>1, <2>1, <3>1 DEF Sound
  <2>3. CASE x.num >= n
    <3>1. chain'[x.num] = ZeroHash \/ chain'[x.num].fork = 1
      BY <1>0, <1>3, <1>4, <1>6, <2>1, <2>3
    <3>2. Stale(x)'
      BY <1>4, <2>1, <3>1 DEF Stale
    <3>3. Sound(x)'
      BY <1>1, <1>4, <2>1, <3>1 DEF Sound
    <3>. QED  BY <2>1, <2>3, <3>2, <3>3, Zenon
  <2>. QED  BY <1>0, <2>1, <2>2, <2>3
<1>. QED  BY <1>1, <1>5, <1>6, Zenon

\* The chain moves under everything that is held.
LEMMA EnvironmentStale ==
    ASSUME MaxForks <= 1, IInv, StaleInv, Environment PROVE StaleInv'
<1>0. TypeOK
  BY Zenon DEF IInv
<1>h. /\ BranchInv /\ HoldInv /\ RowsInv /\ BeforeInv /\ ScanInv /\ NotifyInv /\ PipeInv
      /\ StaleIsTracked
  BY Zenon DEF StaleInv
<1>t. /\ \A x \in Pipe \cup Known \cup block : x.num \in Blocks /\ x.num \in Nat
      /\ InitialBlock \in Nat /\ finalized \in Nat /\ forks \in Nat /\ det.fin \in Nat
  BY <1>0, HoldTypes, Zenon
<1>1. UNCHANGED <<tracked, tracked_block, det, drv, dl, ch, block, halted>>
  BY Zenon DEF Environment, detVars, dlVars
<1>2. Pipe' = Pipe /\ Known' = Known /\ InProcess' = InProcess
  BY <1>1, Zenon DEF Pipe, Known, InProcess
<1>s. /\ \A x \in Pipe \cup Known \cup block : Sound(x)
      /\ InProcess \subseteq Pipe /\ tracked \subseteq Known /\ det.snap \subseteq Known
  BY <1>h, Zenon DEF HoldInv, Pipe, Known
<1>3. RowsInv'
  BY <1>1, <1>2, <1>h, Zenon DEF RowsInv, HeaderOf
<1>4. CASE MineBlock \/ Finalize
  <2>1. /\ BranchInv' /\ forks' = forks /\ finalized' \in Nat /\ finalized <= finalized'
        /\ \A x \in Pipe \cup Known \cup block : (Stale(x)' <=> Stale(x)) /\ Sound(x)'
    BY <1>0, <1>4, <1>h, <1>s, <1>t, GrowthKeeps, Zenon
  <2>2. HoldInv'
    BY <1>1, <1>2, <1>h, <2>1, Zenon DEF HoldInv
  <2>3. BeforeInv'
    <3>1. \A b \in block \cup InProcess : b.num > finalized' => b.num > finalized
      BY <1>s, <1>t, <2>1
    <3>. QED  BY <1>1, <1>2, <1>h, <2>1, <3>1, Zenon DEF BeforeInv
  <2>4. ScanInv'
    <3>1. det.fin <= finalized'
      BY <1>h, <1>t, <2>1 DEF ScanInv
    <3>. QED  BY <1>1, <1>h, <1>s, <2>1, <3>1, Zenon DEF ScanInv
  <2>5. NotifyInv'
    BY <1>1, <1>2, <1>h, <1>s, <2>1, Zenon DEF NotifyInv
  <2>6. PipeInv'
    BY <1>1, <1>2, <1>h, <1>s, <2>1, ZenonT(30) DEF PipeInv
  <2>7. StaleIsTracked'
    BY <1>1, <1>h, <1>s, <2>1, Zenon DEF StaleIsTracked, Stale
  <2>. QED  BY <1>3, <2>1, <2>2, <2>3, <2>4, <2>5, <2>6, <2>7, Zenon DEF StaleInv
<1>5. ASSUME NEW n \in Blocks, ReorgChain(n) PROVE StaleInv'
  <2>0. forks = 0 /\ n \in Nat
    BY <1>5, <1>t, ChainAssumption DEF ReorgChain, Blocks
  <2>1. /\ BranchInv' /\ forks' = 1 /\ finalized' = finalized /\ n > finalized
        /\ \A x \in Pipe \cup Known \cup block :
              (Stale(x)' <=> x.num >= n) /\ Sound(x)' /\ x.hash.fork = 0
    BY <1>0, <1>5, <1>h, <1>s, <1>t, <2>0, ReorgAbandons, Zenon
  <2>2. HoldInv'
    BY <1>1, <1>2, <1>h, <2>1, Zenon DEF HoldInv
  <2>3. BeforeInv'
    BY <2>1 DEF BeforeInv
  <2>4. ScanInv'
    BY <1>1, <1>h, <1>s, <2>1, Zenon DEF ScanInv
  <2>5. det.pc \in {"idle", "scan"}
    BY <1>h, <2>0, Zenon DEF BeforeInv
  <2>6. NotifyInv'
    BY <1>1, <2>5, Zenon DEF NotifyInv
  <2>7. \A b \in block \cup InProcess : Stale(b)' => HeaderOf(b) \in tracked
    <3>1. \A b \in block \cup InProcess : b.num >= n => b.num > finalized
      BY <1>s, <1>t, <2>0, <2>1
    <3>. QED  BY <1>h, <1>s, <2>0, <2>1, <3>1, Zenon DEF BeforeInv
  <2>8. PipeInv'
    <3>1. \A b \in InProcess' : Stale(b)' => HeaderOf(b)' \in tracked'
      BY <1>1, <1>2, <2>7, Zenon DEF HeaderOf
    <3>. QED  BY <1>1, <1>2, <1>s, <2>1, <3>1, Zenon DEF PipeInv
  <2>9. StaleIsTracked'
    <3>. SUFFICES ASSUME NEW b \in block, b.hash # chain'[b.num]
                  PROVE  \E h \in tracked : h.num <= b.num /\ h.hash # chain'[h.num]
      BY <1>1, Zenon DEF StaleIsTracked
    <3>1. HeaderOf(b) \in tracked
      BY <2>7, Zenon DEF Stale
    <3>2. HeaderOf(b).num = b.num /\ HeaderOf(b).hash = b.hash
      BY Zenon DEF HeaderOf
    <3>3. b.num <= b.num
      BY <1>t
    <3>. QED  BY <3>1, <3>2, <3>3, Zenon
  <2>. QED  BY <1>3, <2>1, <2>2, <2>3, <2>4, <2>6, <2>8, <2>9, Zenon DEF StaleInv
<1>. QED  BY <1>4, <1>5, Zenon DEF Environment

\* The downloader takes a block out of the chain, above everything before it.
LEMMA DownloadPipe ==
    ASSUME IInv, StaleInv, Download
    PROVE  /\ dl'.pc \notin {"headers", "send"} => dl'.out = {}
           /\ \/ Pipe' \subseteq Pipe
              \/ \E b \in EVMBlock : /\ Pipe' \subseteq Pipe \cup {b}
                                     /\ Sound(b) /\ ~Stale(b) /\ b.num > InitialBlock
                                     /\ \A x \in Pipe : x.num < b.num
<1>0. /\ TypeOK /\ WorkInv /\ dl \in DownloaderState
      /\ BranchInv /\ HoldInv /\ RowsInv
      /\ ~halted /\ ~dl.cancelled /\ ChannelOrder /\ DownloadOrder
      /\ dl.pc \notin {"headers", "send"} => dl.out = {}
  BY Zenon DEF IInv, TypeOK, HaltInv, OrderInv, StaleInv, HoldInv
<1>1. UNCHANGED <<drv, block, chain, head, forks>>
  BY Zenon DEF Download, chainVars
<1>t. /\ \A i \in 1 .. Len(ch) : ch[i].num \in Nat
      /\ Len(ch) \in Nat /\ dl.from \in Nat /\ dl.to \in Nat
      /\ \A h \in dl.logs : h.num \in Nat /\ h.num \in Blocks
      /\ \A b \in dl.out : b.num \in Nat
      /\ dl.to \in Blocks /\ head \in Nat /\ InitialBlock \in Nat
      /\ \A x \in Pipe : x.num \in Nat
  <2>1. \A h \in dl.logs : h.num \in Blocks
    BY <1>0, Zenon DEF DownloaderState, Header
  <2>. QED  BY <1>0, <2>1, Numbers, HoldTypes, Zenon DEF DownloaderState
<1>p. /\ Pipe = InProcess \cup {ch[i] : i \in 1 .. Len(ch)} \cup dl.out
      /\ Pipe' = InProcess \cup {ch'[i] : i \in 1 .. Len(ch')} \cup dl'.out
  BY <1>1, Zenon DEF Pipe, InProcess
<1>2. ASSUME ch' = ch, dl'.out \subseteq dl.out PROVE Pipe' \subseteq Pipe
  BY <1>2, <1>p, Zenon
<1>i. ASSUME NEW m \in Nat, Below(m)
      PROVE  /\ m > InitialBlock
             /\ \A x \in InProcess : x.num < m
             /\ \A i \in 1 .. Len(ch) : ch[i].num < m
  <2>1. InitialBlock \in Done
    BY <1>0, Zenon DEF RowsInv, Done, Nums
  <2>. QED  BY <1>i, <1>t, <2>1, Zenon DEF Below, InProcess
<1>c. ASSUME NEW b \in EVMBlock, b.num \in Blocks, b.num <= head, b.hash = chain[b.num]
      PROVE  Sound(b) /\ ~Stale(b)
  BY <1>0, <1>c, Zenon DEF BranchInv, Sound, Stale
<1>3. CASE WaitForNewBlocks
  <2>1. dl.pc \in {"init", "loop"} /\ ch' = ch /\ dl'.pc = "loop" /\ dl'.out = dl.out
    BY <1>0, <1>3, Zenon DEF WaitForNewBlocks, DownloaderState
  <2>. QED  BY <1>0, <1>2, <2>1, Zenon
<1>4. CASE StartRange
  <2>1. dl.pc = "loop" /\ ch' = ch /\ dl'.pc = "query" /\ dl'.out = dl.out
    BY <1>0, <1>4, Zenon DEF StartRange, DownloaderState
  <2>. QED  BY <1>0, <1>2, <2>1, Zenon
<1>5. CASE GetLogs
  <2>. DEFINE logs == {HeaderByNumber(k) : k \in {m \in dl.from .. dl.to : m <= head /\ chain[m].ev}}
  <2>1. /\ ch' = ch
        /\ dl' = [dl EXCEPT !.pc = IF logs = {} THEN "send" ELSE "headers",
                            !.logs = logs, !.out = {}, !.tail = logs = {}]
    BY <1>0, <1>5, Zenon DEF GetLogs
  <2>. HIDE DEF logs
  <2>2. dl'.out = {}
    BY <1>0, <2>1, Zenon DEF DownloaderState
  <2>. QED  BY <1>2, <2>1, <2>2, Zenon
<1>6. CASE CheckLogHeader
  <2>. DEFINE l == Lowest(dl.logs)
              b == [num |-> l.num, hash |-> l.hash, ev |-> TRUE]
  <2>1. l \in dl.logs
    BY <1>0, <1>t, <1>6, LowestProp, Zenon DEF CheckLogHeader, WorkInv
  <2>2. /\ dl.pc = "headers" /\ ch' = ch /\ l.num <= head
        /\ b.num = l.num /\ b.hash = l.hash
    BY <1>0, <1>6, Zenon DEF CheckLogHeader
  <2>3. b \in EVMBlock
    BY <1>0, <2>1, Zenon DEF DownloaderState, Header, EVMBlock
  <2>4. \/ dl' = [dl EXCEPT !.pc = "query", !.logs = {}, !.out = {}]
        \/ /\ l.hash = chain[l.num]
           /\ dl' = [dl EXCEPT !.pc = IF dl.logs = {l} THEN "send" ELSE "headers",
                               !.logs = @ \ {l}, !.out = @ \cup {b}, !.tail = l.num < dl.to]
    BY <1>0, <1>6, Zenon DEF CheckLogHeader
  <2>. HIDE DEF l, b
  <2>5. CASE dl' = [dl EXCEPT !.pc = "query", !.logs = {}, !.out = {}]
    <3>1. dl'.out = {}
      BY <1>0, <2>5, Zenon DEF DownloaderState
    <3>. QED  BY <1>2, <2>2, <3>1, Zenon
  <2>6. CASE /\ l.hash = chain[l.num]
             /\ dl' = [dl EXCEPT !.pc = IF dl.logs = {l} THEN "send" ELSE "headers",
                                 !.logs = @ \ {l}, !.out = @ \cup {b}, !.tail = l.num < dl.to]
    <3>1. dl'.pc \in {"send", "headers"} /\ dl'.out = dl.out \cup {b}
      BY <1>0, <2>6, Zenon DEF DownloaderState
    <3>2. Sound(b) /\ ~Stale(b)
      BY <1>c, <1>t, <2>1, <2>2, <2>3, <2>6, Zenon
    <3>3. /\ Below(dl.from) /\ dl.from <= l.num /\ \A x \in dl.out : x.num < l.num
      BY <1>0, <2>1, <2>2, Zenon DEF DownloadOrder
    <3>4. /\ dl.from > InitialBlock
          /\ \A x \in InProcess : x.num < dl.from
          /\ \A i \in 1 .. Len(ch) : ch[i].num < dl.from
      BY <1>i, <1>t, <3>3, Zenon
    <3>5. \A x \in Pipe : x.num < dl.from \/ x.num < l.num
      BY <1>p, <3>3, <3>4, Zenon
    <3>6. b.num > InitialBlock /\ \A x \in Pipe : x.num < b.num
      BY <1>t, <2>1, <2>2, <3>3, <3>4, <3>5
    <3>7. Pipe' \subseteq Pipe \cup {b}
      BY <1>p, <2>2, <3>1, Zenon
    <3>. QED  BY <2>3, <3>1, <3>2, <3>6, <3>7, Zenon
  <2>. QED  BY <2>4, <2>5, <2>6, Zenon
<1>7. CASE SendBlock
  <2>. DEFINE b == Lowest(dl.out)
  <2>1. dl.pc = "send" /\ ch' = Append(ch, b)
    BY <1>7, Zenon DEF SendBlock
  <2>2. b \in dl.out
    BY <1>t, <1>7, LowestProp, Zenon DEF SendBlock
  <2>3. \/ dl' = [dl EXCEPT !.pc = "loop", !.out = {}, !.from = dl.to + 1]
        \/ dl' = [dl EXCEPT !.out = @ \ {b}]
    BY <1>7, Zenon DEF SendBlock
  <2>. HIDE DEF b
  <2>4. /\ dl'.out \subseteq dl.out
        /\ dl'.pc # "send" => dl'.out = {}
    <3>1. CASE dl' = [dl EXCEPT !.pc = "loop", !.out = {}, !.from = dl.to + 1]
      BY <1>0, <3>1, Zenon DEF DownloaderState
    <3>2. CASE dl' = [dl EXCEPT !.out = @ \ {b}]
      BY <1>0, <2>1, <3>2, Zenon DEF DownloaderState
    <3>. QED  BY <2>3, <3>1, <3>2, Zenon
  <2>5. \A i \in 1 .. Len(ch') : ch'[i] = b \/ \E j \in 1 .. Len(ch) : ch'[i] = ch[j]
    <3>1. /\ Len(ch') = Len(ch) + 1 /\ ch'[Len(ch) + 1] = b
          /\ \A i \in 1 .. Len(ch) : ch'[i] = ch[i]
      BY <1>0, <2>1, <2>2 DEF TypeOK, DownloaderState
    <3>2. \A i \in 1 .. Len(ch') : i \in 1 .. Len(ch) \/ i = Len(ch) + 1
      BY <1>t, <3>1
    <3>. QED  BY <3>1, <3>2, Zenon
  <2>6. Pipe' \subseteq Pipe
    BY <1>p, <2>2, <2>4, <2>5, Zenon
  <2>. QED  BY <2>4, <2>6, Zenon
<1>8. CASE GetTailHeader
  <2>. DEFINE b == [num |-> dl.to, hash |-> chain[dl.to], ev |-> FALSE]
  <2>1. /\ dl.pc = "send" /\ dl.out = {} /\ dl.tail /\ dl.to <= head /\ ch' = ch
        /\ dl' = [dl EXCEPT !.out = {b}, !.tail = FALSE]
        /\ b.num = dl.to /\ b.hash = chain[dl.to]
    BY <1>0, <1>8, Zenon DEF GetTailHeader
  <2>2. b \in EVMBlock
    BY <1>0, <1>t, Zenon DEF TypeOK, ChainTypeOK, EVMBlock
  <2>. HIDE DEF b
  <2>3. dl'.pc = "send" /\ dl'.out = {b}
    BY <1>0, <2>1, Zenon DEF DownloaderState
  <2>4. Sound(b) /\ ~Stale(b)
    BY <1>c, <1>t, <2>1, <2>2, Zenon
  <2>5. Below(dl.to)
    BY <1>0, <2>1, Zenon DEF DownloadOrder
  <2>6. /\ dl.to > InitialBlock
        /\ \A x \in InProcess : x.num < dl.to
        /\ \A i \in 1 .. Len(ch) : ch[i].num < dl.to
    BY <1>i, <1>t, <2>5, Zenon
  <2>7. \A x \in Pipe : x.num < b.num
    BY <1>p, <2>1, <2>6, Zenon
  <2>8. Pipe' \subseteq Pipe \cup {b}
    BY <1>p, <2>1, <2>3, Zenon
  <2>. QED  BY <2>1, <2>2, <2>3, <2>4, <2>6, <2>7, <2>8, Zenon
<1>9. ~CloseChannel
  BY <1>0, Zenon DEF CloseChannel
<1>. QED  BY <1>3, <1>4, <1>5, <1>6, <1>7, <1>8, <1>9, Zenon DEF Download

\* The downloader, as far as the invariant is concerned, only adds a canonical block
\* at the end of the pipeline.
LEMMA DownloadStale == ASSUME IInv, StaleInv, Download PROVE StaleInv'
<1>0. TypeOK
  BY Zenon DEF IInv
<1>h. /\ BranchInv /\ HoldInv /\ RowsInv /\ BeforeInv /\ ScanInv /\ NotifyInv /\ PipeInv
      /\ StaleIsTracked
  BY Zenon DEF StaleInv
<1>1. UNCHANGED <<chain, head, finalized, forks, tracked, tracked_block, det, drv, block, halted>>
  BY Zenon DEF Download, chainVars, detVars
<1>2. /\ Known' = Known /\ InProcess' = InProcess
      /\ \A x : (Stale(x)' <=> Stale(x)) /\ (Sound(x)' <=> Sound(x))
  BY <1>1, Zenon DEF Known, InProcess, Stale, Sound
<1>3. BranchInv' /\ RowsInv' /\ BeforeInv' /\ ScanInv' /\ StaleIsTracked'
  <2>1. BranchInv'
    BY <1>1, <1>h, Zenon DEF BranchInv
  <2>2. RowsInv'
    BY <1>1, <1>2, <1>h, Zenon DEF RowsInv, HeaderOf
  <2>3. BeforeInv'
    BY <1>1, <1>2, <1>h, Zenon DEF BeforeInv, HeaderOf
  <2>4. ScanInv'
    BY <1>1, <1>2, <1>h, ZenonT(30) DEF ScanInv
  <2>5. StaleIsTracked'
    BY <1>1, <1>h, Zenon DEF StaleIsTracked
  <2>. QED  BY <2>1, <2>2, <2>3, <2>4, <2>5, Zenon
<1>4. dl'.pc \notin {"headers", "send"} => dl'.out = {}
  BY DownloadPipe, Zenon
<1>5. CASE Pipe' \subseteq Pipe
  <2>1. HoldInv'
    BY <1>1, <1>2, <1>4, <1>5, <1>h, Zenon DEF HoldInv
  <2>2. NotifyInv'
    BY <1>1, <1>2, <1>5, <1>h, Zenon DEF NotifyInv
  <2>3. PipeInv'
    BY <1>1, <1>2, <1>5, <1>h, Zenon DEF PipeInv, HeaderOf
  <2>. QED  BY <1>3, <2>1, <2>2, <2>3, Zenon DEF StaleInv
<1>6. ASSUME NEW b \in EVMBlock, Pipe' \subseteq Pipe \cup {b}, Sound(b), ~Stale(b),
             b.num > InitialBlock, \A x \in Pipe : x.num < b.num
      PROVE  StaleInv'
  <2>1. HoldInv'
    BY <1>1, <1>2, <1>4, <1>6, <1>h, Zenon DEF HoldInv
  <2>2. NotifyInv'
    BY <1>1, <1>2, <1>6, <1>h, Zenon DEF NotifyInv
  <2>3. PipeInv'
    <3>1. \A x \in InProcess' : Stale(x)' => HeaderOf(x)' \in tracked'
      BY <1>1, <1>2, <1>h, Zenon DEF PipeInv, HeaderOf
    <3>2. ASSUME NEW y \in Pipe', Stale(y)'
          PROVE  /\ \A h \in tracked \cup det.snap : h.hash.fork = 0
                 /\ \A x \in Pipe' : x.num < y.num => x.hash.fork = 0
      <4>1. y \in Pipe /\ Stale(y)
        BY <1>2, <1>6, <3>2, Zenon
      <4>2. ~(b.num < y.num)
        <5>1. y.num \in Nat /\ b.num \in Nat
          BY <1>0, <4>1, HoldTypes, ChainAssumption DEF EVMBlock, Blocks
        <5>. QED  BY <1>6, <4>1, <5>1
      <4>. QED  BY <1>6, <1>h, <4>1, <4>2, Zenon DEF PipeInv
    <3>. QED  BY <1>1, <3>1, <3>2, Zenon DEF PipeInv
  <2>. QED  BY <1>3, <2>1, <2>2, <2>3, Zenon DEF StaleInv
<1>. QED  BY <1>5, <1>6, DownloadPipe, Zenon

\* The pipeline shrinks or empties, and nothing else that the invariant reads changes.
LEMMA EmptyStale ==
    ASSUME StaleInv, Pipe' \subseteq Pipe, InProcess' \subseteq InProcess,
           dl'.pc \notin {"headers", "send"} => dl'.out = {},
           UNCHANGED <<chain, head, finalized, forks, tracked, tracked_block, det, block, halted>>
    PROVE  StaleInv'
<1>h. /\ BranchInv /\ HoldInv /\ RowsInv /\ BeforeInv /\ ScanInv /\ NotifyInv /\ PipeInv
      /\ StaleIsTracked
  BY Zenon DEF StaleInv
<1>1. /\ Known' = Known
      /\ \A x : (Stale(x)' <=> Stale(x)) /\ (Sound(x)' <=> Sound(x))
  BY Zenon DEF Known, Stale, Sound
<1>2. BranchInv' /\ ScanInv' /\ StaleIsTracked'
  <2>1. BranchInv'
    BY <1>h, Zenon DEF BranchInv
  <2>2. ScanInv'
    BY <1>1, <1>h, Zenon DEF ScanInv
  <2>3. StaleIsTracked'
    BY <1>h, Zenon DEF StaleIsTracked
  <2>. QED  BY <2>1, <2>2, <2>3, Zenon
<1>3. HoldInv'
  BY <1>1, <1>h, Zenon DEF HoldInv
<1>4. RowsInv'
  BY <1>h, Zenon DEF RowsInv, HeaderOf
<1>5. BeforeInv'
  BY <1>h, Zenon DEF BeforeInv, HeaderOf
<1>6. NotifyInv'
  BY <1>1, <1>h, Zenon DEF NotifyInv
<1>7. PipeInv'
  BY <1>1, <1>h, Zenon DEF PipeInv, HeaderOf
<1>. QED  BY <1>2, <1>3, <1>4, <1>5, <1>6, <1>7, Zenon DEF StaleInv

\* Between two downloads nothing is on its way.
LEMMA NoPipe ==
    ASSUME drv'.pc # "process", dl' = Stopped, ch' = << >>
    PROVE  Pipe' = {} /\ InProcess' = {} /\ dl'.out = {}
<1>1. \A i \in 1 .. Len(ch') : FALSE
  OBVIOUS
<1>2. dl'.out = {} /\ InProcess' = {}
  BY Zenon DEF Stopped, InProcess
<1>. QED  BY <1>1, <1>2, Zenon DEF Pipe

\* Sync starts the downloader again: the pipeline is empty.
LEMMA StartSyncStale == ASSUME IInv, StaleInv, StartSync PROVE StaleInv'
<1>1. /\ drv' = At("select") /\ ch' = << >>
      /\ dl' = [Stopped EXCEPT !.pc = "init", !.from = getLastProcessedBlock + 1]
      /\ UNCHANGED <<chain, head, finalized, forks, tracked, tracked_block, det, block, halted>>
  BY Zenon DEF StartSync, chainVars, detVars
<1>2. dl'.out = {} /\ drv'.pc = "select" /\ \A i \in 1 .. Len(ch') : FALSE
  BY <1>1 DEF Stopped, At
<1>3. Pipe' = {} /\ InProcess' = {}
  BY <1>2, Zenon DEF Pipe, InProcess
<1>. QED  BY <1>1, <1>2, <1>3, EmptyStale, Zenon

\* handleNewBlock tracks the block before it is processed.
LEMMA ReceiveStale == ASSUME IInv, StaleInv, ReceiveBlock PROVE StaleInv'
<1>0. TypeOK /\ ~closed /\ ChannelOrder /\ DownloadOrder
  BY Zenon DEF IInv, HaltInv, OrderInv, StaleInv, HoldInv
<1>h. /\ BranchInv /\ HoldInv /\ RowsInv /\ BeforeInv /\ ScanInv /\ NotifyInv /\ PipeInv
      /\ StaleIsTracked
  BY Zenon DEF StaleInv
<1>t. /\ \A x \in Pipe \cup Known \cup block : x.num \in Blocks /\ x.num \in Nat
      /\ InitialBlock \in Nat
      /\ \A i \in 1 .. Len(ch) : ch[i].num \in Nat
      /\ dl.from \in Nat
  BY <1>0, HoldTypes, Numbers, Zenon
<1>1. /\ UNCHANGED <<chain, head, finalized, forks, dl, block, halted>>
      /\ drv.pc = "select"
      /\ ch # << >> /\ ch' = Tail(ch) /\ drv' = [pc |-> "process", blk |-> Head(ch)]
      /\ AddBlockToTrack(drv'.blk)
  BY <1>0, Zenon DEF ReceiveBlock, chainVars
<1>2. /\ Len(ch) \in Nat \ {0} /\ Len(ch') = Len(ch) - 1
      /\ drv'.pc = "process" /\ drv'.blk = ch[1] /\ 1 \in 1 .. Len(ch)
      /\ \A i \in 1 .. Len(ch') : ch'[i] = ch[i + 1] /\ i + 1 \in 1 .. Len(ch)
  BY <1>0, <1>1 DEF TypeOK
<1>. DEFINE b == ch[1]
            h == HeaderOf(b)
<1>3. /\ InProcess = {} /\ InProcess' = {b} /\ Pipe' \subseteq Pipe /\ b \in Pipe
  BY <1>1, <1>2 DEF Pipe, InProcess
<1>4. \A x : (Stale(x)' <=> Stale(x)) /\ (Sound(x)' <=> Sound(x)) /\ HeaderOf(x)' = HeaderOf(x)
  BY <1>1, Zenon DEF Stale, Sound, HeaderOf
<1>5. h.num = b.num /\ h.hash = b.hash /\ (Stale(h) <=> Stale(b)) /\ (Sound(h) <=> Sound(b))
  BY Zenon DEF HeaderOf, Stale, Sound
<1>6. \A x \in block : x.num < b.num
  BY <1>0, <1>2, Zenon DEF ChannelOrder, Done, Nums
<1>7. Sound(b) /\ b.num > InitialBlock /\ b.num \in Nat
  BY <1>3, <1>h, <1>t, Zenon DEF HoldInv
<1>8. ASSUME NEW y \in Pipe, Stale(y) PROVE b.hash.fork = 0
  <2>1. y = b \/ b.num < y.num
    <3>1. CASE y \in dl.out
      <4>1. dl.pc \in {"headers", "send"}
        BY <1>h, <3>1, Zenon DEF HoldInv
      <4>2. CASE dl.pc = "headers"
        <5>1. b.num < dl.from /\ dl.from <= y.num
          BY <1>0, <1>2, <3>1, <4>2, Zenon DEF DownloadOrder, Below
        <5>. QED  BY <1>t, <1>7, <5>1
      <4>3. CASE dl.pc = "send"
        BY <1>0, <1>2, <3>1, <4>3, Zenon DEF DownloadOrder, Below
      <4>. QED  BY <4>1, <4>2, <4>3, Zenon
    <3>2. ASSUME NEW i \in 1 .. Len(ch), y = ch[i] PROVE y = b \/ b.num < y.num
      BY <1>0, <1>2, <3>2 DEF ChannelOrder
    <3>. QED  BY <1>3, <3>1, <3>2, Zenon DEF Pipe
  <2>2. CASE y = b
    BY <1>7, <1>8, <2>2, Zenon DEF Sound
  <2>3. CASE b.num < y.num
    BY <1>3, <1>8, <1>h, <2>3, Zenon DEF PipeInv
  <2>. QED  BY <2>1, <2>2, <2>3, Zenon
<1>k. /\ BranchInv'
      /\ forks' = forks /\ finalized' = finalized
  BY <1>1, <1>h, Zenon DEF BranchInv
<1>. HIDE DEF b, h
<1>9. CASE UNCHANGED detVars /\ h \in tracked
  <2>1. UNCHANGED <<tracked, tracked_block, det>>
    BY <1>9, Zenon DEF detVars
  <2>2. Known' = Known /\ h \in tracked_block
    BY <1>9, <1>h, <2>1, Zenon DEF Known, RowsInv
  <2>3. HoldInv'
    BY <1>1, <1>3, <1>4, <1>h, <2>2, ZenonT(30) DEF HoldInv
  <2>4. RowsInv'
    <3>1. \A x \in InProcess' : HeaderOf(x)' \in tracked_block'
      BY <1>3, <1>4, <2>1, <2>2, Zenon DEF h
    <3>. QED  BY <1>1, <1>4, <1>h, <2>1, <3>1, Zenon DEF RowsInv
  <2>5. BeforeInv'
    <3>1. \A x \in InProcess' : HeaderOf(x)' \in tracked'
      BY <1>3, <1>4, <1>9, <2>1, Zenon DEF h
    <3>. QED  BY <1>1, <1>4, <1>h, <2>1, <3>1, Zenon DEF BeforeInv
  <2>6. ScanInv' /\ StaleIsTracked'
    BY <1>1, <1>4, <1>h, <2>1, ZenonT(30) DEF ScanInv, StaleIsTracked
  <2>7. NotifyInv'
    BY <1>1, <1>3, <1>4, <1>h, <2>1, Zenon DEF NotifyInv
  <2>8. PipeInv'
    <3>1. \A x \in InProcess' : HeaderOf(x)' \in tracked'
      BY <1>3, <1>4, <1>9, <2>1, Zenon DEF h
    <3>. QED  BY <1>3, <1>4, <1>h, <2>1, <3>1, Zenon DEF PipeInv
  <2>. QED  BY <1>k, <2>3, <2>4, <2>5, <2>6, <2>7, <2>8, Zenon DEF StaleInv
<1>10. CASE /\ h \notin tracked
            /\ tracked' = add(tracked, h) /\ tracked_block' = add(tracked_block, h)
            /\ det' = [det EXCEPT !.detached = @ \/ (tracked = {} /\ det.pc # "idle")]
  <2>1. /\ tracked' = {x \in tracked : x.num # h.num} \cup {h}
        /\ tracked_block' = {x \in tracked_block : x.num # h.num} \cup {h}
    BY <1>10, Zenon DEF add
  <2>2. det'.pc = det.pc /\ det'.snap = det.snap /\ det'.fin = det.fin /\ det'.at = det.at
    BY <1>0, <1>10, Zenon DEF TypeOK, DetectorState
  <2>3. Known' \subseteq Known \cup {h}
    BY <2>1, <2>2, Zenon DEF Known
  <2>4. HoldInv'
    <3>1. h.num > InitialBlock /\ Sound(h)
      BY <1>5, <1>7, Zenon
    <3>2. \A x \in (Pipe \cup Known \cup block)' : Sound(x)
      BY <1>1, <1>3, <1>h, <2>3, <3>1, Zenon DEF HoldInv
    <3>3. \A x \in (Pipe \cup Known)' : x.num > InitialBlock
      BY <1>3, <1>h, <2>3, <3>1, Zenon DEF HoldInv
    <3>. QED  BY <1>1, <1>4, <1>h, <3>2, <3>3, Zenon DEF HoldInv
  <2>b. \A x \in block : HeaderOf(x).num = x.num /\ x.num # h.num
    <3>1. \A x \in block : x.num \in Nat
      BY <1>t, Zenon
    <3>. QED  BY <1>5, <1>6, <1>7, <3>1 DEF HeaderOf
  <2>5. RowsInv'
    <3>1. tracked' \subseteq tracked_block'
      BY <1>h, <2>1, Zenon DEF RowsInv
    <3>2. Distinct(tracked_block')
      BY <1>h, <2>1, Zenon DEF RowsInv, Distinct
    <3>3. \A x \in block : x.num = InitialBlock \/ HeaderOf(x) \in tracked_block'
      BY <1>h, <2>1, <2>b, Zenon DEF RowsInv
    <3>4. \A x \in InProcess' : HeaderOf(x) \in tracked_block'
      BY <1>3, <2>1, Zenon DEF h
    <3>5. Distinct(tracked_block)'
      BY <3>2, Zenon DEF Distinct
    <3>. QED  BY <1>1, <1>4, <1>h, <3>1, <3>3, <3>4, <3>5, Zenon DEF RowsInv
  <2>6. BeforeInv'
    <3>1. \A x \in InProcess' : HeaderOf(x) \in tracked'
      BY <1>3, <2>1, Zenon DEF h
    <3>2. forks = 0 => \A x \in block : x.num > finalized => HeaderOf(x) \in tracked'
      BY <1>h, <2>1, <2>b, Zenon DEF BeforeInv
    <3>. QED  BY <1>1, <1>4, <1>h, <2>2, <3>1, <3>2, Zenon DEF BeforeInv
  <2>7. ScanInv'
    <3>1. ASSUME NEW g \in det.snap, g.num = h.num, ~Stale(g) PROVE ~Stale(h)
      <4>1. SUFFICES ASSUME Stale(h) PROVE FALSE
        BY Zenon
      <4>2. Stale(b) /\ g.hash.fork = 0 /\ g \in Known
        BY <1>3, <1>5, <1>h, <3>1, <4>1, ZenonT(30) DEF PipeInv, Known
      <4>3. g.hash \in Hash /\ g.hash = chain[h.num]
        BY <1>h, <3>1, <4>2, Zenon DEF HoldInv, Sound, Stale
      <4>4. chain[b.num] \in Hash => chain[b.num].fork # 0
        BY <1>7, <4>2, Zenon DEF Sound
      <4>. QED  BY <1>5, <4>2, <4>3, <4>4, Zenon
    <3>2. \A g \in det.snap : \A w \in tracked' : g.num = w.num /\ ~Stale(g) => ~Stale(w)
      BY <1>h, <2>1, <3>1, Zenon DEF ScanInv
    <3>. QED  BY <1>1, <1>4, <1>h, <2>2, <3>2, Zenon DEF ScanInv
  <2>w. ASSUME NEW x \in block, NEW w \in tracked, w.num <= x.num PROVE w \in tracked'
    <3>1. w.num \in Nat /\ x.num \in Nat /\ x.num < h.num /\ h.num \in Nat
      BY <1>5, <1>6, <1>7, <1>t, Zenon DEF Known
    <3>2. w.num # h.num
      BY <2>w, <3>1
    <3>. QED  BY <2>1, <3>2, Zenon
  <2>8. NotifyInv'
    <3>1. det.pc \in {"await", "remove"} =>
             \A x \in block : Stale(x) =>
                \E g \in tracked' : Stale(g) /\ g.num <= x.num /\ g.num < det.at
      BY <1>h, <2>w, Zenon DEF NotifyInv
    <3>. QED  BY <1>1, <1>3, <1>4, <1>h, <2>2, <3>1, Zenon DEF NotifyInv
  <2>9. PipeInv'
    <3>1. \A x \in InProcess' : HeaderOf(x) \in tracked'
      BY <1>3, <2>1, Zenon DEF h
    <3>2. ASSUME NEW y \in Pipe', Stale(y)
          PROVE  /\ \A g \in tracked' \cup det.snap : g.hash.fork = 0
                 /\ \A x \in Pipe' : x.num < y.num => x.hash.fork = 0
      <4>1. y \in Pipe /\ h.hash.fork = 0
        BY <1>3, <1>5, <1>8, <3>2, Zenon
      <4>. QED  BY <1>3, <1>h, <2>1, <3>2, <4>1, Zenon DEF PipeInv
    <3>. QED  BY <1>4, <2>2, <3>1, <3>2, Zenon DEF PipeInv
  <2>10. StaleIsTracked'
    <3>1. \A x \in block : x.hash # chain[x.num] =>
             \E g \in tracked' : g.num <= x.num /\ g.hash # chain[g.num]
      BY <1>h, <2>w, Zenon DEF StaleIsTracked
    <3>. QED  BY <1>1, <3>1, Zenon DEF StaleIsTracked
  <2>. QED  BY <1>k, <2>4, <2>5, <2>6, <2>7, <2>8, <2>9, <2>10, Zenon DEF StaleInv
<1>. QED  BY <1>1, <1>2, <1>9, <1>10, Zenon DEF AddBlockToTrack, b, h, HeaderOf

\* A processed block is one that is tracked.
LEMMA ProcessStale == ASSUME IInv, StaleInv, ProcessBlock PROVE StaleInv'
<1>0. TypeOK
  BY Zenon DEF IInv
<1>h. /\ BranchInv /\ HoldInv /\ RowsInv /\ BeforeInv /\ ScanInv /\ NotifyInv /\ PipeInv
      /\ StaleIsTracked
  BY Zenon DEF StaleInv
<1>. DEFINE b == drv.blk
<1>1. /\ UNCHANGED <<chain, head, finalized, forks, tracked, tracked_block, det, dl, ch, halted>>
      /\ drv.pc = "process" /\ block' = block \cup {b} /\ drv'.pc = "select"
  BY Zenon DEF ProcessBlock, chainVars, detVars, dlVars, At
<1>2. /\ InProcess = {b} /\ InProcess' = {} /\ b \in Pipe /\ Pipe' \subseteq Pipe /\ Known' = Known
  BY <1>1, ZenonT(30) DEF InProcess, Pipe, Known
<1>3. \A x : (Stale(x)' <=> Stale(x)) /\ (Sound(x)' <=> Sound(x)) /\ HeaderOf(x)' = HeaderOf(x)
  BY <1>1, ZenonT(30) DEF Stale, Sound, HeaderOf
<1>. HIDE DEF b
<1>4. HoldInv'
  BY <1>1, <1>2, <1>3, <1>h, ZenonT(30) DEF HoldInv
<1>5. RowsInv'
  BY <1>1, <1>2, <1>3, <1>h, Zenon DEF RowsInv
<1>6. BeforeInv'
  BY <1>1, <1>2, <1>3, <1>h, Zenon DEF BeforeInv
<1>7. BranchInv' /\ ScanInv'
  BY <1>1, <1>3, <1>h, Zenon DEF BranchInv, ScanInv
<1>8. NotifyInv'
  BY <1>1, <1>2, <1>3, <1>h, Zenon DEF NotifyInv
<1>9. PipeInv'
  BY <1>1, <1>2, <1>3, <1>h, Zenon DEF PipeInv
<1>10. StaleIsTracked'
  <2>1. ASSUME Stale(b) PROVE \E g \in tracked : g.num <= b.num /\ g.hash # chain[g.num]
    <3>1. HeaderOf(b) \in tracked
      BY <1>2, <1>h, <2>1, Zenon DEF PipeInv
    <3>2. HeaderOf(b).num = b.num /\ HeaderOf(b).hash = b.hash
      BY Zenon DEF HeaderOf
    <3>3. b.num <= b.num
      BY <1>0, <1>2, HoldTypes
    <3>. QED  BY <2>1, <3>1, <3>2, <3>3, Zenon DEF Stale
  <2>. QED  BY <1>1, <1>h, <2>1, Zenon DEF StaleIsTracked, Stale
<1>. QED  BY <1>4, <1>5, <1>6, <1>7, <1>8, <1>9, <1>10, Zenon DEF StaleInv

\* handleReorg empties the pipeline and rolls the table back below the reorged block.
LEMMA HandleReorgStale == ASSUME IInv, StaleInv, HandleReorg PROVE StaleInv'
<1>0. TypeOK
  BY Zenon DEF IInv
<1>h. /\ BranchInv /\ HoldInv /\ RowsInv /\ BeforeInv /\ ScanInv /\ NotifyInv /\ PipeInv
      /\ StaleIsTracked
  BY Zenon DEF StaleInv
<1>t. /\ \A x \in Known \cup block : x.num \in Nat
      /\ InitialBlock \in Nat /\ det.at \in Nat
  BY <1>0, HoldTypes, Zenon
<1>1. /\ UNCHANGED <<chain, head, finalized, forks, tracked, tracked_block>>
      /\ det.pc = "notify" /\ det' = [det EXCEPT !.pc = "await"]
      /\ block' = {b \in block : b.num < det.at}
      /\ drv' = At("ack") /\ dl' = Stopped /\ ch' = << >>
      /\ halted' = (halted /\ block' = block)
  BY Zenon DEF HandleReorg, Reorg, chainVars
<1>2. det'.pc = "await" /\ det'.snap = det.snap /\ det'.fin = det.fin /\ det'.at = det.at
  BY <1>0, <1>1, Zenon DEF TypeOK, DetectorState
<1>3. drv'.pc = "ack"
  BY <1>1, Zenon DEF At
<1>4. Pipe' = {} /\ InProcess' = {} /\ dl'.out = {}
  BY <1>1, <1>3, NoPipe, Zenon
<1>5. Known' = Known /\ block' \subseteq block
  BY <1>1, <1>2, Zenon DEF Known
<1>6. \A x : (Stale(x)' <=> Stale(x)) /\ (Sound(x)' <=> Sound(x)) /\ HeaderOf(x)' = HeaderOf(x)
  BY <1>1, Zenon DEF Stale, Sound, HeaderOf
<1>7. HoldInv'
  BY <1>1, <1>4, <1>5, <1>6, <1>h, Zenon DEF HoldInv
<1>8. RowsInv'
  <2>1. \E b \in block' : b.num = InitialBlock
    BY <1>1, <1>h, Zenon DEF RowsInv, NotifyInv
  <2>. QED  BY <1>1, <1>4, <1>5, <1>6, <1>h, <2>1, Zenon DEF RowsInv
<1>9. BeforeInv'
  BY <1>1, <1>h, Zenon DEF BeforeInv
<1>10. BranchInv' /\ ScanInv'
  BY <1>1, <1>2, <1>6, <1>h, Zenon DEF BranchInv, ScanInv
<1>11. NotifyInv'
  <2>1. ASSUME NEW b \in block', Stale(b)
        PROVE  \E g \in tracked : Stale(g) /\ g.num <= b.num /\ g.num < det.at
    <3>1. b \in block /\ b.num < det.at
      BY <1>1, <2>1, Zenon
    <3>2. PICK g \in tracked : g.num <= b.num /\ Stale(g)
      BY <1>h, <2>1, <3>1, Zenon DEF StaleIsTracked, Stale
    <3>3. g.num < det.at
      <4>1. g.num \in Nat /\ b.num \in Nat
        BY <1>t, <3>1, Zenon DEF Known
      <4>. QED  BY <1>t, <3>1, <3>2, <4>1
    <3>. QED  BY <3>2, <3>3, Zenon
  <2>. QED  BY <1>1, <1>2, <1>4, <1>6, <1>h, <2>1, Zenon DEF NotifyInv
<1>12. PipeInv'
  BY <1>4, Zenon DEF PipeInv
<1>13. StaleIsTracked'
  BY <1>1, <1>5, <1>h, Zenon DEF StaleIsTracked
<1>. QED  BY <1>7, <1>8, <1>9, <1>10, <1>11, <1>12, <1>13, Zenon DEF StaleInv

\* The driver acknowledges: what it stored above the fork is gone.
LEMMA ReorgProcessedStale == ASSUME IInv, StaleInv, ReorgProcessed PROVE StaleInv'
<1>0. TypeOK
  BY Zenon DEF IInv
<1>h. /\ BranchInv /\ HoldInv /\ RowsInv /\ BeforeInv /\ ScanInv /\ NotifyInv /\ PipeInv
      /\ StaleIsTracked
  BY Zenon DEF StaleInv
<1>1. /\ UNCHANGED <<chain, head, finalized, forks, tracked, tracked_block, dl, ch, block, halted>>
      /\ det.pc = "await" /\ det' = [det EXCEPT !.pc = "remove"]
      /\ drv.pc = "ack" /\ drv'.pc = "reset"
  BY Zenon DEF ReorgProcessed, chainVars, dlVars, At
<1>2. det'.pc = "remove" /\ det'.snap = det.snap /\ det'.fin = det.fin /\ det'.at = det.at
  BY <1>0, <1>1, Zenon DEF TypeOK, DetectorState
<1>3. Pipe' = Pipe /\ Known' = Known /\ InProcess' = InProcess
  BY <1>1, <1>2, Zenon DEF Pipe, Known, InProcess
<1>4. \A x : (Stale(x)' <=> Stale(x)) /\ (Sound(x)' <=> Sound(x)) /\ HeaderOf(x)' = HeaderOf(x)
  BY <1>1, Zenon DEF Stale, Sound, HeaderOf
<1>5. HoldInv' /\ RowsInv'
  BY <1>1, <1>3, <1>4, <1>h, Zenon DEF HoldInv, RowsInv
<1>6. BeforeInv'
  BY <1>1, <1>h, Zenon DEF BeforeInv
<1>7. BranchInv' /\ ScanInv' /\ StaleIsTracked'
  BY <1>1, <1>2, <1>4, <1>h, Zenon DEF BranchInv, ScanInv, StaleIsTracked
<1>8. NotifyInv'
  BY <1>1, <1>2, <1>3, <1>4, <1>h, Zenon DEF NotifyInv
<1>9. PipeInv'
  BY <1>1, <1>2, <1>3, <1>4, <1>h, Zenon DEF PipeInv
<1>. QED  BY <1>5, <1>6, <1>7, <1>8, <1>9, Zenon DEF StaleInv

\* The detector drops from the list only what is canonical and final, or what a
\* handled reorg has made superfluous; removeTrackedBlockRange deletes no row above
\* number 2.
LEMMA DetectorStale == ASSUME IInv, StaleInv, Detector PROVE StaleInv'
<1>0. TypeOK /\ WorkInv
  BY Zenon DEF IInv
<1>h. /\ BranchInv /\ HoldInv /\ RowsInv /\ BeforeInv /\ ScanInv /\ NotifyInv /\ PipeInv
      /\ StaleIsTracked
  BY Zenon DEF StaleInv
<1>t. /\ \A x \in Pipe \cup Known \cup block : x.num \in Nat
      /\ InitialBlock \in Nat /\ InitialBlock > 2 /\ det.at \in Nat /\ det.fin \in Nat
      /\ finalized \in Nat /\ head \in Nat
      /\ tracked_block \subseteq Known /\ det.snap \subseteq Known /\ tracked \subseteq Known
  BY <1>0, HoldTypes, Zenon DEF Known
<1>1. UNCHANGED <<chain, head, finalized, forks, drv, dl, ch, block, halted>>
  BY Zenon DEF Detector, DetectReorg, CheckHeader, RemoveReorged, chainVars, dlVars
<1>2. Pipe' = Pipe /\ InProcess' = InProcess
  BY <1>1, Zenon DEF Pipe, InProcess
<1>3. \A x : (Stale(x)' <=> Stale(x)) /\ (Sound(x)' <=> Sound(x)) /\ HeaderOf(x)' = HeaderOf(x)
  BY <1>1, Zenon DEF Stale, Sound, HeaderOf
<1>4. ASSUME NEW n \in Nat, n > InitialBlock, NEW m
      PROVE  removeTrackedBlockRange(tracked_block, n, m) = tracked_block
  <2>1. \A r \in tracked_block : ~(r.num >= n /\ r.num <= 2)
    BY <1>4, <1>t
  <2>. QED  BY <2>1, Zenon DEF removeTrackedBlockRange
<1>i. Idle.pc = "idle" /\ Idle.snap = {} /\ Idle.fin = 0
  BY Zenon DEF Idle
\* What is left to show of a step that keeps the table of tracked blocks.
<1>5. ASSUME tracked_block' = tracked_block, tracked' \subseteq tracked,
             det'.snap \subseteq det.snap \cup tracked,
             forks = 0 => det'.pc \in {"idle", "scan"},
             \A b \in block \cup InProcess : Stale(b) \/ (forks = 0 /\ b.num > finalized) =>
                (HeaderOf(b) \in tracked => HeaderOf(b) \in tracked'),
             det'.fin <= finalized,
             \A g \in det'.snap : \A w \in tracked' : g.num = w.num /\ ~Stale(g) => ~Stale(w),
             det'.pc \notin {"await", "remove"},
             det'.pc = "notify" => det'.at > InitialBlock,
             \A b \in InProcess : Stale(b) => HeaderOf(b) \in tracked',
             \A b \in block : b.hash # chain[b.num] =>
                \E g \in tracked' : g.num <= b.num /\ g.hash # chain[g.num]
      PROVE  StaleInv'
  <2>1. Known' \subseteq Known
    BY <1>5, Zenon DEF Known
  <2>2. BranchInv'
    BY <1>1, <1>h, Zenon DEF BranchInv
  <2>3. HoldInv'
    BY <1>1, <1>2, <1>3, <1>h, <2>1, Zenon DEF HoldInv
  <2>4. RowsInv'
    <3>1. Distinct(tracked_block)'
      BY <1>5, <1>h, ZenonT(30) DEF RowsInv, Distinct
    <3>. QED  BY <1>1, <1>2, <1>3, <1>5, <1>h, <3>1, ZenonT(30) DEF RowsInv
  <2>5. BeforeInv'
    BY <1>1, <1>2, <1>3, <1>5, <1>h, ZenonT(30) DEF BeforeInv
  <2>6. ScanInv'
    BY <1>1, <1>3, <1>5, ZenonT(30) DEF ScanInv
  <2>7. NotifyInv'
    BY <1>5, ZenonT(30) DEF NotifyInv
  <2>8. PipeInv'
    BY <1>2, <1>3, <1>5, <1>h, ZenonT(30) DEF PipeInv
  <2>9. StaleIsTracked'
    BY <1>1, <1>5, Zenon DEF StaleIsTracked
  <2>. QED  BY <2>2, <2>3, <2>4, <2>5, <2>6, <2>7, <2>8, <2>9, Zenon DEF StaleInv
<1>6. CASE DetectReorg
  <2>1. /\ UNCHANGED <<tracked, tracked_block>>
        /\ det' = IF tracked = {} THEN Idle
                  ELSE [Idle EXCEPT !.pc = "scan", !.snap = tracked, !.fin = finalized]
    BY <1>6, Zenon DEF DetectReorg
  <2>2. /\ det'.pc \in {"idle", "scan"} /\ det'.snap \subseteq tracked
        /\ det'.fin = 0 \/ det'.fin = finalized
    BY <2>1, Zenon DEF Idle
  <2>3. det'.fin <= finalized
    BY <1>t, <2>2
  <2>4. \A g \in det'.snap : \A w \in tracked' : g.num = w.num /\ ~Stale(g) => ~Stale(w)
    <3>1. \A g, w \in tracked : g.num = w.num => g = w
      BY <1>h, Zenon DEF RowsInv, Distinct
    <3>. QED  BY <2>1, <2>2, <3>1, Zenon
  <2>5. \A b \in InProcess : Stale(b) => HeaderOf(b) \in tracked'
    BY <1>h, <2>1, Zenon DEF PipeInv
  <2>6. \A b \in block : b.hash # chain[b.num] =>
           \E g \in tracked' : g.num <= b.num /\ g.hash # chain[g.num]
    BY <1>h, <2>1, Zenon DEF StaleIsTracked
  <2>. QED  BY <1>5, <2>1, <2>2, <2>3, <2>4, <2>5, <2>6, Zenon
<1>7. CASE CheckHeader
  <2>. DEFINE h == Lowest(det.snap)
  <2>1. h \in det.snap /\ det.pc = "scan"
    BY <1>0, <1>7, <1>t, LowestProp, Zenon DEF CheckHeader, WorkInv
  <2>2. h.num \in Nat /\ h.num > InitialBlock /\ Sound(h)
    BY <1>h, <1>t, <2>1, Zenon DEF HoldInv
  <2>3. \/ det' = Idle /\ UNCHANGED <<tracked, tracked_block>>
        \/ /\ ~Stale(h)
           /\ tracked' = IF h.num <= det.fin /\ ~det.detached
                         THEN removeRange(tracked, h.num, h.num) ELSE tracked
           /\ tracked_block' = removeTrackedBlockRange(tracked_block, h.num, h.num)
           /\ det' = IF det.snap = {h} THEN Idle ELSE [det EXCEPT !.snap = @ \ {h}]
        \/ /\ Stale(h) /\ UNCHANGED <<tracked, tracked_block>>
           /\ det' = [det EXCEPT !.pc = "notify", !.snap = {}, !.at = h.num,
                                 !.top = Max(Nums(det.snap))]
    BY <1>7, Zenon DEF CheckHeader, Stale
  <2>. HIDE DEF h
  <2>s. ASSUME UNCHANGED tracked
        PROVE  /\ \A b \in InProcess : Stale(b) => HeaderOf(b) \in tracked'
               /\ \A b \in block : b.hash # chain[b.num] =>
                     \E g \in tracked' : g.num <= b.num /\ g.hash # chain[g.num]
    BY <1>h, <2>s, Zenon DEF PipeInv, StaleIsTracked
  <2>4. CASE det' = Idle /\ UNCHANGED <<tracked, tracked_block>>
    <3>1. det'.fin <= finalized
      BY <1>i, <1>t, <2>4
    <3>. QED  BY <1>5, <1>i, <2>4, <2>s, <3>1, Zenon
  <2>5. CASE /\ Stale(h) /\ UNCHANGED <<tracked, tracked_block>>
             /\ det' = [det EXCEPT !.pc = "notify", !.snap = {}, !.at = h.num,
                                   !.top = Max(Nums(det.snap))]
    <3>1. det'.pc = "notify" /\ det'.snap = {} /\ det'.at = h.num /\ det'.fin = det.fin
      BY <1>0, <2>5, Zenon DEF TypeOK, DetectorState
    <3>2. forks # 0 /\ det.fin <= finalized
      BY <1>h, <2>2, <2>5, Zenon DEF Sound, ScanInv
    <3>. QED  BY <1>5, <2>2, <2>5, <2>s, <3>1, <3>2, Zenon
  <2>6. CASE /\ ~Stale(h)
             /\ tracked' = IF h.num <= det.fin /\ ~det.detached
                           THEN removeRange(tracked, h.num, h.num) ELSE tracked
             /\ tracked_block' = removeTrackedBlockRange(tracked_block, h.num, h.num)
             /\ det' = IF det.snap = {h} THEN Idle ELSE [det EXCEPT !.snap = @ \ {h}]
    <3>1. tracked_block' = tracked_block
      BY <1>4, <2>2, <2>6, Zenon
    <3>2. /\ det'.pc \in {"idle", "scan"} /\ det'.snap \subseteq det.snap
          /\ det'.fin \in {0, det.fin}
      <4>1. CASE det.snap = {h}
        BY <1>i, <2>6, <4>1, Zenon
      <4>2. CASE det.snap # {h}
        BY <1>0, <2>1, <2>6, <4>2, Zenon DEF TypeOK, DetectorState
      <4>. QED  BY <4>1, <4>2, Zenon
    <3>3. det'.fin <= finalized
      BY <1>h, <1>t, <3>2 DEF ScanInv
    <3>4. /\ tracked' \subseteq tracked
          /\ \A w \in tracked : w \notin tracked' => w.num = h.num /\ h.num <= det.fin
      <4>1. \A w \in tracked : h.num <= w.num /\ w.num <= h.num => w.num = h.num
        BY <1>t, <2>2
      <4>. QED  BY <2>6, <4>1, Zenon DEF removeRange
    <3>5. \A w \in tracked : w \notin tracked' => ~Stale(w) /\ w.num <= finalized
      <4>1. \A w \in tracked : w \notin tracked' => ~Stale(w)
        BY <1>h, <2>1, <2>6, <3>4, Zenon DEF ScanInv
      <4>2. h.num <= det.fin => h.num <= finalized
        BY <1>h, <1>t, <2>2 DEF ScanInv
      <4>. QED  BY <3>4, <4>1, <4>2, Zenon
    <3>6. \A b : HeaderOf(b).num = b.num /\ (Stale(HeaderOf(b)) <=> Stale(b))
      BY Zenon DEF HeaderOf, Stale
    <3>7. \A b \in block \cup InProcess : Stale(b) \/ (forks = 0 /\ b.num > finalized) =>
             (HeaderOf(b) \in tracked => HeaderOf(b) \in tracked')
      <4>1. \A b \in block \cup InProcess : b.num > finalized => ~(b.num <= finalized)
        BY <1>t DEF Pipe
      <4>. QED  BY <3>5, <3>6, <4>1, Zenon
    <3>8. \A b \in InProcess : Stale(b) => HeaderOf(b) \in tracked'
      BY <1>h, <3>5, <3>6, Zenon DEF PipeInv
    <3>9. \A b \in block : b.hash # chain[b.num] =>
             \E g \in tracked' : g.num <= b.num /\ g.hash # chain[g.num]
      BY <1>h, <3>5, Zenon DEF StaleIsTracked, Stale
    <3>10. \A g \in det'.snap : \A w \in tracked' : g.num = w.num /\ ~Stale(g) => ~Stale(w)
      BY <1>h, <3>2, <3>4, Zenon DEF ScanInv
    <3>. QED  BY <1>5, <3>1, <3>2, <3>3, <3>4, <3>7, <3>8, <3>9, <3>10, Zenon
  <2>. QED  BY <2>3, <2>4, <2>5, <2>6, Zenon
<1>8. CASE RemoveReorged
  <2>1. /\ det.pc = "remove" /\ det' = Idle
        /\ tracked_block' = removeTrackedBlockRange(tracked_block, det.at, det.top)
        /\ tracked' = IF det.detached THEN tracked ELSE removeRange(tracked, det.at, det.top)
    BY <1>8, Zenon DEF RemoveReorged
  <2>2. /\ det.at > InitialBlock
        /\ \A x \in Pipe : ~Stale(x)
        /\ \A b \in block : Stale(b) =>
              \E g \in tracked : Stale(g) /\ g.num <= b.num /\ g.num < det.at
    BY <1>h, <2>1, Zenon DEF NotifyInv
  <2>3. tracked_block' = tracked_block
    BY <1>4, <1>t, <2>1, <2>2, Zenon
  <2>4. /\ tracked' \subseteq tracked
        /\ \A w \in tracked : w.num < det.at => w \in tracked'
    <3>1. \A w \in tracked : w.num < det.at => ~(det.at <= w.num)
      BY <1>t
    <3>. QED  BY <2>1, <3>1, Zenon DEF removeRange
  <2>5. forks # 0
    BY <1>h, <2>1, Zenon DEF BeforeInv
  <2>6. \A b \in InProcess : ~Stale(b)
    BY <2>2, Zenon DEF Pipe
  <2>7. \A b \in block : b.hash # chain[b.num] =>
           \E g \in tracked' : g.num <= b.num /\ g.hash # chain[g.num]
    BY <2>2, <2>4, Zenon DEF Stale
  <2>8. det'.fin <= finalized
    BY <1>i, <1>t, <2>1
  <2>9. BranchInv' /\ NotifyInv' /\ ScanInv' /\ BeforeInv'
    <3>1. BranchInv'
      BY <1>1, <1>h, Zenon DEF BranchInv
    <3>2. NotifyInv'
      BY <1>i, <2>1, Zenon DEF NotifyInv
    <3>3. ScanInv'
      BY <1>1, <1>i, <2>1, <2>8, Zenon DEF ScanInv
    <3>4. BeforeInv'
      BY <1>1, <2>5, Zenon DEF BeforeInv
    <3>. QED  BY <3>1, <3>2, <3>3, <3>4, Zenon
  <2>10. HoldInv'
    <3>1. Known' \subseteq Known
      BY <1>i, <2>1, <2>3, <2>4, Zenon DEF Known
    <3>. QED  BY <1>1, <1>2, <1>3, <1>h, <3>1, Zenon DEF HoldInv
  <2>11. RowsInv'
    <3>1. Distinct(tracked_block)'
      BY <1>h, <2>3, Zenon DEF RowsInv, Distinct
    <3>. QED  BY <1>1, <1>2, <1>3, <1>h, <2>3, <2>4, <3>1, Zenon DEF RowsInv
  <2>12. PipeInv'
    BY <1>2, <1>3, <2>2, <2>6, Zenon DEF PipeInv
  <2>13. StaleIsTracked'
    BY <1>1, <2>7, Zenon DEF StaleIsTracked
  <2>. QED  BY <2>9, <2>10, <2>11, <2>12, <2>13, Zenon DEF StaleInv
<1>. QED  BY <1>6, <1>7, <1>8, Zenon DEF Detector

\* New reads the tracked blocks back: every stored block but the initial one is there.
LEMMA RestartStale == ASSUME IInv, StaleInv, Restart PROVE StaleInv'
<1>0. TypeOK
  BY Zenon DEF IInv
<1>h. /\ BranchInv /\ HoldInv /\ RowsInv /\ BeforeInv /\ ScanInv /\ NotifyInv /\ PipeInv
      /\ StaleIsTracked
  BY Zenon DEF StaleInv
<1>t. /\ \A x \in Known \cup block : x.num \in Nat
      /\ InitialBlock \in Nat /\ finalized \in Nat
  BY <1>0, HoldTypes, Zenon
<1>1. /\ UNCHANGED <<chain, head, finalized, forks, tracked_block, block>>
      /\ tracked' = tracked_block /\ det' = Idle /\ ~halted'
      /\ drv' = At("reset") /\ dl' = Stopped /\ ch' = << >>
  BY Zenon DEF Restart, chainVars
<1>2. drv'.pc = "reset"
  BY <1>1, Zenon DEF At
<1>3. Pipe' = {} /\ InProcess' = {} /\ dl'.out = {}
  BY <1>1, <1>2, NoPipe, Zenon
<1>4. det'.pc = "idle" /\ det'.snap = {} /\ det'.fin = 0
  BY <1>1, Zenon DEF Idle
<1>5. Known' \subseteq Known
  BY <1>1, <1>4, Zenon DEF Known
<1>6. \A x : (Stale(x)' <=> Stale(x)) /\ (Sound(x)' <=> Sound(x)) /\ HeaderOf(x)' = HeaderOf(x)
  BY <1>1, Zenon DEF Stale, Sound, HeaderOf
<1>7. HoldInv'
  BY <1>1, <1>3, <1>5, <1>6, <1>h, ZenonT(30) DEF HoldInv
<1>8. RowsInv'
  BY <1>1, <1>3, <1>6, <1>h, ZenonT(30) DEF RowsInv, Distinct
<1>9. BeforeInv'
  <2>1. \A b \in block : b.num > finalized => b.num # InitialBlock
    BY <1>h, <1>t DEF BranchInv
  <2>. QED  BY <1>1, <1>3, <1>4, <1>6, <1>h, <2>1, Zenon DEF BeforeInv, RowsInv
<1>10. BranchInv' /\ NotifyInv' /\ PipeInv'
  BY <1>1, <1>3, <1>4, <1>h, Zenon DEF BranchInv, NotifyInv, PipeInv
<1>11. ScanInv'
  <2>1. 0 <= finalized
    BY <1>t
  <2>. QED  BY <1>1, <1>4, <2>1, Zenon DEF ScanInv
<1>12. StaleIsTracked'
  <2>. SUFFICES ASSUME NEW b \in block, b.hash # chain[b.num]
                PROVE  \E h \in tracked_block : h.num <= b.num /\ h.hash # chain[h.num]
    BY <1>1, Zenon DEF StaleIsTracked
  <2>1. PICK g \in tracked : g.num <= b.num
    BY <1>h, Zenon DEF StaleIsTracked
  <2>2. g.num > InitialBlock /\ g.num \in Nat /\ b.num \in Nat
    BY <1>h, <1>t, Zenon DEF HoldInv, Known
  <2>3. b.num # InitialBlock /\ b.num <= b.num
    BY <1>t, <2>1, <2>2
  <2>4. HeaderOf(b) \in tracked_block
    BY <1>h, <2>3, Zenon DEF RowsInv
  <2>. QED  BY <2>3, <2>4, Zenon DEF HeaderOf
<1>. QED  BY <1>7, <1>8, <1>9, <1>10, <1>11, <1>12, Zenon DEF StaleInv

\* At the start nothing is tracked or on its way.
LEMMA InitStale == Init => StaleInv
<1>. SUFFICES ASSUME Init PROVE StaleInv
  BY Zenon
<1>0. InitialBlock \in Nat /\ InitialBlock \in Blocks /\ MaxForks \in Nat /\ TypeOK
  BY ChainAssumption, InitIInv DEF Blocks, IInv
<1>. DEFINE b == [num |-> InitialBlock, hash |-> chain[InitialBlock], ev |-> FALSE]
<1>1. /\ tracked = {} /\ tracked_block = {} /\ ~halted /\ ch = << >>
      /\ head = InitialBlock /\ finalized = InitialBlock /\ forks = 0
      /\ det = Idle /\ dl = Stopped /\ drv = At("reset") /\ block = {b}
      /\ chain = [n \in Blocks |-> IF n <= InitialBlock
                                   THEN [fork |-> 0, ev |-> FALSE] ELSE ZeroHash]
  BY Zenon DEF Init, ChainInit
<1>2. /\ \A i \in 1 .. Len(ch) : FALSE
      /\ dl.out = {} /\ drv.pc = "reset" /\ det.pc = "idle" /\ det.snap = {} /\ det.fin = 0
  <2>0. ch = << >>
    BY <1>1, Zenon
  <2>1. \A i \in 1 .. Len(ch) : FALSE
    BY <2>0
  <2>2. dl.out = {} /\ dl.pc = "done" /\ drv.pc = "reset"
    BY <1>1, ZenonT(30) DEF Stopped, At
  <2>3. det.pc = "idle" /\ det.snap = {} /\ det.fin = 0
    BY <1>1, ZenonT(30) DEF Idle
  <2>. QED  BY <2>1, <2>2, <2>3, Zenon
<1>3. Pipe = {} /\ Known = {} /\ InProcess = {}
  BY <1>1, <1>2, Zenon DEF Pipe, Known, InProcess
<1>4. /\ [fork |-> 0, ev |-> FALSE] \in Hash /\ ZeroHash \notin Hash
  BY <1>0, ZeroHashAssumption DEF Hash
<1>5. BranchInv
  <2>1. ASSUME NEW n \in Blocks
        PROVE  (n <= head <=> chain[n] \in Hash) /\ (n <= head => chain[n].fork <= forks)
    <3>1. CASE n <= InitialBlock
      <4>1. chain[n] = [fork |-> 0, ev |-> FALSE] /\ n <= head
        BY <1>1, <3>1, Zenon
      <4>2. chain[n].fork = 0
        BY <4>1
      <4>3. forks = 0
        BY <1>1, Zenon
      <4>4. chain[n].fork <= forks
        BY <4>2, <4>3
      <4>5. chain[n] \in Hash
        BY <1>4, <4>1, Zenon
      <4>. QED  BY <4>1, <4>4, <4>5, Zenon
    <3>2. CASE ~(n <= InitialBlock)
      BY <1>1, <1>4, <3>2, Zenon
    <3>. QED  BY <3>1, <3>2, Zenon
  <2>. QED  BY <1>0, <1>1, <2>1 DEF BranchInv
<1>6. b.num = InitialBlock /\ b.hash = chain[b.num] /\ ~Stale(b)
  BY Zenon DEF Stale
<1>7. Sound(b)
  BY <1>0, <1>1, <1>5, <1>6, Zenon DEF Sound, BranchInv
<1>. HIDE DEF b
<1>8. HoldInv
  BY <1>1, <1>2, <1>3, <1>7, ZenonT(30) DEF HoldInv
<1>9. RowsInv
  BY <1>1, <1>3, <1>6, ZenonT(30) DEF RowsInv, Distinct
<1>10. BeforeInv
  <2>1. ~(b.num > finalized)
    BY <1>0, <1>1, <1>6
  <2>. QED  BY <1>1, <1>2, <1>3, <2>1, ZenonT(30) DEF BeforeInv
<1>11. ScanInv /\ NotifyInv /\ PipeInv
  <2>1. det.fin <= finalized
    BY <1>0, <1>1, <1>2
  <2>. QED  BY <1>2, <1>3, <2>1, Zenon DEF ScanInv, NotifyInv, PipeInv
<1>12. StaleIsTracked
  BY <1>1, <1>6, Zenon DEF StaleIsTracked
<1>. QED  BY <1>5, <1>8, <1>9, <1>10, <1>11, <1>12, Zenon DEF StaleInv

\* With one reorganisation and a processor that does not halt, every stored block the
\* chain has abandoned stays findable: the detector's list (headersList, read back from
\* tracked_block on a restart) holds an abandoned header at or below it.
THEOREM AbandonedIsFound ==
    ASSUME MaxForks <= 1, HaltBlocks = {}
    PROVE  Spec => []StaleIsTracked
<1>1. Init => IInv /\ StaleInv
  BY InitIInv, InitStale, Zenon
<1>2. (IInv /\ StaleInv) /\ [Next]_vars => (IInv /\ StaleInv)'
  <2>. SUFFICES ASSUME IInv, StaleInv, [Next]_vars PROVE StaleInv'
    BY StepIInv, Zenon
  <2>1. ~HaltProcessor
    BY Zenon DEF HaltProcessor, StaleInv, HoldInv
  <2>2. CASE UNCHANGED vars
    <3>1. UNCHANGED <<chain, head, finalized, forks, tracked, tracked_block, det, drv, dl, ch, block, halted>>
      BY <2>2, Zenon DEF vars, chainVars, detVars, dlVars
    <3>2. Pipe' = Pipe /\ InProcess' = InProcess
      BY <3>1, Zenon DEF Pipe, InProcess
    <3>3. dl'.pc \notin {"headers", "send"} => dl'.out = {}
      BY <3>1, Zenon DEF StaleInv, HoldInv
    <3>. QED  BY <3>1, <3>2, <3>3, EmptyStale, Zenon
  <2>. QED  BY <2>1, <2>2, EnvironmentStale, DownloadStale, StartSyncStale, ReceiveStale,
               ProcessStale, HandleReorgStale, ReorgProcessedStale, DetectorStale,
               RestartStale, Zenon DEF Next, Driver
<1>3. StaleInv => StaleIsTracked
  BY Zenon DEF StaleInv
<1>. QED  BY <1>1, <1>2, <1>3, PTL DEF Spec
=============================================================================
