---------------------------- MODULE BridgeProofs ----------------------------
(***************************************************************************)
(* Proofs about the two parts that write to L2 for the users of the        *)
(* bridge: GERFlow, the way of a global exit root to L2 and back, and      *)
(* ClaimSponsor, the claims that the node pays for.                        *)
(***************************************************************************)
EXTENDS GERFlow, ClaimSponsor, FiniteSetTheorems, TLAPS

-----------------------------------------------------------------------------
(***************************************************************************)
(* GERFlow.                                                                *)
(* For any number of L1 and L2 blocks, of forks of L2, of restarts and of  *)
(* places in downloadCh: aggoracle never pays for a transaction that       *)
(* reverts, and lastgersync records every leaf once.                       *)
(***************************************************************************)

GER == 0 .. LastL1 - 1

Statuses == {"sent", "mined", "reverted"}

\* The shape of the variables of the chains, ...
ChainTypes ==
    /\ infos \in Seq(1 .. LastL1) /\ Len(infos) <= LastL1
    /\ l1final \in 0 .. LastL1 /\ lpb \in 0 .. LastL1
    /\ l2 \in Seq(Nat) /\ forks \in Nat /\ restarts \in Nat
    /\ injected \subseteq [ger : GER, block : 1 .. l2head]

\* ... of the transaction manager and aggoracle, ...
OracleTypes ==
    /\ txs \in Seq([ger : GER, status : Statuses])
    /\ oracle \in [pc : {"wait", "check", "sent"}, blockNumToFetch : 0 .. LastL1,
                   ger : 0 .. LastL1, tx : 0 .. Len(txs)]

\* ... and of lastgersync.
SyncTypes ==
    /\ block \subseteq [num : Nat, hash : Nat]
    /\ imported \subseteq [index : Nat, block : Nat]
    /\ dl \in [pc : {"wait", "list", "header", "read"}, nextIndex : Nat, from : Nat \ {0},
               gers : SUBSET Stored, hash : Nat]
    /\ ch \in Seq([num : Nat, hash : Nat, events : SUBSET Stored]) /\ Len(ch) <= BufferSize

\* The oracle has one transaction on its way at most, and waits for it: nobody
\* else makes its GER known before it is mined.
OneOnItsWay ==
    /\ oracle.pc # "wait" => oracle.ger \in GER
    /\ oracle.pc = "sent" => oracle.tx \in DOMAIN txs
    /\ restarts = 0 =>
          \A k \in DOMAIN txs : txs[k].status = "sent" =>
             oracle.pc = "sent" /\ oracle.tx = k /\ txs[k].ger \notin Known

\* Blocks reach the table in the order of their numbers: below those in the table
\* come those in downloadCh, and below these the one the downloader is at.
BlocksInOrder ==
    /\ \A b, c \in block : b.num = c.num => b = c
    /\ \A b \in block : b.num <= dl.from /\ (dl.pc # "wait" => b.num < dl.from)
    /\ \A i \in DOMAIN ch : ch[i].num <= dl.from /\ (dl.pc # "wait" => ch[i].num < dl.from)
    /\ \A b \in block, i \in DOMAIN ch : b.num < ch[i].num
    /\ \A i, j \in DOMAIN ch : i < j => ch[i].num < ch[j].num
    /\ \A r \in imported : r.index \in Stored /\ \E b \in block : b.num = r.block

\* An index comes before a later one, or both are 0.
Before(i, j) == i < j \/ (i = 0 /\ j = 0)

\* So do the indexes: rows, then events on their way, then nextIndex, then the GERs
\* the downloader asks L2 for.
IndexesInOrder ==
    /\ \A r \in imported : Before(r.index, dl.nextIndex)
    /\ \A i \in DOMAIN ch : \A e \in ch[i].events : Before(e, dl.nextIndex)
    /\ \A r \in imported, i \in DOMAIN ch : \A e \in ch[i].events : Before(r.index, e)
    /\ \A i, j \in DOMAIN ch : i < j =>
          \A e \in ch[i].events, f \in ch[j].events : Before(e, f)
    /\ \A g \in dl.gers : dl.nextIndex <= g

OracleInv == OracleTypes /\ OneOnItsWay /\ NoRevertedInjection

SyncInv == SyncTypes /\ BlocksInOrder /\ IndexesInOrder /\ ImportsGrow

GERInv == ChainTypes /\ OracleInv /\ SyncInv

-----------------------------------------------------------------------------
(* Max, which GetLatestInfoUntilBlock and the queries of lastgersync use   *)

\* A nonempty set of indexes or block numbers has a least element.
LEMMA LeastExists ==
    ASSUME NEW S \in SUBSET Nat, S # {}
    PROVE  \E x \in S : \A y \in S : x <= y
<1>1. PICK x \in S : \A y \in S : ~(<<y, x>> \in OpToRel(<, Nat))
  BY NatLessThanWellFounded, WFMin, Zenon
<1>2. \A y \in S : ~(y < x)
  BY <1>1, Zenon DEF OpToRel
<1>. QED  BY <1>2

\* Max is the greatest element of a set of indexes or block numbers that has a bound.
LEMMA MaxIsGreatest ==
    ASSUME NEW S \in SUBSET Nat, S # {}, NEW n \in Nat, \A x \in S : x <= n
    PROVE  Max(S) \in S /\ \A x \in S : x <= Max(S)
<1>. DEFINE T == {n - x : x \in S}
<1>a. \A x \in S : n - x \in Nat
  OBVIOUS
<1>1. T \in SUBSET Nat /\ T # {}
  BY <1>a, Zenon
<1>3. PICK t \in T : \A u \in T : t <= u
  BY <1>1, LeastExists, Zenon
<1>4. PICK x \in S : t = n - x
  BY <1>3, Zenon
<1>b. \A y \in S : n - x <= n - y
  BY <1>3, <1>4, Zenon
<1>5. \A y \in S : x >= y
  <2>. HIDE DEF T
  <2>1. x \in Nat /\ \A y \in S : y \in Nat
    BY Zenon
  <2>. QED  BY <1>b, <2>1
<1>6. Max(S) \in S /\ \A y \in S : Max(S) >= y
  BY <1>5, Zenon DEF Max
<1>. QED  BY <1>6, Zenon

\* The leaves of l1info_leaf are indexes of the L1 info tree.
LEMMA StoredIndexes ==
    ASSUME ChainTypes
    PROVE  Stored \in SUBSET Nat /\ Stored \in SUBSET GER /\ \A i \in Stored : i <= LastL1
<1>1. LastL1 \in Nat /\ infos \in Seq(1 .. LastL1) /\ Len(infos) <= LastL1
  BY GERFlowAssumption, Zenon DEF ChainTypes
<1>2. Len(infos) \in Nat
  BY <1>1
<1>3. \A i \in 0 .. Len(infos) - 1 : i \in Nat /\ i <= LastL1 /\ i \in 0 .. LastL1 - 1
  BY <1>1, <1>2
<1>. QED  BY <1>3, Zenon DEF Stored, GER

\* The leaf GetLatestInfoUntilBlock returns is one of the table.
LEMMA LatestInfo == ASSUME ChainTypes, Stored # {} PROVE Max(Stored) \in Stored
  BY StoredIndexes, MaxIsGreatest, GERFlowAssumption, Zenon

\* What Sync starts a Download with: it goes on above the last block and the last
\* index of the tables.
LEMMA DownloadFollows ==
    ASSUME NEW blocks, blocks \subseteq [num : Nat, hash : Nat],
           NEW rows, rows \subseteq [index : Nat, block : Nat],
           NEW n \in Nat, \A b \in blocks : b.num <= n,
           NEW m \in Nat, \A r \in rows : r.index <= m
    PROVE  /\ Download(blocks, rows).pc = "wait" /\ Download(blocks, rows).gers = {}
           /\ Download(blocks, rows) \in [pc : {"wait"}, nextIndex : Nat, from : Nat \ {0},
                                          gers : {{}}, hash : {0}]
           /\ \A b \in blocks : b.num < Download(blocks, rows).from
           /\ \A r \in rows : Before(r.index, Download(blocks, rows).nextIndex)
<1>. DEFINE N == {b.num : b \in blocks} \cup {0}
            I == {r.index : r \in rows} \cup {0}
<1>1. N \in SUBSET Nat /\ N # {} /\ \A x \in N : x <= n
  OBVIOUS
<1>2. I \in SUBSET Nat /\ I # {} /\ \A x \in I : x <= m
  OBVIOUS
<1>3. Max(N) \in N /\ \A x \in N : x <= Max(N)
  BY <1>1, MaxIsGreatest, Zenon
<1>4. Max(I) \in I /\ \A x \in I : x <= Max(I)
  BY <1>2, MaxIsGreatest, Zenon
<1>5. getLastProcessedBlock(blocks) = Max(N) /\ getLastIndex(rows) = Max(I)
  BY Zenon DEF getLastProcessedBlock, getLastIndex
<1>6. \A b \in blocks : b.num <= Max(N)
  BY <1>3, Zenon
<1>7. \A r \in rows : r.index <= Max(I)
  BY <1>4, Zenon
<1>8. Max(N) \in Nat /\ Max(I) \in Nat
  BY <1>1, <1>2, <1>3, <1>4, Zenon
<1>. HIDE DEF N, I
<1>9. PICK nm, im \in Nat : nm = Max(N) /\ im = Max(I)
  BY <1>8, Zenon
<1>10. Download(blocks, rows) = [pc |-> "wait", nextIndex |-> IF im > 0 THEN im + 1 ELSE 0,
                                 from |-> nm + 1, gers |-> {}, hash |-> 0]
  BY <1>5, <1>9, Zenon DEF Download
<1>11. \A b \in blocks : b.num < nm + 1
  BY <1>6, <1>9
<1>12. \A r \in rows : Before(r.index, IF im > 0 THEN im + 1 ELSE 0)
  BY <1>7, <1>9 DEF Before
<1>. QED  BY <1>10, <1>11, <1>12

-----------------------------------------------------------------------------
(* The parts that a step leaves alone                                      *)

\* Any sequence over a set is one over a larger set.
LEMMA SeqWidened == ASSUME NEW A, NEW B, A \subseteq B, NEW s \in Seq(A) PROVE s \in Seq(B)
  OBVIOUS

\* What a sequence holds, and what Append leaves of it.
LEMMA ElementOfSeq == ASSUME NEW S, NEW s \in Seq(S), NEW i \in DOMAIN s PROVE s[i] \in S
  OBVIOUS

\* Append adds an element of the set.
LEMMA AppendToSeq ==
    ASSUME NEW S, NEW s \in Seq(S), NEW x \in S
    PROVE  /\ Append(s, x) \in Seq(S) /\ Len(Append(s, x)) = Len(s) + 1
           /\ DOMAIN Append(s, x) = DOMAIN s \cup {Len(s) + 1}
           /\ \A i \in DOMAIN s : Append(s, x)[i] = s[i] /\ i \in Nat /\ i <= Len(s)
           /\ Append(s, x)[Len(s) + 1] = x
  OBVIOUS

\* The blocks of downloadCh.
LEMMA ChannelTypes ==
    ASSUME ChainTypes, SyncTypes, NEW i \in DOMAIN ch
    PROVE  /\ ch[i] \in [num : Nat, hash : Nat, events : SUBSET Stored]
           /\ ch[i].num \in Nat /\ ch[i].events \subseteq Stored
           /\ \A e \in ch[i].events : e \in Nat
<1>. DEFINE E == [num : Nat, hash : Nat, events : SUBSET Stored]
<1>1. ch[i] \in E
  <2>1. ch \in Seq(E)
    BY Zenon DEF SyncTypes
  <2>. HIDE DEF E
  <2>. QED  BY <2>1, ElementOfSeq, Zenon
<1>. QED  BY <1>1, StoredIndexes, Zenon

\* lastgersync does not notice steps of others that only add leaves to l1info_leaf.
LEMMA SyncKept ==
    ASSUME ChainTypes, SyncInv, UNCHANGED <<infos, syncVars>>, lpb' \in Nat, lpb <= lpb'
    PROVE  SyncInv'
<1>1. Stored \subseteq Stored'
  <2>1. LastL1 \in Nat /\ infos \in Seq(1 .. LastL1) /\ lpb \in 0 .. LastL1
    BY GERFlowAssumption, Zenon DEF ChainTypes
  <2>2. \A i \in 0 .. Len(infos) - 1 : infos[i + 1] \in Nat
    BY <2>1
  <2>3. \A m \in Nat : m <= lpb => m <= lpb'
    BY <2>1
  <2>. QED  BY <2>2, <2>3, Zenon DEF Stored
<1>2. SyncTypes'
  <2>1. ch' \in Seq([num : Nat, hash : Nat, events : SUBSET Stored'])
    <3>1. [num : Nat, hash : Nat, events : SUBSET Stored]
             \subseteq [num : Nat, hash : Nat, events : SUBSET Stored']
      BY <1>1, Zenon
    <3>. QED  BY <3>1, SeqWidened, Zenon DEF SyncInv, SyncTypes, syncVars
  <2>2. dl' \in [pc : {"wait", "list", "header", "read"}, nextIndex : Nat, from : Nat \ {0},
               gers : SUBSET Stored', hash : Nat]
    BY <1>1, Zenon DEF SyncInv, SyncTypes, syncVars
  <2>. QED  BY <2>1, <2>2, Zenon DEF SyncInv, SyncTypes, syncVars
<1>3. BlocksInOrder'
  BY <1>1, Zenon DEF SyncInv, BlocksInOrder, syncVars
<1>4. IndexesInOrder' /\ ImportsGrow'
  BY Zenon DEF SyncInv, IndexesInOrder, ImportsGrow, syncVars
<1>. QED  BY <1>2, <1>3, <1>4, Zenon DEF SyncInv

\* aggoracle does not notice steps of others that make no GER known.
LEMMA OracleKept ==
    ASSUME OracleInv, UNCHANGED <<restarts, txs, oracle>>, Known' \subseteq Known
    PROVE  OracleInv'
  BY Zenon DEF OracleInv, OracleTypes, OneOnItsWay, NoRevertedInjection
-----------------------------------------------------------------------------
(* Steps of the chains and of aggoracle                                    *)

\* The invariant holds when the process starts.
LEMMA InitGER == Init => GERInv
<1>. USE GERFlowAssumption
<1>. SUFFICES ASSUME Init PROVE GERInv
  BY Zenon
<1>1. ChainTypes
  <2>1. PICK n \in 0 .. LastL1 : infos \in [1 .. n -> 1 .. LastL1]
    BY SMTT(30) DEF Init
  <2>2. infos \in Seq(1 .. LastL1) /\ Len(infos) = n
    BY <2>1
  <2>. QED  BY <2>1, <2>2 DEF Init, ChainTypes, l2head
<1>2. OracleInv
  BY DEF Init, OracleInv, OracleTypes, OneOnItsWay, NoRevertedInjection, Idle
<1>3. /\ dl.pc = "wait" /\ dl.gers = {}
      /\ dl \in [pc : {"wait"}, nextIndex : Nat, from : Nat \ {0}, gers : {{}}, hash : {0}]
  <2>1. dl = Download({}, {})
    BY Zenon DEF Init
  <2>. QED  BY <2>1, DownloadFollows, 0 \in Nat, ZenonT(30)
<1>4. SyncInv
  BY <1>3 DEF Init, SyncInv, SyncTypes, BlocksInOrder, IndexesInOrder, ImportsGrow
<1>. QED  BY <1>1, <1>2, <1>4, Zenon DEF GERInv

\* L1 grows, finalizes blocks and l1infotreesync follows it.
LEMMA L1Step == ASSUME GERInv, FinalizeL1 \/ SyncL1 PROVE GERInv'
<1>. USE GERFlowAssumption
<1>0. /\ UNCHANGED <<infos, l2, injected, forks, restarts>>
      /\ \/ l1final < LastL1 /\ l1final' = l1final + 1 /\ lpb' = lpb
         \/ lpb < LastL1 /\ lpb' = lpb + 1 /\ l1final' = l1final
  BY Zenon DEF FinalizeL1, SyncL1, l2Vars
<1>a. l1final' \in 0 .. LastL1 /\ lpb' \in 0 .. LastL1
  <2>1. l1final \in 0 .. LastL1 /\ lpb \in 0 .. LastL1
    BY Zenon DEF GERInv, ChainTypes
  <2>. QED  BY <1>0, <2>1
<1>1. ChainTypes'
  BY <1>0, <1>a, Zenon DEF GERInv, ChainTypes, l2head
<1>2. OracleInv'
  BY OracleKept, Zenon DEF GERInv, FinalizeL1, SyncL1, l2Vars, Known
<1>3. SyncInv'
  <2>1. lpb' \in Nat /\ lpb <= lpb'
    <3>1. lpb \in 0 .. LastL1
      BY Zenon DEF GERInv, ChainTypes
    <3>. QED  BY <1>0, <3>1
  <2>2. UNCHANGED <<infos, syncVars>>
    BY Zenon DEF FinalizeL1, SyncL1
  <2>. QED  BY <2>1, <2>2, SyncKept, Zenon DEF GERInv
<1>. QED  BY <1>1, <1>2, <1>3, Zenon DEF GERInv

\* L2 mines a block without a transaction, or replaces some of its blocks.
LEMMA L2Step ==
    ASSUME GERInv, MineEmptyL2 \/ \E n \in 1 .. l2head : ReorgL2(n)
    PROVE  GERInv'
<1>1. CASE MineEmptyL2
  <2>1. ChainTypes'
    BY <1>1 DEF GERInv, ChainTypes, MineEmptyL2, l1Vars, l2head
  <2>2. OracleInv' /\ SyncInv'
    BY <1>1, OracleKept, SyncKept DEF GERInv, ChainTypes, MineEmptyL2, l1Vars, Known
  <2>. QED  BY <2>1, <2>2, Zenon DEF GERInv
<1>2. ASSUME NEW n \in 1 .. l2head, ReorgL2(n) PROVE GERInv'
  <2>1. ChainTypes'
    <3>1. l2 \in Seq(Nat) /\ forks \in Nat /\ n \in 1 .. Len(l2)
      BY Zenon DEF GERInv, ChainTypes, l2head
    <3>2. SubSeq(l2, 1, n - 1) \in Seq(Nat) /\ Len(SubSeq(l2, 1, n - 1)) = n - 1
      BY <3>1
    <3>3. l2' \in Seq(Nat) /\ Len(l2') = n
      BY <1>2, <3>1, <3>2 DEF ReorgL2
    <3>4. injected' \subseteq [ger : GER, block : 1 .. n]
      BY <1>2 DEF GERInv, ChainTypes, ReorgL2, l2head
    <3>. QED  BY <1>2, <3>3, <3>4 DEF GERInv, ChainTypes, ReorgL2, l1Vars, l2head
  <2>2. OracleInv'
    <3>1. Known' \subseteq Known
      BY <1>2, Zenon DEF ReorgL2, Known
    <3>. QED  BY <1>2, <3>1, OracleKept, Zenon DEF GERInv, ReorgL2
  <2>3. SyncInv'
    BY <1>2, SyncKept DEF GERInv, ChainTypes, ReorgL2, l1Vars
  <2>. QED  BY <2>1, <2>2, <2>3, Zenon DEF GERInv
<1>. QED  BY <1>1, <1>2, Zenon

\* A transaction is mined.  As long as the process has not been restarted it is
\* the one the oracle waits for, and the GER is not known.
LEMMA MineStep == ASSUME GERInv, NEW k \in DOMAIN txs, MineTxL2(k) PROVE GERInv'
<1>. USE GERFlowAssumption
<1>0. txs \in Seq([ger : GER, status : Statuses])
  BY Zenon DEF GERInv, OracleInv, OracleTypes
<1>1. txs \in Seq([ger : GER, status : Statuses]) /\ txs[k] \in [ger : GER, status : Statuses]
  <2>. DEFINE T == [ger : GER, status : Statuses]
  <2>1. txs \in Seq(T)
    BY <1>0, Zenon
  <2>. HIDE DEF T
  <2>2. txs[k] \in T
    BY <2>1, ElementOfSeq, Zenon
  <2>. QED  BY <2>1, <2>2, Zenon DEF T
<1>2. ChainTypes'
  BY <1>1, SMTT(30) DEF GERInv, ChainTypes, MineTxL2, l1Vars, l2head
<1>3. SyncInv'
  BY SyncKept DEF GERInv, ChainTypes, MineTxL2, l1Vars
<1>4. PICK st \in {"mined", "reverted"} :
         /\ txs' = [txs EXCEPT ![k].status = st]
         /\ restarts = 0 => st = "mined"
  BY Zenon DEF MineTxL2, GERInv, OracleInv, OneOnItsWay
<1>5. /\ DOMAIN txs' = DOMAIN txs /\ Len(txs') = Len(txs)
      /\ txs' \in Seq([ger : GER, status : Statuses])
      /\ txs'[k].status = st /\ \A i \in DOMAIN txs : i # k => txs'[i] = txs[i]
  BY <1>1, <1>4, SMTT(30) DEF Statuses
<1>6. OracleTypes'
  BY <1>5, Zenon DEF GERInv, OracleInv, OracleTypes, MineTxL2
<1>7. restarts = 0 => \A i \in DOMAIN txs : i # k => txs[i].status # "sent"
  BY Zenon DEF MineTxL2, GERInv, OracleInv, OneOnItsWay
<1>8. OneOnItsWay'
  BY <1>4, <1>5, <1>7, Zenon DEF GERInv, OracleInv, OneOnItsWay, MineTxL2
<1>9. NoRevertedInjection'
  BY <1>4, <1>5, Zenon DEF GERInv, OracleInv, NoRevertedInjection, MineTxL2
<1>. QED  BY <1>2, <1>3, <1>6, <1>8, <1>9, Zenon DEF GERInv, OracleInv

\* The steps of the oracle: it asks for the latest leaf, checks that L2 does not
\* know it, sends, and waits.
LEMMA OracleStep ==
    ASSUME GERInv, Tick \/ CheckAndSend \/ OracleFails \/ Waited
    PROVE  GERInv'
<1>. USE GERFlowAssumption
<1>1. ChainTypes'
  BY Zenon DEF GERInv, ChainTypes, Tick, CheckAndSend, OracleFails, Waited, l1Vars, l2Vars, l2head
<1>2. SyncInv'
  <2>1. UNCHANGED <<infos, syncVars, lpb>>
    BY Zenon DEF Tick, CheckAndSend, OracleFails, Waited, l1Vars
  <2>. QED  BY <2>1, SyncKept DEF GERInv, ChainTypes
<1>3. Known' = Known /\ restarts' = restarts
  BY Zenon DEF Tick, CheckAndSend, OracleFails, Waited, l2Vars, Known
<1>4. OracleInv'
  <2>0. /\ txs \in Seq([ger : GER, status : Statuses])
        /\ oracle \in [pc : {"wait", "check", "sent"}, blockNumToFetch : 0 .. LastL1,
                       ger : 0 .. LastL1, tx : 0 .. Len(txs)]
    BY Zenon DEF GERInv, OracleInv, OracleTypes
  <2>1. CASE oracle' = Idle /\ txs' = txs /\ (oracle.pc = "sent" => txs[oracle.tx].status # "sent")
    BY <1>3, <2>0, <2>1 DEF GERInv, OracleInv, OracleTypes, OneOnItsWay, NoRevertedInjection, Idle
  <2>2. CASE Tick
    <3>1. PICK b \in 0 .. LastL1 :
             \/ Stored # {} /\ oracle' = [Idle EXCEPT !.pc = "check", !.ger = Max(Stored)]
             \/ oracle' = Idle
             \/ oracle' = [Idle EXCEPT !.blockNumToFetch = b]
      <4>1. l1final \in 0 .. LastL1 /\ oracle.blockNumToFetch \in 0 .. LastL1
        BY <2>0, Zenon DEF GERInv, ChainTypes
      <4>. DEFINE b == IF oracle.blockNumToFetch = 0 THEN l1final ELSE oracle.blockNumToFetch
                  found == IF b = 0 THEN "block 0" ELSE GetLatestInfoUntilBlock(b)
      <4>2. b \in 0 .. LastL1
        BY <4>1, Zenon
      <4>3. found = "found" => Stored # {}
        BY Zenon DEF GetLatestInfoUntilBlock
      <4>4. oracle' = CASE found = "found" -> [Idle EXCEPT !.pc = "check", !.ger = Max(Stored)]
                       [] found = "not found" -> Idle
                       [] OTHER -> [Idle EXCEPT !.blockNumToFetch = b]
        BY <2>2, Zenon DEF Tick
      <4>. HIDE DEF found, b
      <4>. QED  BY <4>2, <4>3, <4>4, Zenon
    <3>2. Stored # {} => Max(Stored) \in GER
      BY LatestInfo, StoredIndexes, Zenon DEF GERInv
    <3>3. /\ oracle' \in [pc : {"wait", "check"}, blockNumToFetch : 0 .. LastL1,
                          ger : 0 .. LastL1, tx : {0}]
          /\ oracle'.pc = "check" => oracle'.ger \in GER
      <4>1. CASE Stored # {} /\ oracle' = [Idle EXCEPT !.pc = "check", !.ger = Max(Stored)]
        <5>1. Max(Stored) \in GER /\ Max(Stored) \in 0 .. LastL1
          BY <3>2, <4>1 DEF GER
        <5>2. PICK g \in 0 .. LastL1 : g = Max(Stored)
          BY <5>1, Zenon
        <5>3. oracle' = [pc |-> "check", blockNumToFetch |-> 0, ger |-> g, tx |-> 0]
          BY <4>1, <5>2, Zenon DEF Idle
        <5>4. oracle'.ger = Max(Stored)
          BY <5>2, <5>3, Zenon
        <5>. QED  BY <5>1, <5>3, <5>4
      <4>2. CASE oracle' = Idle
        BY <4>2 DEF Idle
      <4>3. CASE oracle' = [Idle EXCEPT !.blockNumToFetch = b]
        BY <4>3 DEF Idle
      <4>. QED  BY <3>1, <4>1, <4>2, <4>3, Zenon
    <3>4. txs' = txs /\ oracle.pc = "wait"
      BY <2>2, Zenon DEF Tick
    <3>. QED  BY <1>3, <2>0, <3>3, <3>4, SMTT(30)
              DEF GERInv, OracleInv, OracleTypes, OneOnItsWay, NoRevertedInjection
  <2>3. CASE CheckAndSend /\ oracle.ger \notin Known
    <3>1. oracle.pc = "check" /\ oracle.ger \in GER /\ Send
      BY <2>3, Zenon DEF CheckAndSend, GERInv, OracleInv, OneOnItsWay
    <3>2. /\ txs' \in Seq([ger : GER, status : Statuses]) /\ Len(txs') = Len(txs) + 1
          /\ txs'[Len(txs) + 1] = [ger |-> oracle.ger, status |-> "sent"]
          /\ \A k \in DOMAIN txs : txs'[k] = txs[k]
          /\ DOMAIN txs' = DOMAIN txs \cup {Len(txs) + 1}
      BY <2>0, <3>1, SMTT(30) DEF Send, Statuses
    <3>3. /\ oracle'.pc = "sent" /\ oracle'.tx = Len(txs) + 1 /\ oracle'.ger = oracle.ger
          /\ oracle' \in [pc : {"wait", "check", "sent"}, blockNumToFetch : 0 .. LastL1,
                          ger : 0 .. LastL1, tx : 0 .. Len(txs')]
      <4>1. oracle' = [oracle EXCEPT !.pc = "sent", !.tx = Len(txs) + 1]
        BY <3>1, Zenon DEF Send
      <4>2. Len(txs) + 1 \in 0 .. Len(txs')
        BY <2>0, <3>2
      <4>. QED  BY <2>0, <4>1, <4>2, Zenon
    <3>4. restarts = 0 => \A k \in DOMAIN txs : txs[k].status # "sent"
      BY <3>1, Zenon DEF GERInv, OracleInv, OneOnItsWay
    <3>5. OneOnItsWay'
      BY <1>3, <2>3, <3>1, <3>2, <3>3, <3>4 DEF OneOnItsWay
    <3>6. NoRevertedInjection'
      BY <1>3, <3>2 DEF GERInv, OracleInv, NoRevertedInjection
    <3>. QED  BY <3>2, <3>3, <3>5, <3>6, Zenon DEF OracleInv, OracleTypes
  <2>4. CASE CheckAndSend /\ oracle.ger \in Known
    BY <2>1, <2>4, Zenon DEF CheckAndSend
  <2>. QED  BY <2>1, <2>2, <2>3, <2>4, Zenon DEF OracleFails, Waited
<1>. QED  BY <1>1, <1>2, <1>4, Zenon DEF GERInv
-----------------------------------------------------------------------------
(* Steps of lastgersync                                                    *)

\* A step of lastgersync changes nothing of the others.
LEMMA OnlySync ==
    ASSUME GERInv, UNCHANGED <<l1Vars, l2Vars, restarts, txs, oracle>>
    PROVE  ChainTypes' /\ OracleInv' /\ Stored' = Stored
  BY OracleKept, Zenon DEF GERInv, ChainTypes, l1Vars, l2Vars, l2head, Known, Stored

\* The steps of the downloader before it has a block to send.
LEMMA DownloadStep ==
    ASSUME GERInv, WaitForNewBlocks \/ getGERsFromIndex \/ GetBlockHeader
    PROVE  GERInv'
<1>1. ChainTypes' /\ OracleInv' /\ Stored' = Stored
  BY OnlySync, Zenon DEF WaitForNewBlocks, getGERsFromIndex, GetBlockHeader
<1>2. UNCHANGED <<block, imported, ch>>
  BY Zenon DEF WaitForNewBlocks, getGERsFromIndex, GetBlockHeader
<1>3. /\ dl \in [pc : {"wait", "list", "header", "read"}, nextIndex : Nat, from : Nat \ {0},
                 gers : SUBSET Stored, hash : Nat]
      /\ l2 \in Seq(Nat)
      /\ Stored \in SUBSET Nat
  BY StoredIndexes, Zenon DEF GERInv, SyncInv, SyncTypes, ChainTypes
<1>4. /\ dl' \in [pc : {"list", "header", "read"}, nextIndex : Nat, from : Nat \ {0},
                  gers : SUBSET Stored, hash : Nat]
      /\ dl'.nextIndex = dl.nextIndex /\ dl'.pc # "wait"
      /\ IF dl.pc = "wait" THEN dl.from < dl'.from ELSE dl.from = dl'.from
      /\ \A g \in dl'.gers : dl'.nextIndex <= g
  <2>1. CASE WaitForNewBlocks
    <3>1. Len(l2) \in Nat \ {0} /\ dl.from < Len(l2)
      BY <1>3, <2>1 DEF WaitForNewBlocks, l2head
    <3>2. dl' = [dl EXCEPT !.pc = "list", !.from = Len(l2)] /\ dl.pc = "wait"
      BY <2>1, Zenon DEF WaitForNewBlocks, l2head
    <3>. QED  BY <1>3, <3>1, <3>2, Zenon DEF GERInv, SyncInv, IndexesInOrder
  <2>2. CASE getGERsFromIndex
    <3>. DEFINE G == {i \in Stored : i >= dl.nextIndex}
    <3>1. G \in SUBSET Stored /\ \A g \in G : dl.nextIndex <= g
      BY <1>3, Zenon
    <3>2. dl' = [dl EXCEPT !.pc = "header", !.gers = G] /\ dl.pc = "list"
      BY <2>2, Zenon DEF getGERsFromIndex
    <3>. HIDE DEF G
    <3>. QED  BY <1>3, <3>1, <3>2, Zenon
  <2>3. CASE GetBlockHeader
    <3>1. l2[dl.from] \in Nat
      BY <1>3, <2>3 DEF GetBlockHeader, l2head
    <3>2. dl' = [dl EXCEPT !.pc = "read", !.hash = l2[dl.from]] /\ dl.pc = "header"
      BY <2>3, Zenon DEF GetBlockHeader
    <3>. QED  BY <1>3, <3>1, <3>2, Zenon DEF GERInv, SyncInv, IndexesInOrder
  <2>. QED  BY <2>1, <2>2, <2>3, Zenon
<1>5. SyncTypes'
  BY <1>1, <1>2, <1>4, Zenon DEF GERInv, SyncInv, SyncTypes
<1>6. BlocksInOrder'
  <2>1. \A b \in block : b.num \in Nat
    BY Zenon DEF GERInv, SyncInv, SyncTypes
  <2>2. \A i \in DOMAIN ch : ch[i].num \in Nat
    BY ChannelTypes, Zenon DEF GERInv, SyncInv
  <2>3. \A n \in Nat : n <= dl.from /\ (dl.pc # "wait" => n < dl.from) => n < dl'.from
    BY <1>3, <1>4
  <2>. QED  BY <1>1, <1>2, <1>4, <2>1, <2>2, <2>3 DEF GERInv, SyncInv, BlocksInOrder
<1>7. IndexesInOrder' /\ ImportsGrow'
  BY <1>2, <1>4, Zenon DEF GERInv, SyncInv, IndexesInOrder, ImportsGrow
<1>. QED  BY <1>1, <1>5, <1>6, <1>7, Zenon DEF GERInv, SyncInv

\* The downloader sends the block with the greatest leaf that L2 knows.
LEMMA SendStep == ASSUME GERInv, setGreatestGERInjected PROVE GERInv'
<1>. USE GERFlowAssumption
<1>1. ChainTypes' /\ OracleInv' /\ Stored' = Stored
  BY OnlySync, Zenon DEF setGreatestGERInjected
<1>. DEFINE found == dl.gers \cap Known
            events == IF found = {} THEN {} ELSE {Max(found)}
<1>2. /\ dl \in [pc : {"wait", "list", "header", "read"}, nextIndex : Nat, from : Nat \ {0},
                 gers : SUBSET Stored, hash : Nat]
      /\ ch \in Seq([num : Nat, hash : Nat, events : SUBSET Stored])
      /\ Stored \in SUBSET Nat /\ \A i \in Stored : i <= LastL1
  BY StoredIndexes, Zenon DEF GERInv, SyncInv, SyncTypes
<1>3. found # {} => Max(found) \in found
  <2>1. found \in SUBSET Nat /\ \A x \in found : x <= LastL1
    BY <1>2, Zenon
  <2>. QED  BY <2>1, MaxIsGreatest, Zenon
<1>4. PICK next \in Nat :
         /\ dl' = [dl EXCEPT !.pc = "wait", !.nextIndex = next, !.gers = {}, !.hash = 0]
         /\ next = NextIndex(dl, found)
  <2>1. dl.nextIndex \in Nat /\ (found # {} => Max(found) \in Nat)
    BY <1>2, <1>3, Zenon
  <2>. HIDE DEF found
  <2>2. NextIndex(dl, found) \in Nat
    BY <2>1 DEF NextIndex
  <2>. QED  BY <2>2, Zenon DEF setGreatestGERInjected, found
<1>5. /\ dl' \in [pc : {"wait"}, nextIndex : Nat, from : Nat \ {0}, gers : {{}}, hash : Nat]
      /\ dl'.from = dl.from /\ dl'.nextIndex = next /\ dl'.gers = {} /\ dl'.pc = "wait"
  BY <1>2, <1>4, Zenon
<1>6. /\ events \in SUBSET Stored
      /\ \A e \in events : dl.nextIndex <= e /\ next = e + 1
      /\ events = {} => next = dl.nextIndex
  BY <1>2, <1>3, <1>4, Zenon DEF NextIndex, GERInv, SyncInv, IndexesInOrder
<1>7. /\ dl.pc = "read" /\ Len(ch) < BufferSize /\ UNCHANGED <<block, imported>>
      /\ ch' = Append(ch, [num |-> dl.from, hash |-> dl.hash, events |-> events])
  BY Zenon DEF setGreatestGERInjected
<1>. HIDE DEF events, found
<1>8. /\ ch' \in Seq([num : Nat, hash : Nat, events : SUBSET Stored]) /\ Len(ch') <= BufferSize
      /\ DOMAIN ch' = DOMAIN ch \cup {Len(ch) + 1}
      /\ \A i \in DOMAIN ch : ch'[i] = ch[i] /\ i \in Nat /\ i <= Len(ch)
      /\ ch'[Len(ch) + 1].num = dl.from /\ ch'[Len(ch) + 1].events = events
  <2>. DEFINE E == [num : Nat, hash : Nat, events : SUBSET Stored]
              e == [num |-> dl.from, hash |-> dl.hash, events |-> events]
  <2>1. ch \in Seq(E) /\ e \in E /\ e.num = dl.from /\ e.events = events
    BY <1>2, <1>6, Zenon
  <2>2. ch' = Append(ch, e) /\ Len(ch) \in Nat
    BY <1>2, <1>7
  <2>. HIDE DEF E, e
  <2>3. /\ ch' \in Seq(E) /\ Len(ch') = Len(ch) + 1
        /\ DOMAIN ch' = DOMAIN ch \cup {Len(ch) + 1}
        /\ \A i \in DOMAIN ch : ch'[i] = ch[i] /\ i \in Nat /\ i <= Len(ch)
        /\ ch'[Len(ch) + 1] = e
    BY <2>1, <2>2, AppendToSeq
  <2>. QED  BY <1>7, <2>1, <2>2, <2>3, SMTT(30) DEF E
<1>a. /\ Len(ch) \in Nat /\ DOMAIN ch' = DOMAIN ch \cup {Len(ch) + 1}
      /\ \A i \in DOMAIN ch : i \in Nat /\ i <= Len(ch)
  BY <1>2, <1>8, SMTT(30)
<1>b. \A i, j \in DOMAIN ch' : i < j => i \in DOMAIN ch
  BY <1>a
<1>9. SyncTypes'
  BY <1>1, <1>5, <1>7, <1>8, SMTT(30) DEF GERInv, SyncInv, SyncTypes
<1>10. BlocksInOrder'
  <2>1. \A b \in block : b.num \in Nat /\ b.num < dl.from
    BY <1>7, Zenon DEF GERInv, SyncInv, SyncTypes, BlocksInOrder
  <2>2. \A i \in DOMAIN ch : ch[i].num \in Nat /\ ch[i].num < dl.from
    BY <1>7, ChannelTypes, Zenon DEF GERInv, SyncInv, BlocksInOrder
  <2>3. \A b \in block, i \in DOMAIN ch' : b.num < ch'[i].num
    BY <1>8, <2>1, Zenon DEF GERInv, SyncInv, BlocksInOrder
  <2>4. ASSUME NEW i \in DOMAIN ch', NEW j \in DOMAIN ch', i < j PROVE ch'[i].num < ch'[j].num
    <3>1. i \in DOMAIN ch
      BY <1>b, <2>4, Zenon
    <3>. QED  BY <1>8, <2>2, <2>4, <3>1, Zenon DEF GERInv, SyncInv, BlocksInOrder
  <2>5. \A i \in DOMAIN ch' : ch'[i].num <= dl.from
    <3>1. dl.from \in Nat
      BY <1>2, Zenon
    <3>. QED  BY <1>8, <2>2, <3>1, SMTT(30)
  <2>. QED  BY <1>1, <1>2, <1>5, <1>7, <2>1, <2>3, <2>4, <2>5, Zenon
               DEF GERInv, SyncInv, BlocksInOrder
<1>11. IndexesInOrder'
  <2>1. ASSUME NEW i \in Nat, Before(i, dl.nextIndex)
        PROVE  Before(i, next) /\ \A e \in events : Before(i, e)
    BY <1>2, <1>6, <2>1, SMTT(30) DEF Before
  <2>2. \A r \in imported : r.index \in Nat /\ Before(r.index, dl.nextIndex)
    BY Zenon DEF GERInv, SyncInv, SyncTypes, IndexesInOrder
  <2>3. \A i \in DOMAIN ch : \A e \in ch[i].events : e \in Nat /\ Before(e, dl.nextIndex)
    <3>1. \A i \in DOMAIN ch : \A e \in ch[i].events : Before(e, dl.nextIndex)
      BY Zenon DEF GERInv, SyncInv, IndexesInOrder
    <3>2. \A i \in DOMAIN ch : ch[i].events \subseteq Nat
      BY ChannelTypes, Zenon DEF GERInv, SyncInv
    <3>. QED  BY <3>1, <3>2, Zenon
  <2>4. \A e \in events : Before(e, next)
    BY <1>2, <1>6 DEF Before
  <2>5. ASSUME NEW i \in DOMAIN ch', NEW j \in DOMAIN ch', i < j,
               NEW e \in ch'[i].events, NEW f \in ch'[j].events
        PROVE  Before(e, f)
    <3>1. i \in DOMAIN ch
      BY <1>b, <2>5, Zenon
    <3>2. CASE j \in DOMAIN ch
      BY <1>8, <2>5, <3>1, <3>2, Zenon DEF GERInv, SyncInv, IndexesInOrder
    <3>3. CASE j = Len(ch) + 1
      BY <1>8, <2>1, <2>3, <2>5, <3>1, <3>3, Zenon
    <3>. QED  BY <1>8, <3>2, <3>3, Zenon
  <2>6. \A i \in DOMAIN ch' : \A e \in ch'[i].events : Before(e, next)
    BY <1>8, <2>1, <2>3, <2>4, SMTT(30)
  <2>7. \A r \in imported, i \in DOMAIN ch' : \A e \in ch'[i].events : Before(r.index, e)
    BY <1>8, <2>1, <2>2, SMTT(30) DEF GERInv, SyncInv, IndexesInOrder
  <2>. QED  BY <1>5, <1>7, <2>1, <2>2, <2>5, <2>6, <2>7, Zenon DEF IndexesInOrder
<1>. QED  BY <1>1, <1>7, <1>9, <1>10, <1>11, Zenon DEF GERInv, SyncInv, ImportsGrow
\* The driver stores a block: its events become the rows with the highest block
\* and the highest index.
LEMMA ProcessStep == ASSUME GERInv, ProcessBlock PROVE GERInv'
<1>1. ChainTypes' /\ OracleInv' /\ Stored' = Stored
  BY OnlySync, Zenon DEF ProcessBlock
<1>. DEFINE E == [num : Nat, hash : Nat, events : SUBSET Stored]
<1>2. ch \in Seq(E) /\ Len(ch) <= BufferSize /\ BufferSize \in Nat
  BY GERFlowAssumption, Zenon DEF GERInv, SyncInv, SyncTypes
<1>3. PICK b \in E :
         /\ b = ch[1] /\ 1 \in DOMAIN ch
         /\ block' = block \cup {[num |-> b.num, hash |-> b.hash]}
         /\ imported' = imported \cup {[index |-> i, block |-> b.num] : i \in b.events}
         /\ dl' = dl /\ ch' = Tail(ch) /\ ch # << >>
  <2>. HIDE DEF E
  <2>1. ch # << >> /\ ch[1] \in E /\ 1 \in DOMAIN ch /\ Head(ch) = ch[1]
    BY <1>2, ElementOfSeq DEF ProcessBlock
  <2>. QED  BY <2>1, Zenon DEF ProcessBlock
<1>4. /\ ch' \in Seq(E) /\ Len(ch') <= BufferSize
      /\ \A i \in DOMAIN ch' : i \in Nat /\ i + 1 \in DOMAIN ch /\ ch'[i] = ch[i + 1] /\ 1 < i + 1
  <2>. HIDE DEF E
  <2>. QED  BY <1>2, <1>3
<1>5. /\ b.num \in Nat /\ b.hash \in Nat /\ b.events \subseteq Stored
      /\ \A e \in b.events : e \in Nat
  BY <1>3, StoredIndexes, Zenon DEF GERInv
<1>6. SyncTypes'
  BY <1>1, <1>3, <1>4, <1>5, SMTT(30) DEF GERInv, SyncInv, SyncTypes
<1>7. \A i \in DOMAIN ch' : b.num < ch'[i].num
  BY <1>3, <1>4, Zenon DEF GERInv, SyncInv, BlocksInOrder
<1>8. \A c \in block : c.num \in Nat /\ c.num < b.num
  BY <1>3, Zenon DEF GERInv, SyncInv, SyncTypes, BlocksInOrder
<1>9. BlocksInOrder'
  <2>1. \A c, d \in block' : c.num = d.num => c = d
    <3>1. PICK y : y = [num |-> b.num, hash |-> b.hash]
      BY Zenon
    <3>2. y.num = b.num /\ block' = block \cup {y}
      BY <1>3, <3>1
    <3>3. \A c \in block : c.num # b.num
      BY <1>5, <1>8
    <3>4. \A c, d \in block : c.num = d.num => c = d
      BY Zenon DEF GERInv, SyncInv, BlocksInOrder
    <3>. QED  BY <3>2, <3>3, <3>4, Zenon
  <2>2. \A c \in block' : c.num <= dl.from /\ (dl.pc # "wait" => c.num < dl.from)
    BY <1>3 DEF GERInv, SyncInv, BlocksInOrder
  <2>3. \A i \in DOMAIN ch' : ch'[i].num <= dl.from /\ (dl.pc # "wait" => ch'[i].num < dl.from)
    BY <1>4, Zenon DEF GERInv, SyncInv, BlocksInOrder
  <2>4. \A c \in block', i \in DOMAIN ch' : c.num < ch'[i].num
    BY <1>3, <1>4, <1>7 DEF GERInv, SyncInv, BlocksInOrder
  <2>5. \A i, j \in DOMAIN ch' : i < j => ch'[i].num < ch'[j].num
    <3>1. \A i, j \in DOMAIN ch' : i < j => i + 1 < j + 1
      BY <1>4
    <3>. QED  BY <1>4, <3>1, SMTT(30) DEF GERInv, SyncInv, BlocksInOrder
  <2>6. ASSUME NEW r \in imported' PROVE r.index \in Stored /\ \E c \in block' : c.num = r.block
    <3>1. CASE r \in imported
      BY <1>3, <3>1, Zenon DEF GERInv, SyncInv, BlocksInOrder
    <3>2. CASE r.index \in b.events /\ r.block = b.num
      <4>1. [num |-> b.num, hash |-> b.hash] \in block'
        BY <1>3, Zenon
      <4>. QED  BY <1>5, <3>2, <4>1, Zenon
    <3>. QED  BY <1>3, <3>1, <3>2
  <2>. QED  BY <1>1, <1>3, <2>1, <2>2, <2>3, <2>4, <2>5, <2>6, SMTT(30) DEF BlocksInOrder
<1>10. \A r \in imported' : r \in imported \/ (r.index \in b.events /\ r.block = b.num)
  BY <1>3, SMTT(30)
<1>11. IndexesInOrder'
  <2>1. \A r \in imported' : Before(r.index, dl.nextIndex)
    BY <1>3, <1>10, SMTT(30) DEF GERInv, SyncInv, IndexesInOrder
  <2>2. \A i \in DOMAIN ch' : \A e \in ch'[i].events : Before(e, dl.nextIndex)
    BY <1>4, SMTT(30) DEF GERInv, SyncInv, IndexesInOrder
  <2>3. \A i \in DOMAIN ch' : \A e \in ch'[i].events, f \in b.events : Before(f, e)
    BY <1>3, <1>4, SMTT(30) DEF GERInv, SyncInv, IndexesInOrder
  <2>4. \A r \in imported', i \in DOMAIN ch' : \A e \in ch'[i].events : Before(r.index, e)
    BY <1>4, <1>10, <2>3, SMTT(30) DEF GERInv, SyncInv, IndexesInOrder
  <2>5. \A i, j \in DOMAIN ch' : i < j =>
           \A e \in ch'[i].events, f \in ch'[j].events : Before(e, f)
    <3>1. \A i, j \in DOMAIN ch' : i < j => i + 1 < j + 1
      BY <1>4
    <3>. QED  BY <1>4, <3>1, SMTT(30) DEF GERInv, SyncInv, IndexesInOrder
  <2>. QED  BY <1>3, <2>1, <2>2, <2>4, <2>5, SMTT(30) DEF GERInv, SyncInv, IndexesInOrder
<1>12. ImportsGrow'
  <2>1. \A r \in imported : r.block \in Nat /\ r.block < b.num
    BY <1>8, Zenon DEF GERInv, SyncInv, SyncTypes, BlocksInOrder
  <2>2. \A r \in imported : \A e \in b.events : Before(r.index, e)
    BY <1>3, Zenon DEF GERInv, SyncInv, IndexesInOrder
  <2>3. ASSUME NEW r \in imported', NEW s \in imported', r.block < s.block
        PROVE  Before(r.index, s.index)
    <3>1. CASE r \in imported /\ s \in imported
      BY <2>3, <3>1, Zenon DEF GERInv, SyncInv, ImportsGrow, Before
    <3>2. CASE r \in imported /\ s \notin imported
      BY <1>10, <2>2, <3>2, Zenon
    <3>3. CASE r \notin imported
      <4>1. r.block = b.num /\ (s.block = b.num \/ s.block < b.num) /\ s.block \in Nat
        BY <1>5, <1>10, <2>1, <3>3, Zenon
      <4>. QED  BY <1>5, <2>3, <4>1
    <3>. QED  BY <3>1, <3>2, <3>3, Zenon
  <2>. QED  BY <2>3, Zenon DEF ImportsGrow, Before
<1>. QED  BY <1>1, <1>6, <1>9, <1>11, <1>12, Zenon DEF GERInv, SyncInv

\* After a reorg of L2, and after a restart, a new Download starts from the rows
\* that are left.
LEMMA NewDownload ==
    ASSUME GERInv, ChainTypes', Stored' = Stored,
           block' \subseteq block, imported' \subseteq imported,
           \A r \in imported' : \E b \in block' : b.num = r.block,
           dl' = Download(block', imported'), ch' = << >>
    PROVE  SyncInv'
<1>. USE GERFlowAssumption
<1>1. /\ block \subseteq [num : Nat, hash : Nat] /\ imported \subseteq [index : Nat, block : Nat]
      /\ dl.from \in Nat /\ \A b \in block : b.num <= dl.from
  BY Zenon DEF GERInv, SyncInv, SyncTypes, BlocksInOrder
<1>2. \A r \in imported : r.index <= LastL1 /\ r.index \in Stored
  BY StoredIndexes, Zenon DEF GERInv, SyncInv, BlocksInOrder
<1>3. PICK bs, rs : bs = block' /\ rs = imported'
  BY Zenon
<1>4. /\ bs \subseteq [num : Nat, hash : Nat] /\ \A b \in bs : b.num <= dl.from
      /\ rs \subseteq [index : Nat, block : Nat] /\ \A r \in rs : r.index <= LastL1
      /\ LastL1 \in Nat
  BY <1>1, <1>2, <1>3, Zenon
<1>5. /\ dl'.pc = "wait" /\ dl'.gers = {}
      /\ dl' \in [pc : {"wait"}, nextIndex : Nat, from : Nat \ {0}, gers : {{}}, hash : {0}]
      /\ \A b \in bs : b.num < dl'.from
      /\ \A r \in rs : Before(r.index, dl'.nextIndex)
  <2>1. dl' = Download(bs, rs)
    BY <1>3, Zenon
  <2>2. PICK n \in Nat : n = dl.from
    BY <1>1, Zenon
  <2>3. \A b \in bs : b.num <= n
    BY <1>4, <2>2, Zenon
  <2>4. /\ Download(bs, rs).pc = "wait" /\ Download(bs, rs).gers = {}
        /\ Download(bs, rs) \in [pc : {"wait"}, nextIndex : Nat, from : Nat \ {0},
                                 gers : {{}}, hash : {0}]
        /\ \A b \in bs : b.num < Download(bs, rs).from
        /\ \A r \in rs : Before(r.index, Download(bs, rs).nextIndex)
    BY <1>4, <2>3, DownloadFollows, Zenon
  <2>. QED  BY <2>1, <2>4, Zenon
<1>6. SyncTypes'
  <2>1. << >> \in Seq([num : Nat, hash : Nat, events : SUBSET Stored]) /\ Len(<< >>) <= BufferSize
    OBVIOUS
  <2>. QED  BY <1>1, <1>5, <2>1, SMTT(30) DEF SyncTypes
<1>7. BlocksInOrder'
  <2>1. \A b \in block' : b.num \in Nat /\ b.num < dl'.from /\ dl'.from \in Nat
    BY <1>3, <1>4, <1>5, Zenon
  <2>2. DOMAIN ch' = {}
    BY SMTT(30)
  <2>. QED  BY <1>2, <1>5, <2>1, <2>2 DEF GERInv, SyncInv, BlocksInOrder
<1>8. IndexesInOrder' /\ ImportsGrow'
  <2>2. DOMAIN ch' = {}
    OBVIOUS
  <2>. QED  BY <1>3, <1>5, <2>2, Zenon DEF GERInv, SyncInv, IndexesInOrder, ImportsGrow
<1>. QED  BY <1>6, <1>7, <1>8, Zenon DEF SyncInv

\* A reorganisation of L2 drops blocks and what was recorded of them.
LEMMA ReorgStep == ASSUME GERInv, NEW c \in Reorged, Reorg(c.num) PROVE GERInv'
<1>1. ChainTypes' /\ OracleInv' /\ Stored' = Stored
  BY OnlySync, SMTT(30) DEF Reorg
<1>2. \A r \in imported' : \E b \in block' : b.num = r.block
  BY Zenon DEF GERInv, SyncInv, BlocksInOrder, Reorg
<1>3. block' \subseteq block /\ imported' \subseteq imported
  BY Zenon DEF Reorg
<1>. QED  BY <1>1, <1>2, <1>3, NewDownload, Zenon DEF GERInv, Reorg

\* A restart begins with what the tables have.
LEMMA RestartStep == ASSUME GERInv, Restart PROVE GERInv'
<1>. USE GERFlowAssumption
<1>1. ChainTypes' /\ Stored' = Stored
  BY SMTT(30) DEF GERInv, ChainTypes, Restart, l1Vars, l2Vars, l2head, Stored
<1>2. OracleInv'
  BY SMTT(30) DEF GERInv, ChainTypes, OracleInv, OracleTypes, OneOnItsWay, NoRevertedInjection, Restart, Idle
<1>3. SyncInv'
  BY <1>1, NewDownload, Zenon DEF GERInv, SyncInv, BlocksInOrder, Restart
<1>. QED  BY <1>1, <1>2, <1>3, SMTT(30) DEF GERInv

-----------------------------------------------------------------------------
(* The theorems                                                            *)

\* Every step keeps the invariant.
LEMMA StepGER == GERInv /\ [Next]_vars => GERInv'
<1>. SUFFICES ASSUME GERInv, [Next]_vars PROVE GERInv'
  BY Zenon
<1>1. CASE UNCHANGED vars
  <2>1. ChainTypes' /\ OracleInv' /\ SyncInv'
    BY <1>1, OnlySync, SyncKept DEF vars, l1Vars, GERInv, ChainTypes
  <2>. QED  BY <2>1, Zenon DEF GERInv
<1>. QED  BY <1>1, L1Step, L2Step, MineStep, OracleStep, DownloadStep, SendStep, ProcessStep,
             ReorgStep, RestartStep, Zenon DEF Next

\* The inductive invariant holds in every state.
LEMMA GERInvAlways == Spec => []GERInv
  BY InitGER, StepGER, PTL DEF Spec

\* The tables, the channel and the L2 contract keep their types; in particular each
\* row of imported_global_exit_root belongs to a row of block (its foreign key).
THEOREM TypeCorrect == Spec => []TypeOK
<1>1. GERInv => TypeOK
  <2>. SUFFICES ASSUME GERInv PROVE TypeOK
    BY Zenon
  <2>1. /\ infos \in Seq(1 .. LastL1) /\ {l1final, lpb, oracle.blockNumToFetch} \subseteq 0 .. LastL1
        /\ injected \subseteq [ger : 0 .. LastL1 - 1, block : 1 .. l2head]
    BY Zenon DEF GERInv, ChainTypes, OracleInv, OracleTypes, GER
  <2>2. \A k \in DOMAIN txs : txs[k].status \in {"sent", "mined", "reverted"}
    <3>. DEFINE T == [ger : GER, status : Statuses]
    <3>1. txs \in Seq(T)
      BY Zenon DEF GERInv, OracleInv, OracleTypes
    <3>2. \A k \in DOMAIN txs : txs[k] \in T
      <4>. HIDE DEF T
      <4>. QED  BY <3>1, ElementOfSeq, Zenon
    <3>. QED  BY <3>2, Zenon DEF Statuses
  <2>3. oracle.pc \in {"wait", "check", "sent"} /\ oracle.tx \in 0 .. Len(txs)
    BY Zenon DEF GERInv, OracleInv, OracleTypes
  <2>4. dl.pc \in {"wait", "list", "header", "read"} /\ dl.gers \subseteq Stored /\ Len(ch) <= BufferSize
    BY Zenon DEF GERInv, SyncInv, SyncTypes
  <2>. QED  BY <2>1, <2>2, <2>3, <2>4, Zenon DEF TypeOK, GERInv, SyncInv, BlocksInOrder
<1>. QED  BY <1>1, GERInvAlways, PTL

\* A leaf is recorded once: the indexes of imported_global_exit_root grow with the
\* block, whatever reorgs of L2 and restarts interrupt lastgersync, for any size of
\* downloadCh.
THEOREM LeavesRecordedOnce == Spec => []ImportsGrow
  BY GERInvAlways, PTL DEF GERInv, SyncInv

\* Until the process is restarted aggoracle sends no transaction that reverts on L2,
\* whatever L2 drops in reorgs: IsGERAlreadyInjected is still right when the
\* transaction is mined, because nobody else injects while it is on its way.
THEOREM InjectionsSucceed == Spec => []NoRevertedInjection
  BY GERInvAlways, PTL DEF GERInv, OracleInv

-----------------------------------------------------------------------------
(***************************************************************************)
(* ClaimSponsor.                                                           *)
(* What GetSponsoredClaimStatus answers, for every set of global indexes,  *)
(* every number of claims, retries and faults, and a manager that repeats  *)
(* transactions or refuses to.                                             *)
(***************************************************************************)

ClaimRow == [gi : GlobalIndexes, leaf : {"asset", "message", "other"},
             status : {"pending", "success", "failed"}, txID : Nat]

SponsorTypes ==
    /\ claim \in Seq(ClaimRow)
    /\ sponsor \in [pc : {"idle", "dead", "send", "save", "wait", "conclude"},
                    gi : GlobalIndexes \cup {NoTx}, leaf : {"asset", "message", "other"},
                    txID : Nat, new : Nat]
    /\ monitored \in Seq([gi : GlobalIndexes, status : {"created", "sent", "mined", "failed"}])
    /\ sponsorFaults \in Nat

Works(gi) == sponsor.pc \in {"send", "save", "wait", "conclude"} /\ sponsor.gi = gi

Tx(t, gi)    == t \in 1 .. Len(monitored) /\ monitored[t].gi = gi
First(t, gi) == Tx(t, gi) /\ \A u \in 1 .. Len(monitored) : Tx(u, gi) => t <= u
Only(t, gi)  == Tx(t, gi) /\ \A u \in 1 .. Len(monitored) : Tx(u, gi) => u = t
NoneOf(gi)   == \A u \in 1 .. Len(monitored) : ~Tx(u, gi)

\* A transaction is mined exactly when the contract has paid its claim.
PayInv ==
    /\ \A t \in 1 .. Len(monitored) : monitored[t].status = "mined" => monitored[t].gi \in claimed
    /\ \A gi \in claimed : \E t \in 1 .. Len(monitored) : Tx(t, gi) /\ monitored[t].status = "mined"

\* Ids are those of transactions of the same claim.
IdInv ==
    /\ \A i \in 1 .. Len(claim) :
          /\ claim[i].txID # NoTx => Tx(claim[i].txID, claim[i].gi)
          /\ claim[i].status = "success" => claim[i].gi \in claimed
    /\ \A gi \in GlobalIndexes : Works(gi) =>
          /\ Rows(gi) # {}
          /\ sponsor.txID # NoTx => Tx(sponsor.txID, gi)
          /\ sponsor.pc = "save" => Tx(sponsor.new, gi)
          /\ sponsor.pc = "conclude" => /\ sponsor.txID # NoTx
                                        /\ monitored[sponsor.txID].status \in {"mined", "failed"}
    /\ Works(sponsor.gi) => sponsor.gi \in GlobalIndexes
    /\ \A t \in 1 .. Len(monitored) : Rows(monitored[t].gi) # {}

Sole(i) == \A j \in 1 .. Len(claim) : claim[j].gi = claim[i].gi => j = i

\* The row of a claim nobody works on.
RestOK(r) ==
    /\ r.status = "pending" => /\ r.txID = NoTx => NoneOf(r.gi)
                               /\ r.txID # NoTx => Only(r.txID, r.gi)
    /\ r.status = "failed" => \E t \in 1 .. Len(monitored) :
                                 First(t, r.gi) /\ monitored[t].status = "failed"

\* The row of the claim the sponsor works on: the first round stores the id of the
\* only transaction, the second one waits for it.
WorkOK(r) ==
    /\ r.status = "pending"
    /\ sponsor.pc = "send" => /\ sponsor.txID = r.txID
                              /\ r.txID = NoTx => NoneOf(r.gi)
                              /\ r.txID # NoTx => Only(r.txID, r.gi)
    /\ sponsor.pc = "save" => /\ sponsor.txID = NoTx => Only(sponsor.new, r.gi)
                              /\ sponsor.txID # NoTx => First(sponsor.txID, r.gi)
    /\ sponsor.pc = "wait" => /\ sponsor.txID = NoTx => r.txID # NoTx /\ Only(r.txID, r.gi)
                              /\ sponsor.txID # NoTx => First(sponsor.txID, r.gi)
    /\ sponsor.pc = "conclude" => First(sponsor.txID, r.gi)

\* While no call has failed, a claim requested once has at most two transactions, and
\* it is concluded by the first.
SoleInv ==
    sponsorFaults = 0 =>
       \A i \in 1 .. Len(claim) : Sole(i) =>
          IF Works(claim[i].gi) THEN WorkOK(claim[i]) ELSE RestOK(claim[i])

SponsorInv == SponsorTypes /\ PayInv /\ IdInv /\ SoleInv

\* An element of a sequence, such as a row of the table or a transaction.
LEMMA ElementOf ==
    ASSUME NEW S, NEW q \in Seq(S), NEW i \in 1 .. Len(q)
    PROVE  q[i] \in S
OBVIOUS

\* A statement on a column of the table changes that column of the rows of gi.
LEMMA UpdateTxID ==
    ASSUME SponsorTypes, NEW gi, NEW v \in Nat
    PROVE  /\ Update(gi, "txID", v) \in Seq(ClaimRow)
           /\ Len(Update(gi, "txID", v)) = Len(claim)
           /\ \A i \in 1 .. Len(claim) :
                 /\ Update(gi, "txID", v)[i].gi = claim[i].gi
                 /\ Update(gi, "txID", v)[i].status = claim[i].status
                 /\ Update(gi, "txID", v)[i].txID = IF claim[i].gi = gi THEN v ELSE claim[i].txID
<1>. DEFINE c == Update(gi, "txID", v)
<1>1. /\ Len(claim) \in Nat /\ \A i \in 1 .. Len(claim) : claim[i] \in ClaimRow
  BY DEF SponsorTypes
<1>2. /\ c = [i \in 1 .. Len(claim) |->
                IF claim[i].gi = gi THEN [claim[i] EXCEPT !["txID"] = v] ELSE claim[i]]
  BY Zenon DEF Update
<1>3. \A i \in 1 .. Len(claim) :
         /\ c[i] \in ClaimRow
         /\ c[i].gi = claim[i].gi /\ c[i].status = claim[i].status
         /\ c[i].txID = IF claim[i].gi = gi THEN v ELSE claim[i].txID
  <2>1. \A i \in 1 .. Len(claim) :
           c[i] = IF claim[i].gi = gi THEN [claim[i] EXCEPT !["txID"] = v] ELSE claim[i]
    BY <1>2, Zenon
  <2>2. \A x \in ClaimRow :
           LET y == [x EXCEPT !["txID"] = v]
           IN  y \in ClaimRow /\ y.gi = x.gi /\ y.status = x.status /\ y.txID = v
    BY DEF ClaimRow
  <2>3. ASSUME NEW i \in 1 .. Len(claim)
        PROVE  /\ c[i] \in ClaimRow
               /\ c[i].gi = claim[i].gi /\ c[i].status = claim[i].status
               /\ c[i].txID = IF claim[i].gi = gi THEN v ELSE claim[i].txID
    <3>1. CASE claim[i].gi = gi
      <4>1. c[i] = [claim[i] EXCEPT !["txID"] = v] /\ claim[i] \in ClaimRow
        BY <1>1, <2>1, <3>1, Zenon
      <4>. QED  BY <2>2, <3>1, <4>1, Zenon
    <3>2. CASE claim[i].gi # gi
      BY <1>1, <2>1, <3>2, Zenon
    <3>. QED  BY <3>1, <3>2, Zenon
  <2>. QED  BY <2>3, Zenon
<1>4. c \in Seq(ClaimRow) /\ Len(c) = Len(claim)
  <2>1. c \in [1 .. Len(claim) -> ClaimRow]
    BY <1>2, <1>3, Zenon
  <2>. QED  BY <1>1, <2>1
<1>. QED  BY <1>3, <1>4, Zenon

\* The same for the column of the status.
LEMMA UpdateStatus ==
    ASSUME SponsorTypes, NEW gi, NEW v \in {"success", "failed"}
    PROVE  /\ Update(gi, "status", v) \in Seq(ClaimRow)
           /\ Len(Update(gi, "status", v)) = Len(claim)
           /\ \A i \in 1 .. Len(claim) :
                 /\ Update(gi, "status", v)[i].gi = claim[i].gi
                 /\ Update(gi, "status", v)[i].txID = claim[i].txID
                 /\ Update(gi, "status", v)[i].status =
                       IF claim[i].gi = gi THEN v ELSE claim[i].status
<1>. DEFINE c == Update(gi, "status", v)
<1>1. /\ Len(claim) \in Nat /\ \A i \in 1 .. Len(claim) : claim[i] \in ClaimRow
  BY DEF SponsorTypes
<1>2. /\ c = [i \in 1 .. Len(claim) |->
                IF claim[i].gi = gi THEN [claim[i] EXCEPT !["status"] = v] ELSE claim[i]]
  BY Zenon DEF Update
<1>3. \A i \in 1 .. Len(claim) :
         /\ c[i] \in ClaimRow
         /\ c[i].gi = claim[i].gi /\ c[i].txID = claim[i].txID
         /\ c[i].status = IF claim[i].gi = gi THEN v ELSE claim[i].status
  <2>1. \A i \in 1 .. Len(claim) :
           c[i] = IF claim[i].gi = gi THEN [claim[i] EXCEPT !["status"] = v] ELSE claim[i]
    BY <1>2, Zenon
  <2>2. \A x \in ClaimRow :
           LET y == [x EXCEPT !["status"] = v]
           IN  y \in ClaimRow /\ y.gi = x.gi /\ y.txID = x.txID /\ y.status = v
    BY DEF ClaimRow
  <2>3. ASSUME NEW i \in 1 .. Len(claim)
        PROVE  /\ c[i] \in ClaimRow
               /\ c[i].gi = claim[i].gi /\ c[i].txID = claim[i].txID
               /\ c[i].status = IF claim[i].gi = gi THEN v ELSE claim[i].status
    <3>1. CASE claim[i].gi = gi
      <4>1. c[i] = [claim[i] EXCEPT !["status"] = v] /\ claim[i] \in ClaimRow
        BY <1>1, <2>1, <3>1, Zenon
      <4>. QED  BY <2>2, <3>1, <4>1, Zenon
    <3>2. CASE claim[i].gi # gi
      BY <1>1, <2>1, <3>2, Zenon
    <3>. QED  BY <3>1, <3>2, Zenon
  <2>. QED  BY <2>3, Zenon
<1>4. c \in Seq(ClaimRow) /\ Len(c) = Len(claim)
  <2>1. c \in [1 .. Len(claim) -> ClaimRow]
    BY <1>2, <1>3, Zenon
  <2>. QED  BY <1>1, <2>1
<1>. QED  BY <1>3, <1>4, Zenon

\* An error of a round leaves the sponsor idle, or ends it.
LEMMA HandleStops ==
    ASSUME Handle
    PROVE  /\ sponsor'.pc \in {"idle", "dead"}
           /\ sponsor' \in [pc : {"idle", "dead"}, gi : {NoTx}, leaf : {"asset"},
                            txID : {NoTx}, new : {NoTx}]
<1>1. sponsor' = NoRound \/ sponsor' = [NoRound EXCEPT !.pc = "dead"]
  BY Zenon DEF Handle
<1>. QED  BY <1>1 DEF NoRound

\* A round that ends without a statement keeps the invariant when the rows it worked on
\* are as a round may find them, or when a call has failed.
LEMMA RoundEnds ==
    ASSUME SponsorInv, UNCHANGED <<claim, monitored, claimed>>, sponsorFaults' \in Nat,
           sponsor' \in [pc : {"idle", "dead"}, gi : {NoTx}, leaf : {"asset"},
                         txID : {NoTx}, new : {NoTx}],
           sponsorFaults' = 0 => /\ sponsorFaults = 0
                                 /\ \A i \in 1 .. Len(claim) :
                                       Sole(i) /\ Works(claim[i].gi) => RestOK(claim[i])
    PROVE  SponsorInv'
<1>1. \A gi : ~Works(gi)'
  BY Zenon DEF Works
<1>2. SponsorTypes'
  BY DEF SponsorInv, SponsorTypes, NoTx
<1>3. /\ \A i : Sole(i)' <=> Sole(i)
      /\ \A r : RestOK(r)' <=> RestOK(r)
      /\ \A t, gi : Tx(t, gi)' <=> Tx(t, gi)
      /\ \A gi : Rows(gi)' = Rows(gi)
  BY Zenon DEF Sole, RestOK, NoneOf, Only, First, Tx, Rows
<1>4. PayInv'
  BY <1>3, ZenonT(30) DEF SponsorInv, PayInv
<1>5. IdInv'
  BY <1>1, <1>3, Zenon DEF SponsorInv, IdInv
<1>6. SoleInv'
  BY <1>1, <1>3, Zenon DEF SponsorInv, SoleInv
<1>. QED  BY <1>2, <1>4, <1>5, <1>6, Zenon DEF SponsorInv

\* What is said of the transactions stays true while they and the round stay.
LEMMA SameTransactions ==
    ASSUME UNCHANGED <<sponsor, monitored>>
    PROVE  /\ \A t, g : (Tx(t, g)' <=> Tx(t, g)) /\ (First(t, g)' <=> First(t, g))
                       /\ (Only(t, g)' <=> Only(t, g))
           /\ \A g : (NoneOf(g)' <=> NoneOf(g)) /\ (Works(g)' <=> Works(g))
           /\ \A x : (RestOK(x)' <=> RestOK(x)) /\ (WorkOK(x)' <=> WorkOK(x))
<1>1. \A t, g : Tx(t, g)' <=> Tx(t, g)
  BY Zenon DEF Tx
<1>2. \A t, g : First(t, g)' <=> First(t, g)
  BY <1>1, Zenon DEF First
<1>3. \A t, g : Only(t, g)' <=> Only(t, g)
  BY <1>1, Zenon DEF Only
<1>4. \A g : NoneOf(g)' <=> NoneOf(g)
  BY <1>1, Zenon DEF NoneOf
<1>5. \A g : Works(g)' <=> Works(g)
  BY Zenon DEF Works
<1>6. \A x : RestOK(x)' <=> RestOK(x)
  BY <1>2, <1>3, <1>4, Zenon DEF RestOK
<1>7. \A x : WorkOK(x)' <=> WorkOK(x)
  BY <1>1, <1>2, <1>3, <1>4, Zenon DEF WorkOK
<1>. QED  BY <1>1, <1>2, <1>3, <1>4, <1>5, <1>6, <1>7, Zenon

\* A claim that is appended is new, or it has a row already.
LEMMA ClaimKeeps == ASSUME SponsorInv, SponsorClaim PROVE SponsorInv'
<1>0. /\ claim \in Seq(ClaimRow) /\ Len(claim) \in Nat
      /\ SponsorTypes /\ PayInv /\ IdInv /\ SoleInv
  BY DEF SponsorInv, SponsorTypes
<1>1. PICK gi \in GlobalIndexes, leaf \in {"asset", "message", "other"} :
         claim' = Append(claim, [gi |-> gi, leaf |-> leaf, status |-> "pending", txID |-> NoTx])
  BY Zenon DEF SponsorClaim
<1>2. UNCHANGED <<sponsor, monitored, claimed, sponsorFaults>>
  BY Zenon DEF SponsorClaim
<1>. DEFINE r == [gi |-> gi, leaf |-> leaf, status |-> "pending", txID |-> NoTx]
<1>3. r \in ClaimRow /\ r.gi = gi /\ r.status = "pending" /\ r.txID = NoTx
  BY Zenon DEF ClaimRow, NoTx
<1>. HIDE DEF r
<1>4. /\ claim' \in Seq(ClaimRow) /\ Len(claim') = Len(claim) + 1
      /\ claim'[Len(claim) + 1] = r
      /\ \A i \in 1 .. Len(claim) : claim'[i] = claim[i] /\ i \in 1 .. Len(claim')
      /\ \A i \in 1 .. Len(claim') : i \in 1 .. Len(claim) \/ i = Len(claim) + 1
  BY <1>0, <1>1, <1>3 DEF r
<1>5. SponsorTypes'
  BY <1>0, <1>2, <1>4, Zenon DEF SponsorTypes
<1>6. /\ \A t, g : (Tx(t, g)' <=> Tx(t, g)) /\ (First(t, g)' <=> First(t, g)) /\ (Only(t, g)' <=> Only(t, g))
      /\ \A g : (NoneOf(g)' <=> NoneOf(g)) /\ (Works(g)' <=> Works(g))
      /\ \A x : (RestOK(x)' <=> RestOK(x)) /\ (WorkOK(x)' <=> WorkOK(x))
  BY <1>2, SameTransactions, Zenon
<1>7. PayInv'
  BY <1>0, <1>2, <1>6, Zenon DEF PayInv
<1>8. \A g : Rows(g) # {} => Rows(g)' # {}
  BY <1>4, Zenon DEF Rows
<1>9. IdInv'
  <2>1. \A i \in 1 .. Len(claim') :
           /\ claim'[i].txID # NoTx => Tx(claim'[i].txID, claim'[i].gi)
           /\ claim'[i].status = "success" => claim'[i].gi \in claimed
    BY <1>0, <1>3, <1>4, Zenon DEF IdInv
  <2>. QED  BY <1>0, <1>2, <1>6, <1>8, <2>1, ZenonT(30) DEF IdInv
<1>10. SoleInv'
  <2>. SUFFICES ASSUME sponsorFaults = 0, NEW i \in 1 .. Len(claim'), Sole(i)'
                PROVE  IF Works(claim'[i].gi) THEN WorkOK(claim'[i]) ELSE RestOK(claim'[i])
    BY <1>2, <1>6, Zenon DEF SoleInv
  <2>1. CASE i \in 1 .. Len(claim)
    <3>1. Sole(i) /\ claim'[i] = claim[i]
      BY <1>4, <2>1, Zenon DEF Sole
    <3>. QED  BY <1>0, <2>1, <3>1, Zenon DEF SoleInv
  <2>2. CASE i = Len(claim) + 1
    <3>1. Rows(gi) = {}
      <4>1. \A j \in 1 .. Len(claim) : claim[j].gi = gi => FALSE
        <5>1. \A j \in 1 .. Len(claim) : j # Len(claim) + 1
          BY <1>0
        <5>. QED  BY <1>3, <1>4, <2>2, <5>1, Zenon DEF Sole
      <4>. QED  BY <4>1, Zenon DEF Rows
    <3>2. ~Works(gi)
      BY <1>0, <3>1, Zenon DEF IdInv
    <3>3. NoneOf(gi)
      BY <1>0, <3>1, Zenon DEF IdInv, NoneOf, Tx
    <3>. QED  BY <1>3, <1>4, <2>2, <3>2, <3>3, Zenon DEF RestOK
  <2>. QED  BY <1>4, <2>1, <2>2, Zenon
<1>. QED  BY <1>5, <1>7, <1>9, <1>10, Zenon DEF SponsorInv

\* The manager and the contract move: a decision is final, and a claim is paid by the
\* transaction that is mined.
LEMMA ManagerKeeps == ASSUME SponsorInv, ManagerStep PROVE SponsorInv'
<1>0. /\ monitored \in Seq([gi : GlobalIndexes, status : {"created", "sent", "mined", "failed"}])
      /\ Len(monitored) \in Nat
      /\ SponsorTypes /\ PayInv /\ IdInv /\ SoleInv
  BY DEF SponsorInv, SponsorTypes
<1>1. PICK i \in 1 .. Len(monitored) : SendTx(i) \/ MineTx(i)
  BY Zenon DEF ManagerStep
<1>2. UNCHANGED <<claim, sponsor, sponsorFaults>>
  BY <1>1, Zenon DEF SendTx, MineTx
<1>3. PICK s \in {"sent", "mined", "failed"} :
         /\ monitored' = [monitored EXCEPT ![i].status = s]
         /\ monitored[i].status \in {"created", "sent"}
         /\ claimed' = IF s = "mined" THEN claimed \cup {monitored[i].gi} ELSE claimed
  <2>1. CASE SendTx(i)
    BY <2>1, Zenon DEF SendTx
  <2>2. CASE MineTx(i)
    BY <2>2, Zenon DEF MineTx
  <2>. QED  BY <1>1, <2>1, <2>2, Zenon
<1>4. /\ monitored' \in Seq([gi : GlobalIndexes, status : {"created", "sent", "mined", "failed"}])
      /\ Len(monitored') = Len(monitored)
      /\ \A t \in 1 .. Len(monitored) :
            /\ monitored'[t].gi = monitored[t].gi
            /\ monitored'[t].status = IF t = i THEN s ELSE monitored[t].status
  <2>. DEFINE T == [gi : GlobalIndexes, status : {"created", "sent", "mined", "failed"}]
  <2>1. /\ Len(monitored) \in Nat /\ monitored \in Seq(T)
        /\ monitored' = [monitored EXCEPT ![i] = [monitored[i] EXCEPT !.status = s]]
    BY <1>0, <1>3, Zenon
  <2>2. [monitored[i] EXCEPT !.status = s] \in T
    <3>1. monitored[i] \in T
      BY <1>1, <2>1, ElementOf, Zenon
    <3>2. \A r \in T : [r EXCEPT !.status = s] \in T
      BY Zenon
    <3>. QED  BY <3>1, <3>2, Zenon
  <2>. HIDE DEF T
  <2>3. monitored' \in Seq(T) /\ Len(monitored') = Len(monitored)
    BY <1>0, <1>3, <2>1, <2>2
  <2>4. \A t \in 1 .. Len(monitored) :
           monitored'[t] = IF t = i THEN [monitored[i] EXCEPT !.status = s] ELSE monitored[t]
    BY <2>1
  <2>5. \A t \in 1 .. Len(monitored) : monitored[t] \in T
    BY <2>1
  <2>. QED  BY <1>0, <1>3, <2>3, <2>4, <2>5 DEF T
<1>5. SponsorTypes'
  BY <1>0, <1>2, <1>4, Zenon DEF SponsorTypes
<1>6. \A t, g : Tx(t, g)' <=> Tx(t, g)
  BY <1>4, Zenon DEF Tx
<1>7. /\ \A t, g : (First(t, g)' <=> First(t, g)) /\ (Only(t, g)' <=> Only(t, g))
      /\ \A g : (NoneOf(g)' <=> NoneOf(g)) /\ (Works(g)' <=> Works(g)) /\ Rows(g)' = Rows(g)
  BY <1>2, <1>4, <1>6, Zenon DEF First, Only, NoneOf, Works, Rows
<1>8. /\ \A t \in 1 .. Len(monitored) : monitored[t].status \in {"mined", "failed"} =>
            monitored'[t].status = monitored[t].status
      /\ claimed \subseteq claimed'
  BY <1>3, <1>4, Zenon
<1>9. PayInv'
  <2>1. ASSUME NEW t \in 1 .. Len(monitored), monitored'[t].status = "mined"
        PROVE  monitored'[t].gi \in claimed'
    <3>1. CASE t = i
      BY <1>3, <1>4, <2>1, <3>1
    <3>2. CASE t # i
      BY <1>0, <1>4, <1>8, <2>1, <3>2, Zenon DEF PayInv
    <3>. QED  BY <3>1, <3>2, Zenon
  <2>2. ASSUME NEW g \in claimed'
        PROVE  \E t \in 1 .. Len(monitored) : Tx(t, g) /\ monitored'[t].status = "mined"
    <3>1. CASE g \in claimed
      BY <1>0, <1>8, <3>1, Zenon DEF PayInv
    <3>2. CASE g \notin claimed
      <4>1. s = "mined" /\ g = monitored[i].gi
        BY <1>3, <2>2, <3>2, Zenon
      <4>. QED  BY <1>4, <4>1, Zenon DEF Tx
    <3>. QED  BY <3>1, <3>2, Zenon
  <2>. QED  BY <1>4, <1>6, <2>1, <2>2, Zenon DEF PayInv
<1>10. IdInv'
  <2>1. \A j \in 1 .. Len(claim) :
           /\ claim[j].txID # NoTx => Tx(claim[j].txID, claim[j].gi)
           /\ claim[j].status = "success" => claim[j].gi \in claimed'
    BY <1>0, <1>8, ZenonT(30) DEF IdInv
  <2>2. \A g \in GlobalIndexes : Works(g) =>
          /\ Rows(g) # {}
          /\ sponsor.txID # NoTx => Tx(sponsor.txID, g)
          /\ sponsor.pc = "save" => Tx(sponsor.new, g)
          /\ sponsor.pc = "conclude" => /\ sponsor.txID # NoTx
                                        /\ monitored'[sponsor.txID].status \in {"mined", "failed"}
    <3>1. \A g \in GlobalIndexes : Works(g) =>
          /\ Rows(g) # {}
          /\ sponsor.txID # NoTx => Tx(sponsor.txID, g)
          /\ sponsor.pc = "save" => Tx(sponsor.new, g)
          /\ sponsor.pc = "conclude" => /\ sponsor.txID # NoTx
                                        /\ monitored[sponsor.txID].status \in {"mined", "failed"}
      BY <1>0, Zenon DEF IdInv
    <3>2. \A g : Tx(sponsor.txID, g) => sponsor.txID \in 1 .. Len(monitored)
      BY Zenon DEF Tx
    <3>. QED  BY <1>8, <3>1, <3>2, ZenonT(30)
  <2>3. \A t \in 1 .. Len(monitored) : Rows(monitored'[t].gi) # {}
    BY <1>0, <1>4, Zenon DEF IdInv
  <2>. QED  BY <1>0, <1>2, <1>4, <1>6, <1>7, <2>1, <2>2, <2>3, ZenonT(30) DEF IdInv
<1>11. SoleInv'
  <2>1. \A x : RestOK(x) => RestOK(x)'
    BY <1>4, <1>7, <1>8, ZenonT(30) DEF RestOK
  <2>2. \A x : WorkOK(x) => WorkOK(x)'
    BY <1>2, <1>7, Zenon DEF WorkOK
  <2>3. \A j : Sole(j)' <=> Sole(j)
    BY <1>2, Zenon DEF Sole
  <2>. QED  BY <1>0, <1>2, <1>7, <2>1, <2>2, <2>3, Zenon DEF SoleInv
<1>. QED  BY <1>5, <1>9, <1>10, <1>11, Zenon DEF SponsorInv

\* The first of a set of row numbers, as the queries read it.
LEMMA FirstRow ==
    ASSUME NEW S \in SUBSET Nat, S # {}
    PROVE  /\ (CHOOSE i \in S : \A j \in S : i <= j) \in S
           /\ \A k \in S : (CHOOSE i \in S : \A j \in S : i <= j) <= k
<1>1. \E i \in S : \A j \in S : i <= j
  BY LeastExists, Zenon
<1>. QED  BY <1>1, Zenon

\* A round begins with the first pending row.
LEMMA PickKeeps == ASSUME SponsorInv, PickClaim PROVE SponsorInv'
<1>0. /\ claim \in Seq(ClaimRow) /\ Len(claim) \in Nat
      /\ SponsorTypes /\ PayInv /\ IdInv /\ SoleInv
  BY DEF SponsorInv, SponsorTypes
<1>1. PICK p \in Pending : p = CHOOSE i \in Pending : \A j \in Pending : i <= j
  <2>1. Pending \in SUBSET Nat /\ Pending # {}
    <3>1. Pending \in SUBSET Nat
      BY <1>0 DEF Pending
    <3>2. Pending # {}
      BY Zenon DEF PickClaim
    <3>. QED  BY <3>1, <3>2, Zenon
  <2>. QED  BY <2>1, FirstRow, Zenon
<1>2. /\ sponsor.pc = "idle"
      /\ sponsor' = [pc |-> "send", gi |-> claim[p].gi, leaf |-> claim[p].leaf,
                     txID |-> claim[p].txID, new |-> NoTx]
      /\ UNCHANGED <<claim, monitored, claimed, sponsorFaults>>
  BY <1>1, Zenon DEF PickClaim, getFirstPendingClaim
<1>3. p \in 1 .. Len(claim) /\ claim[p].status = "pending" /\ claim[p] \in ClaimRow
  BY <1>0, <1>1 DEF Pending
<1>4. /\ sponsor'.pc = "send" /\ sponsor'.gi = claim[p].gi /\ sponsor'.txID = claim[p].txID
      /\ sponsor'.new = NoTx /\ sponsor'.leaf = claim[p].leaf
  BY <1>2, Zenon
<1>5. SponsorTypes'
  <2>1. /\ claim[p].gi \in GlobalIndexes /\ claim[p].leaf \in {"asset", "message", "other"}
        /\ claim[p].txID \in Nat
    BY <1>3, Zenon DEF ClaimRow
  <2>. QED  BY <1>0, <1>2, <2>1, Zenon DEF SponsorTypes, NoTx
<1>6. /\ \A i : Sole(i)' <=> Sole(i)
      /\ \A r : RestOK(r)' <=> RestOK(r)
      /\ \A t, g : (Tx(t, g)' <=> Tx(t, g)) /\ (Only(t, g)' <=> Only(t, g))
      /\ \A g : Rows(g)' = Rows(g) /\ (NoneOf(g)' <=> NoneOf(g))
  BY <1>2, Zenon DEF Sole, RestOK, NoneOf, Only, First, Tx, Rows
<1>7. PayInv'
  BY <1>0, <1>2, <1>6, ZenonT(30) DEF PayInv
<1>8. \A g : (Works(g)' <=> g = claim[p].gi) /\ ~Works(g)
  BY <1>2, <1>4, ZenonT(30) DEF Works
<1>9. IdInv'
  <2>1. Rows(claim[p].gi) # {} /\ claim[p].gi \in GlobalIndexes
    BY <1>3, Zenon DEF Rows, ClaimRow
  <2>2. claim[p].txID # NoTx => Tx(claim[p].txID, claim[p].gi)
    BY <1>0, <1>3, Zenon DEF IdInv
  <2>. QED  BY <1>0, <1>2, <1>4, <1>6, <1>8, <2>1, <2>2, Zenon DEF IdInv
<1>10. SoleInv'
  <2>. SUFFICES ASSUME sponsorFaults = 0, NEW i \in 1 .. Len(claim), Sole(i)
                PROVE  IF Works(claim[i].gi)' THEN WorkOK(claim[i])' ELSE RestOK(claim[i])
    <3>1. \A i \in 1 .. Len(claim) : claim'[i] = claim[i]
      BY <1>2, Zenon
    <3>. QED  BY <1>2, <1>6, Zenon DEF SoleInv
  <2>1. RestOK(claim[i])
    BY <1>0, <1>8, Zenon DEF SoleInv
  <2>2. CASE claim[i].gi = claim[p].gi
    <3>1. i = p
      BY <1>3, <2>2, Zenon DEF Sole
    <3>2. WorkOK(claim[p])'
      BY <1>2, <1>3, <1>4, <2>1, <3>1, Zenon DEF WorkOK, RestOK, NoneOf, Only, Tx
    <3>3. claim'[i] = claim[p] /\ Works(claim[i].gi)'
      BY <1>2, <1>4, <2>2, <3>1, Zenon DEF Works
    <3>4. WorkOK(claim[i])'
      BY <3>1, <3>2, Zenon
    <3>. QED  BY <3>3, <3>4, Zenon
  <2>3. CASE claim[i].gi # claim[p].gi
    BY <1>2, <1>8, <2>1, <2>3, Zenon
  <2>. QED  BY <2>2, <2>3, Zenon
<1>. QED  BY <1>5, <1>7, <1>9, <1>10, Zenon DEF SponsorInv

\* sendClaim hands a transaction to the manager, or the round ends.
LEMMA SendKeeps == ASSUME SponsorInv, sendClaim PROVE SponsorInv'
<1>0. /\ monitored \in Seq([gi : GlobalIndexes, status : {"created", "sent", "mined", "failed"}])
      /\ Len(monitored) \in Nat /\ sponsor.pc = "send" /\ sponsorFaults \in Nat
      /\ SponsorTypes /\ PayInv /\ IdInv /\ SoleInv
  BY DEF SponsorInv, SponsorTypes, sendClaim
<1>1. UNCHANGED <<claim, claimed>>
  BY Zenon DEF sendClaim
<1>2. CASE Handle /\ UNCHANGED <<monitored, sponsorFaults>>
  <2>1. \A i \in 1 .. Len(claim) :
           sponsorFaults = 0 /\ Sole(i) /\ Works(claim[i].gi) => RestOK(claim[i])
    BY <1>0, Zenon DEF SoleInv, WorkOK, RestOK
  <2>. QED  BY <1>0, <1>1, <1>2, <2>1, HandleStops, RoundEnds, Zenon
<1>3. CASE SponsorFault /\ Handle /\ UNCHANGED monitored
  <2>1. sponsorFaults' \in Nat /\ sponsorFaults' # 0
    BY <1>0, <1>3 DEF SponsorFault
  <2>. QED  BY <1>1, <1>3, <2>1, HandleStops, RoundEnds, Zenon
<1>4. CASE /\ monitored' = Append(monitored, [gi |-> sponsor.gi, status |-> "created"])
           /\ sponsor' = [sponsor EXCEPT !.pc = "save", !.new = Len(monitored) + 1]
           /\ UNCHANGED sponsorFaults
  <2>n. PICK n : n = Len(monitored) + 1
    BY Zenon
  <2>g. PICK g : g = sponsor.gi
    BY Zenon
  <2>1. Works(g) /\ g \in GlobalIndexes
    BY <2>n, <2>g, <1>0, Zenon DEF Works, IdInv
  <2>2. /\ sponsor'.pc = "save" /\ sponsor'.new = n /\ sponsor'.gi = g
        /\ sponsor'.txID = sponsor.txID
    BY <2>n, <2>g, <1>0, <1>4, Zenon DEF SponsorTypes
  <2>3. /\ monitored' \in Seq([gi : GlobalIndexes, status : {"created", "sent", "mined", "failed"}])
        /\ Len(monitored') = n /\ monitored'[n].gi = g /\ monitored'[n].status = "created"
        /\ \A t \in 1 .. Len(monitored) : monitored'[t] = monitored[t]
    BY <2>n, <2>g, <1>0, <1>4, <2>1
  <2>4. /\ \A t \in 1 .. Len(monitored) : t \in 1 .. n /\ t <= n /\ t # n
        /\ \A t \in 1 .. n : t \in 1 .. Len(monitored) \/ t = n
        /\ n \in 1 .. n /\ n \in Nat /\ n <= n
    BY <2>n, <2>g, <1>0
  <2>5. SponsorTypes'
    <3>1. sponsor' \in [pc : {"idle", "dead", "send", "save", "wait", "conclude"},
                        gi : GlobalIndexes \cup {NoTx}, leaf : {"asset", "message", "other"},
                        txID : Nat, new : Nat]
      BY <2>n, <2>g, <1>0, <1>4, <2>4, Zenon DEF SponsorTypes
    <3>. QED  BY <2>n, <2>g, <1>0, <1>1, <1>4, <2>3, <3>1, Zenon DEF SponsorTypes
  <2>6. /\ \A t, h : Tx(t, h) => Tx(t, h)'
        /\ Tx(n, g)'
        /\ \A t, h : Tx(t, h)' => Tx(t, h) \/ (t = n /\ h = g)
    <3>1. \A t, h : Tx(t, h) => Tx(t, h)'
      BY <2>n, <2>g, <2>3, <2>4, Zenon DEF Tx
    <3>2. Tx(n, g)'
      BY <2>n, <2>g, <2>3, <2>4, Zenon DEF Tx
    <3>3. \A t, h : Tx(t, h)' => Tx(t, h) \/ (t = n /\ h = g)
      BY <2>n, <2>g, <2>3, <2>4, Zenon DEF Tx
    <3>. QED  BY <3>1, <3>2, <3>3, Zenon
  <2>7. \A h : (Works(h)' <=> Works(h)) /\ Rows(h)' = Rows(h)
    BY <2>n, <2>g, <1>0, <1>1, <2>2, Zenon DEF Works, Rows
  <2>8. \A t, h : First(t, h) => First(t, h)'
    BY <2>n, <2>g, <2>3, <2>4, <2>6, Zenon DEF First, Tx
  <2>9. \A t, h : h # g /\ Only(t, h) => Only(t, h)'
    BY <2>n, <2>g, <2>6, Zenon DEF Only, Tx
  <2>10. \A h : h # g /\ NoneOf(h) => NoneOf(h)'
    BY <2>n, <2>g, <2>6, Zenon DEF NoneOf, Tx
  <2>11. PayInv'
    <3>1. \A t \in 1 .. n : monitored'[t].status = "mined" => t \in 1 .. Len(monitored)
      BY <2>n, <2>g, <2>3, <2>4, Zenon
    <3>2. \A t \in 1 .. n : monitored'[t].status = "mined" => monitored'[t].gi \in claimed
      BY <2>n, <2>g, <1>0, <2>3, <3>1, Zenon DEF PayInv
    <3>3. \A h \in claimed : \E t \in 1 .. n : Tx(t, h)' /\ monitored'[t].status = "mined"
      BY <2>n, <2>g, <1>0, <2>3, <2>4, <2>6 DEF PayInv
    <3>. QED  BY <2>n, <2>g, <1>1, <2>3, <3>2, <3>3, Zenon DEF PayInv
  <2>12. IdInv'
    <3>1. \A t \in 1 .. n : Rows(monitored'[t].gi) # {}
      BY <2>n, <2>g, <1>0, <2>1, <2>3, <2>4, ZenonT(30) DEF IdInv
    <3>2. \A h \in GlobalIndexes : Works(h) =>
             h = g /\ Rows(h) # {} /\ (sponsor.txID # NoTx => Tx(sponsor.txID, h)')
      BY <2>n, <2>g, <1>0, <2>2, <2>6, Zenon DEF IdInv, Works
    <3>3. \A i \in 1 .. Len(claim) :
             /\ claim[i].txID # NoTx => Tx(claim[i].txID, claim[i].gi)'
             /\ claim[i].status = "success" => claim[i].gi \in claimed
      BY <2>n, <2>g, <1>0, <1>1, <2>6, Zenon DEF IdInv
    <3>. QED  BY <2>n, <2>g, <1>1, <2>1, <2>2, <2>3, <2>6, <2>7, <3>1, <3>2, <3>3, ZenonT(30)
                 DEF IdInv
  <2>13. SoleInv'
    <3>. SUFFICES ASSUME sponsorFaults = 0, NEW i \in 1 .. Len(claim), Sole(i)
                  PROVE  IF Works(claim[i].gi) THEN WorkOK(claim[i])' ELSE RestOK(claim[i])'
      <4>1. \A i : Sole(i)' <=> Sole(i)
        BY <2>n, <2>g, <1>1, Zenon DEF Sole
      <4>. QED  BY <2>n, <2>g, <1>1, <1>4, <2>7, <4>1, Zenon DEF SoleInv
    <3>1. CASE Works(claim[i].gi)
      <4>1. WorkOK(claim[i]) /\ claim[i].gi = g
        BY <2>n, <2>g, <1>0, <3>1, Zenon DEF SoleInv, Works
      <4>2. sponsor.txID = claim[i].txID /\ claim[i].status = "pending"
        BY <2>n, <2>g, <1>0, <4>1, ZenonT(30) DEF WorkOK
      <4>3. CASE sponsor.txID = NoTx
        <5>1. NoneOf(g)
          BY <2>n, <2>g, <1>0, <4>1, <4>2, <4>3, ZenonT(30) DEF WorkOK
        <5>2. \A u : Tx(u, g)' => u = n
          BY <2>n, <2>g, <2>6, <5>1, Zenon DEF NoneOf, Tx
        <5>3. Only(n, g)'
          BY <2>n, <2>g, <2>6, <5>2, Zenon DEF Only
        <5>. QED  BY <2>n, <2>g, <1>1, <2>2, <3>1, <4>1, <4>2, <4>3, <5>3, ZenonT(30) DEF WorkOK
      <4>4. CASE sponsor.txID # NoTx
        <5>1. Only(sponsor.txID, g)
          BY <2>n, <2>g, <1>0, <4>1, <4>2, <4>4, ZenonT(30) DEF WorkOK
        <5>2. sponsor.txID \in 1 .. Len(monitored)
          BY <2>n, <2>g, <5>1, Zenon DEF Only, Tx
        <5>3. sponsor.txID <= sponsor.txID /\ sponsor.txID <= n
          BY <2>n, <2>g, <1>0, <2>4, <5>2
        <5>4. \A u : Tx(u, g)' => sponsor.txID <= u
          BY <2>n, <2>g, <2>6, <5>1, <5>3, Zenon DEF Only, Tx
        <5>5. First(sponsor.txID, g)'
          BY <2>n, <2>g, <2>2, <2>6, <5>1, <5>4, Zenon DEF First, Only
        <5>. QED  BY <2>n, <2>g, <1>1, <2>2, <3>1, <4>1, <4>2, <4>4, <5>5, ZenonT(30) DEF WorkOK
      <4>. QED  BY <2>n, <2>g, <4>3, <4>4, Zenon
    <3>2. CASE ~Works(claim[i].gi)
      <4>1. RestOK(claim[i]) /\ claim[i].gi # g
        BY <2>n, <2>g, <1>0, <2>1, <3>2, Zenon DEF SoleInv
      <4>2. (\E t \in 1 .. Len(monitored) : First(t, claim[i].gi) /\ monitored[t].status = "failed")
              => (\E t \in 1 .. n : First(t, claim[i].gi)' /\ monitored'[t].status = "failed")
        BY <2>n, <2>g, <1>1, <2>3, <2>4, <2>8, Zenon
      <4>3. RestOK(claim[i])'
        BY <2>n, <2>g, <1>1, <2>3, <2>9, <2>10, <4>1, <4>2, Zenon DEF RestOK
      <4>. QED  BY <2>n, <2>g, <3>2, <4>3, Zenon
    <3>. QED  BY <2>n, <2>g, <3>1, <3>2, Zenon
  <2>. QED  BY <2>5, <2>11, <2>12, <2>13, Zenon DEF SponsorInv
<1>. QED  BY <1>2, <1>3, <1>4, Zenon DEF sendClaim

\* updateClaimTxID stores the new id; the round goes on with the old one.
LEMMA SaveKeeps == ASSUME SponsorInv, updateClaimTxID PROVE SponsorInv'
<1>0. /\ sponsor.pc = "save" /\ sponsorFaults \in Nat /\ sponsor.new \in Nat
      /\ Len(claim) \in Nat /\ SponsorTypes /\ PayInv /\ IdInv /\ SoleInv
  BY DEF SponsorInv, SponsorTypes, updateClaimTxID
<1>1. UNCHANGED <<monitored, claimed>>
  BY Zenon DEF updateClaimTxID
<1>2. CASE SponsorFault /\ Handle /\ UNCHANGED claim
  <2>1. sponsorFaults' \in Nat /\ sponsorFaults' # 0
    BY <1>0, <1>2 DEF SponsorFault
  <2>. QED  BY <1>1, <1>2, <2>1, HandleStops, RoundEnds, Zenon
<1>3. CASE /\ claim' = Update(sponsor.gi, "txID", sponsor.new)
           /\ sponsor' = [sponsor EXCEPT !.pc = "wait"]
           /\ UNCHANGED sponsorFaults
  <2>g. PICK g : g = sponsor.gi
    BY Zenon
  <2>1. /\ claim' \in Seq(ClaimRow) /\ Len(claim') = Len(claim)
        /\ \A i \in 1 .. Len(claim) :
              /\ claim'[i].gi = claim[i].gi /\ claim'[i].status = claim[i].status
              /\ claim'[i].txID = IF claim[i].gi = g THEN sponsor.new ELSE claim[i].txID
    BY <2>g, <1>0, <1>3, UpdateTxID
  <2>2. /\ sponsor'.pc = "wait" /\ sponsor'.gi = g /\ sponsor'.txID = sponsor.txID
    BY <2>g, <1>0, <1>3, Zenon DEF SponsorTypes
  <2>3. SponsorTypes'
    BY <2>g, <1>0, <1>1, <1>3, <2>1, Zenon DEF SponsorTypes
  <2>4. Works(g) /\ g \in GlobalIndexes /\ Tx(sponsor.new, g)
    BY <2>g, <1>0, Zenon DEF Works, IdInv
  <2>5. /\ \A h : (Works(h)' <=> Works(h)) /\ Rows(h)' = Rows(h)
        /\ \A i \in 1 .. Len(claim) : Sole(i)' <=> Sole(i)
    BY <2>g, <1>0, <2>1, <2>2, Zenon DEF Works, Rows, Sole
  <2>6. /\ \A t, h : (Tx(t, h)' <=> Tx(t, h)) /\ (First(t, h)' <=> First(t, h)) /\ (Only(t, h)' <=> Only(t, h))
        /\ \A h : NoneOf(h)' <=> NoneOf(h)
    BY <2>g, <1>1, Zenon DEF Tx, First, Only, NoneOf
  <2>7. PayInv'
    BY <2>g, <1>0, <1>1, <2>6, Zenon DEF PayInv
  <2>8. IdInv'
    <3>1. \A i \in 1 .. Len(claim) :
             /\ claim'[i].txID # NoTx => Tx(claim'[i].txID, claim'[i].gi)
             /\ claim'[i].status = "success" => claim'[i].gi \in claimed
      BY <2>g, <1>0, <2>1, <2>4, ZenonT(30) DEF IdInv
    <3>. QED  BY <2>g, <1>0, <1>1, <2>1, <2>2, <2>4, <2>5, <2>6, <3>1, ZenonT(30) DEF IdInv
  <2>9. SoleInv'
    <3>. SUFFICES ASSUME sponsorFaults = 0, NEW i \in 1 .. Len(claim), Sole(i)
                  PROVE  IF Works(claim'[i].gi) THEN WorkOK(claim[i])' ELSE RestOK(claim[i])'
      BY <2>g, <1>3, <2>1, <2>5, Zenon DEF SoleInv
    <3>1. CASE Works(claim[i].gi)
      <4>1. WorkOK(claim[i]) /\ claim[i].gi = g
        BY <2>g, <1>0, <3>1, Zenon DEF SoleInv, Works
      <4>2. sponsor.new # NoTx
        BY <2>g, <2>4 DEF Tx, NoTx
      <4>3. /\ claim'[i].gi = g /\ claim'[i].txID = sponsor.new /\ claim'[i].status = "pending"
        BY <2>g, <2>1, <4>1, ZenonT(30) DEF WorkOK
      <4>4. /\ sponsor.txID = NoTx => Only(sponsor.new, g)
            /\ sponsor.txID # NoTx => First(sponsor.txID, g)
        BY <2>g, <1>0, <4>1, ZenonT(30) DEF WorkOK
      <4>5. WorkOK(claim[i])'
        BY <2>g, <2>2, <2>6, <4>2, <4>3, <4>4, ZenonT(30) DEF WorkOK
      <4>. QED  BY <2>g, <3>1, <4>1, <4>3, <4>5, Zenon
    <3>2. CASE ~Works(claim[i].gi)
      <4>1. RestOK(claim[i]) /\ claim[i].gi # g
        BY <2>g, <1>0, <2>4, <3>2, Zenon DEF SoleInv
      <4>2. claim'[i].gi = claim[i].gi /\ claim'[i].txID = claim[i].txID /\ claim'[i].status = claim[i].status
        BY <2>g, <2>1, <4>1, Zenon
      <4>3. RestOK(claim[i])'
        BY <2>g, <1>1, <2>6, <4>1, <4>2, Zenon DEF RestOK
      <4>. QED  BY <2>g, <3>2, <4>2, <4>3, Zenon
    <3>. QED  BY <2>g, <3>1, <3>2, Zenon
  <2>. QED  BY <2>3, <2>7, <2>8, <2>9, Zenon DEF SponsorInv
<1>. QED  BY <1>2, <1>3, Zenon DEF updateClaimTxID

\* A tick of waitTxToBeSuccessOrFail.
LEMMA WaitKeeps == ASSUME SponsorInv, waitTxToBeSuccessOrFail PROVE SponsorInv'
<1>0. /\ sponsor.pc = "wait" /\ sponsorFaults \in Nat
      /\ SponsorTypes /\ PayInv /\ IdInv /\ SoleInv
  BY Zenon DEF SponsorInv, SponsorTypes, waitTxToBeSuccessOrFail
<1>1. UNCHANGED <<claim, monitored, claimed>>
  BY Zenon DEF waitTxToBeSuccessOrFail
<1>2. CASE SponsorFault /\ Handle
  <2>1. sponsorFaults' \in Nat /\ sponsorFaults' # 0
    BY <1>0, <1>2 DEF SponsorFault
  <2>. QED  BY <1>1, <1>2, <2>1, HandleStops, RoundEnds, Zenon
<1>3. CASE sponsor.txID = NoTx /\ Handle /\ UNCHANGED sponsorFaults
  <2>1. \A i \in 1 .. Len(claim) :
           sponsorFaults = 0 /\ Sole(i) /\ Works(claim[i].gi) => RestOK(claim[i])
    <3>. SUFFICES ASSUME sponsorFaults = 0, NEW i \in 1 .. Len(claim), Sole(i), Works(claim[i].gi)
                  PROVE  RestOK(claim[i])
      BY Zenon
    <3>1. WorkOK(claim[i])
      BY <1>0, Zenon DEF SoleInv
    <3>2. claim[i].status = "pending" /\ claim[i].txID # NoTx /\ Only(claim[i].txID, claim[i].gi)
      BY <1>0, <1>3, <3>1, Zenon DEF WorkOK
    <3>. QED  BY <3>2, Zenon DEF RestOK
  <2>. QED  BY <1>0, <1>1, <1>3, <2>1, HandleStops, RoundEnds, Zenon
<1>4. CASE /\ sponsor.txID # NoTx /\ claimStatus(sponsor.txID) \in Concluded
           /\ sponsor' = [sponsor EXCEPT !.pc = "conclude"]
           /\ UNCHANGED sponsorFaults
  <2>1. /\ sponsor'.pc = "conclude" /\ sponsor'.gi = sponsor.gi /\ sponsor'.txID = sponsor.txID
    BY <1>0, <1>4, Zenon DEF SponsorTypes
  <2>2. SponsorTypes'
    BY <1>0, <1>1, <1>4, Zenon DEF SponsorTypes
  <2>3. /\ Works(sponsor.gi) /\ sponsor.gi \in GlobalIndexes /\ Tx(sponsor.txID, sponsor.gi)
        /\ Rows(sponsor.gi) # {}
    BY <1>0, <1>4, Zenon DEF Works, IdInv
  <2>4. monitored[sponsor.txID].status \in {"mined", "failed"}
    <3>1. monitored[sponsor.txID].status \in {"created", "sent", "mined", "failed"}
      <4>1. sponsor.txID \in 1 .. Len(monitored)
        BY <2>3, Zenon DEF Tx
      <4>2. monitored[sponsor.txID] \in [gi : GlobalIndexes, status : {"created", "sent", "mined", "failed"}]
        BY <1>0, <4>1, ElementOf, Zenon DEF SponsorTypes
      <4>. QED  BY <4>2, Zenon
    <3>2. monitored[sponsor.txID].status \in {"created", "sent"}
             => claimStatus(sponsor.txID) = "work in progress"
      BY Zenon DEF claimStatus
    <3>. QED  BY <1>4, <3>1, <3>2, Zenon DEF Concluded
  <2>5. /\ \A t, h : (Tx(t, h)' <=> Tx(t, h)) /\ (First(t, h)' <=> First(t, h)) /\ (Only(t, h)' <=> Only(t, h))
        /\ \A h : NoneOf(h)' <=> NoneOf(h)
    BY <1>1, Zenon DEF Tx, First, Only, NoneOf
  <2>6. /\ \A h : (Works(h)' <=> Works(h)) /\ Rows(h)' = Rows(h)
        /\ \A i : Sole(i)' <=> Sole(i)
        /\ \A r : RestOK(r)' <=> RestOK(r)
    BY <1>0, <1>1, <2>1, Zenon DEF Works, Rows, Sole, RestOK, NoneOf, Only, First, Tx
  <2>7. PayInv'
    BY <1>0, <1>1, <2>5, Zenon DEF PayInv
  <2>8. IdInv'
    <3>1. \A h : Works(h) => h = sponsor.gi
      BY Zenon DEF Works
    <3>2. \A h \in GlobalIndexes : Works(h)' =>
             /\ Rows(h)' # {}
             /\ Tx(sponsor.txID, h)'
             /\ monitored'[sponsor'.txID].status \in {"mined", "failed"}
      BY <1>1, <2>1, <2>3, <2>4, <2>5, <2>6, <3>1, ZenonT(30)
    <3>3. \A i \in 1 .. Len(claim) :
             /\ claim[i].txID # NoTx => Tx(claim[i].txID, claim[i].gi)'
             /\ claim[i].status = "success" => claim[i].gi \in claimed
      BY <1>0, <1>1, <2>5, Zenon DEF IdInv
    <3>4. \A t \in 1 .. Len(monitored) : Rows(monitored[t].gi)' # {}
      BY <1>0, <1>1, <2>6, Zenon DEF IdInv
    <3>. QED  BY <1>1, <1>4, <2>1, <2>3, <3>2, <3>3, <3>4, Zenon DEF IdInv
  <2>9. SoleInv'
    <3>. SUFFICES ASSUME sponsorFaults = 0, NEW i \in 1 .. Len(claim), Sole(i)
                  PROVE  IF Works(claim[i].gi) THEN WorkOK(claim[i])' ELSE RestOK(claim[i])
      BY <1>1, <1>4, <2>6, Zenon DEF SoleInv
    <3>1. CASE Works(claim[i].gi)
      <4>1. WorkOK(claim[i])
        BY <1>0, <3>1, Zenon DEF SoleInv
      <4>2. claim[i].status = "pending" /\ First(sponsor.txID, claim[i].gi)
        BY <1>0, <1>4, <4>1, Zenon DEF WorkOK
      <4>3. WorkOK(claim[i])'
        BY <1>1, <2>1, <2>5, <4>2, Zenon DEF WorkOK
      <4>. QED  BY <3>1, <4>3, Zenon
    <3>2. CASE ~Works(claim[i].gi)
      BY <1>0, <3>2, Zenon DEF SoleInv
    <3>. QED  BY <3>1, <3>2, Zenon
  <2>. QED  BY <2>2, <2>7, <2>8, <2>9, Zenon DEF SponsorInv
<1>. QED  BY <1>2, <1>3, <1>4, Zenon DEF waitTxToBeSuccessOrFail

\* updateClaimStatus writes what became of the transaction to every row of the claim.
LEMMA ConcludeKeeps == ASSUME SponsorInv, updateClaimStatus PROVE SponsorInv'
<1>0. /\ sponsor.pc = "conclude" /\ sponsorFaults \in Nat
      /\ Len(claim) \in Nat /\ SponsorTypes /\ PayInv /\ IdInv /\ SoleInv
  BY DEF SponsorInv, SponsorTypes, updateClaimStatus
<1>1. UNCHANGED <<monitored, claimed>>
  BY Zenon DEF updateClaimStatus
<1>2. CASE SponsorFault /\ Handle /\ UNCHANGED claim
  <2>1. sponsorFaults' \in Nat /\ sponsorFaults' # 0
    BY <1>0, <1>2 DEF SponsorFault
  <2>. QED  BY <1>1, <1>2, <2>1, HandleStops, RoundEnds, Zenon
<1>3. CASE /\ claim' = Update(sponsor.gi, "status", claimStatus(sponsor.txID))
           /\ sponsor' = NoRound
           /\ UNCHANGED sponsorFaults
  <2>g. PICK g : g = sponsor.gi
    BY Zenon
  <2>t. PICK t : t = sponsor.txID
    BY Zenon
  <2>1. /\ Works(g) /\ g \in GlobalIndexes /\ Tx(t, g)
        /\ monitored[t].status \in {"mined", "failed"}
    BY <1>0, <2>g, <2>t, Zenon DEF Works, IdInv
  <2>2. PICK v \in {"success", "failed"} : v = claimStatus(t)
    BY <2>1, Zenon DEF claimStatus
  <2>3. /\ v = "success" => monitored[t].status = "mined"
        /\ v = "failed" => monitored[t].status = "failed"
    BY <2>1, <2>2, Zenon DEF claimStatus
  <2>4. /\ claim' \in Seq(ClaimRow) /\ Len(claim') = Len(claim)
        /\ \A i \in 1 .. Len(claim) :
              /\ claim'[i].gi = claim[i].gi /\ claim'[i].txID = claim[i].txID
              /\ claim'[i].status = IF claim[i].gi = g THEN v ELSE claim[i].status
    BY <1>0, <1>3, <2>g, <2>t, <2>2, UpdateStatus
  <2>5. \A h : ~Works(h)'
    BY <1>3, Zenon DEF Works, NoRound
  <2>6. SponsorTypes'
    BY <1>0, <1>1, <1>3, <2>4, Zenon DEF SponsorTypes, NoRound, NoTx
  <2>7. /\ \A h : Rows(h)' = Rows(h)
        /\ \A i \in 1 .. Len(claim) : Sole(i)' <=> Sole(i)
    BY <2>4, Zenon DEF Rows, Sole
  <2>8. /\ \A u, h : (Tx(u, h)' <=> Tx(u, h)) /\ (First(u, h)' <=> First(u, h)) /\ (Only(u, h)' <=> Only(u, h))
        /\ \A h : NoneOf(h)' <=> NoneOf(h)
    BY <1>1, Zenon DEF Tx, First, Only, NoneOf
  <2>9. PayInv'
    BY <1>0, <1>1, <2>8, ZenonT(30) DEF PayInv
  <2>10. IdInv'
    <3>1. v = "success" => g \in claimed
      BY <1>0, <2>1, <2>3, Zenon DEF PayInv, Tx
    <3>2. \A i \in 1 .. Len(claim) :
             /\ claim'[i].txID # NoTx => Tx(claim'[i].txID, claim'[i].gi)
             /\ claim'[i].status = "success" => claim'[i].gi \in claimed
      BY <1>0, <2>4, <3>1, Zenon DEF IdInv
    <3>. QED  BY <1>0, <1>1, <2>4, <2>5, <2>7, <2>8, <3>2, ZenonT(30) DEF IdInv
  <2>11. SoleInv'
    <3>. SUFFICES ASSUME sponsorFaults = 0, NEW i \in 1 .. Len(claim), Sole(i)
                  PROVE  RestOK(claim[i])'
      BY <1>3, <2>4, <2>5, <2>7, ZenonT(30) DEF SoleInv
    <3>1. CASE claim[i].gi = g
      <4>1. WorkOK(claim[i])
        BY <1>0, <2>1, <3>1, Zenon DEF SoleInv
      <4>2. First(t, g)
        BY <1>0, <2>t, <3>1, <4>1, Zenon DEF WorkOK
      <4>3. claim'[i].status = v /\ claim'[i].gi = g
        BY <2>4, <3>1, Zenon
      <4>4. v = "failed" => \E u \in 1 .. Len(monitored) : First(u, g) /\ monitored[u].status = "failed"
        BY <2>1, <2>3, <4>2, Zenon DEF Tx
      <4>. QED  BY <1>1, <2>2, <2>8, <4>3, <4>4, ZenonT(30) DEF RestOK
    <3>2. CASE claim[i].gi # g
      <4>1. RestOK(claim[i])
        <5>1. ~Works(claim[i].gi)
          BY <2>g, <3>2, Zenon DEF Works
        <5>. QED  BY <1>0, <5>1, Zenon DEF SoleInv
      <4>2. claim'[i].status = claim[i].status /\ claim'[i].gi = claim[i].gi
            /\ claim'[i].txID = claim[i].txID
        BY <2>4, <3>2, Zenon
      <4>. QED  BY <1>1, <2>8, <4>1, <4>2, Zenon DEF RestOK
    <3>. QED  BY <3>1, <3>2, Zenon
  <2>. QED  BY <2>6, <2>9, <2>10, <2>11, Zenon DEF SponsorInv
<1>. QED  BY <1>2, <1>3, Zenon DEF updateClaimStatus

\* The process restarts.
LEMMA SponsorRestartKeeps == ASSUME SponsorInv, SponsorRestart PROVE SponsorInv'
<1>1. sponsorFaults' \in Nat /\ sponsorFaults' # 0
  BY DEF SponsorInv, SponsorTypes, SponsorRestart, SponsorFault
<1>2. sponsor' \in [pc : {"idle", "dead"}, gi : {NoTx}, leaf : {"asset"}, txID : {NoTx}, new : {NoTx}]
  BY Zenon DEF SponsorRestart, NoRound
<1>3. UNCHANGED <<claim, monitored, claimed>>
  BY Zenon DEF SponsorRestart
<1>. QED  BY <1>1, <1>2, <1>3, RoundEnds, Zenon

\* At the start there are no claims.
LEMMA InitSponsor == SponsorInit => SponsorInv
<1>. SUFFICES ASSUME SponsorInit PROVE SponsorInv
  BY Zenon
<1>1. /\ claim = << >> /\ monitored = << >> /\ claimed = {} /\ sponsorFaults = 0
      /\ sponsor = NoRound
  BY Zenon DEF SponsorInit
<1>2. 1 .. Len(claim) = {} /\ 1 .. Len(monitored) = {}
  BY <1>1
<1>3. SponsorTypes
  BY <1>1 DEF SponsorTypes, NoRound, NoTx
<1>4. \A gi : ~Works(gi)
  BY <1>1, Zenon DEF Works, NoRound
<1>. QED  BY <1>1, <1>2, <1>3, <1>4, Zenon DEF SponsorInv, PayInv, IdInv, SoleInv

\* The invariant says what the endpoint answers: with one row the failed transaction is
\* the first of its claim, so the one that was mined came after it.
LEMMA StatusFollows == ASSUME SponsorInv PROVE StatusIsTrue
<1>0. /\ Len(claim) \in Nat /\ Len(monitored) \in Nat /\ sponsorFaults \in Nat
      /\ SponsorTypes /\ PayInv /\ IdInv /\ SoleInv
  BY DEF SponsorInv, SponsorTypes
<1>. SUFFICES ASSUME NEW gi \in GlobalIndexes, Rows(gi) # {}
              PROVE  /\ GetSponsoredClaimStatus(gi) = "success" => gi \in claimed
                     /\ GetSponsoredClaimStatus(gi) = "failed" /\ gi \in claimed
                           => sponsorFaults > 0 \/ Cardinality(Rows(gi)) > 1 \/ Overtaken(gi)
  BY Zenon DEF StatusIsTrue
<1>1. PICK m \in Rows(gi) : m = CHOOSE i \in Rows(gi) : \A j \in Rows(gi) : i <= j
  <2>1. Rows(gi) \in SUBSET Nat
    BY <1>0 DEF Rows
  <2>. QED  BY <2>1, FirstRow, Zenon
<1>2. /\ GetSponsoredClaimStatus(gi) = claim[m].status
      /\ m \in 1 .. Len(claim) /\ claim[m].gi = gi
  BY <1>1, Zenon DEF GetSponsoredClaimStatus, Rows
<1>3. claim[m].status = "success" => gi \in claimed
  BY <1>0, <1>2, Zenon DEF IdInv
<1>4. ASSUME claim[m].status = "failed", gi \in claimed,
             sponsorFaults = 0, ~(Cardinality(Rows(gi)) > 1)
      PROVE  Overtaken(gi)
  <2>1. Sole(m)
    <3>. SUFFICES ASSUME NEW j \in 1 .. Len(claim), claim[j].gi = gi, j # m
                  PROVE  FALSE
      BY <1>2, Zenon DEF Sole
    <3>1. IsFiniteSet(Rows(gi))
      <4>1. IsFiniteSet(1 .. Len(claim))
        BY <1>0, FS_Interval
      <4>. QED  BY <4>1, FS_Subset, Zenon DEF Rows
    <3>2. {m, j} \in SUBSET Rows(gi)
      BY <1>1, Zenon DEF Rows
    <3>3. IsFiniteSet({m, j}) /\ Cardinality({m, j}) = 2
      <4>1. IsFiniteSet({m}) /\ Cardinality({m}) = 1
        BY FS_Singleton, Zenon
      <4>2. {m, j} = {m} \cup {j} /\ j \notin {m}
        BY Zenon
      <4>3. IsFiniteSet({m} \cup {j}) /\ Cardinality({m} \cup {j}) = Cardinality({m}) + 1
        BY <4>1, <4>2, FS_AddElement, Zenon
      <4>4. Cardinality({m}) + 1 = 2
        BY <4>1
      <4>. QED  BY <4>2, <4>3, <4>4, Zenon
    <3>4. /\ Cardinality({m, j}) <= Cardinality(Rows(gi))
      BY <3>1, <3>2, FS_Subset, Zenon
    <3>5. Cardinality(Rows(gi)) \in Nat
      BY <3>1, FS_CardinalityType, Zenon
    <3>. QED  BY <1>4, <3>3, <3>4, <3>5
  <2>2. RestOK(claim[m])
    BY <1>0, <1>2, <1>4, <2>1, ZenonT(30) DEF SoleInv, WorkOK
  <2>3. PICK u \in 1 .. Len(monitored) : First(u, gi) /\ monitored[u].status = "failed"
    BY <1>2, <1>4, <2>2, Zenon DEF RestOK
  <2>4. PICK w \in 1 .. Len(monitored) : Tx(w, gi) /\ monitored[w].status = "mined"
    BY <1>0, <1>4, Zenon DEF PayInv
  <2>5. u <= w /\ u # w
    BY <2>3, <2>4, Zenon DEF First
  <2>6. u < w
    BY <1>0, <2>3, <2>4, <2>5
  <2>. QED  BY <2>3, <2>4, <2>6, Zenon DEF Overtaken, First, Tx
<1>5. sponsorFaults > 0 \/ sponsorFaults = 0
  BY <1>0
<1>. QED  BY <1>2, <1>3, <1>4, <1>5, Zenon

\* GetSponsoredClaimStatus answers success only for a claim the contract has paid, and
\* failed for a paid claim only after a fault, a second request or a transaction that
\* overtook an earlier one, however many claims are queued and however often the sponsor
\* is restarted.
THEOREM AnswersAreTrue == SponsorSpec => []StatusIsTrue
<1>1. SponsorInit => SponsorInv
  BY InitSponsor, Zenon
<1>2. SponsorInv /\ [SponsorNext]_sponsorVars => SponsorInv'
  <2>. SUFFICES ASSUME SponsorInv, [SponsorNext]_sponsorVars PROVE SponsorInv'
    BY Zenon
  <2>1. CASE SponsorClaim
    BY <2>1, ClaimKeeps, Zenon
  <2>2. CASE PickClaim
    BY <2>2, PickKeeps, Zenon
  <2>3. CASE sendClaim
    BY <2>3, SendKeeps, Zenon
  <2>4. CASE updateClaimTxID
    BY <2>4, SaveKeeps, Zenon
  <2>5. CASE waitTxToBeSuccessOrFail
    BY <2>5, WaitKeeps, Zenon
  <2>6. CASE updateClaimStatus
    BY <2>6, ConcludeKeeps, Zenon
  <2>7. CASE SponsorRestart
    BY <2>7, SponsorRestartKeeps, Zenon
  <2>8. CASE ManagerStep
    BY <2>8, ManagerKeeps, Zenon
  <2>9. CASE UNCHANGED sponsorVars
    <3>1. UNCHANGED <<claim, sponsor, monitored, claimed, sponsorFaults>>
      BY <2>9, Zenon DEF sponsorVars
    <3>2. SponsorTypes' /\ PayInv'
      BY <3>1, Zenon DEF SponsorInv, SponsorTypes, PayInv, Tx
    <3>3. IdInv'
      BY <3>1 DEF SponsorInv, IdInv, Works, Tx, Rows
    <3>4. SoleInv'
      <4>1. /\ \A g : Works(g)' <=> Works(g)
            /\ \A x : (RestOK(x)' <=> RestOK(x)) /\ (WorkOK(x)' <=> WorkOK(x))
        BY <3>1, SameTransactions, Zenon
      <4>2. \A i : Sole(i)' => Sole(i)
        BY <3>1, Zenon DEF Sole
      <4>. QED  BY <3>1, <4>1, <4>2, Zenon DEF SponsorInv, SoleInv
    <3>. QED  BY <3>2, <3>3, <3>4, Zenon DEF SponsorInv
  <2>. QED  BY <2>1, <2>2, <2>3, <2>4, <2>5, <2>6, <2>7, <2>8, <2>9, Zenon
               DEF SponsorNext, SponsorStep
<1>3. SponsorInv => StatusIsTrue
  BY StatusFollows, Zenon
<1>. QED  BY <1>1, <1>2, <1>3, PTL DEF SponsorSpec
=============================================================================
