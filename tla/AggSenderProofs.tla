-------------------------- MODULE AggSenderProofs ---------------------------
(***************************************************************************)
(* Theorems about the AggSender, for any number of L2 blocks and of failed *)
(* certificates.  The rows of certificate_info tile the L2 blocks, rolled  *)
(* back or not, whatever is lost.  As long as every certificate that the   *)
(* AggLayer accepts is recorded, none is prepared while another one is in  *)
(* flight; and as long as the L2 is not rolled back either, certificates   *)
(* carry exactly what their blocks hold and implement the ledger of exits. *)
(***************************************************************************)
EXTENDS AggSender, FiniteSetTheorems, TLAPS

\* A certificate in flight has a row that says so, or is about to get one; and
\* from the choice of a range to the save no row waits for the AggLayer.
Recorded ==
    /\ lost \in Nat
    /\ \A c \in DOMAIN agglayer : agglayer[c] \in Status
    /\ \A r \in certificate_info : "cert" \in DOMAIN r /\ "status" \in DOMAIN r
    /\ \A c \in InFlight :
          \/ \E r \in certificate_info : r.cert = c /\ r.status \in nonSettledStatuses
          \/ snd.pc = "save" /\ c = snd.cert
    /\ snd.pc \in {"bridges", "claims", "root", "submit", "save"} =>
          \A r \in certificate_info : r.status \notin nonSettledStatuses

\* Nothing is in flight before the first certificate.
LEMMA InitRecorded == Init => Recorded
<1> SUFFICES ASSUME Init PROVE Recorded
  BY Zenon
<1>1. DOMAIN agglayer = {}
  BY DEF Init
<1> QED
  BY <1>1, Zenon DEF Init, Recorded, InFlight, Idle

\* Invariance of Recorded under the steps that leave the AggLayer's
\* certificates alone: reading, giving up and checking.
LEMMA QuietStep ==
    ASSUME Recorded, agglayer' = agglayer, certificate_info' = certificate_info,
           lost' = lost, snd'.pc \notin {"bridges", "claims", "root", "submit", "save"},
           snd.pc # "save"
    PROVE  Recorded'
BY Zenon DEF Recorded, InFlight

\* Every step keeps Recorded when no accepted certificate may be lost.
LEMMA StepRecorded == ASSUME MaxLost = 0, Recorded, [Next]_vars PROVE Recorded'
<1> USE DEF Recorded, InFlight, nonSettledStatuses, Status
<1>1. CASE UNCHANGED vars
  BY <1>1, Zenon DEF vars
<1>2. CASE ProcessL2Block
  BY <1>2, Zenon DEF ProcessL2Block
<1>3. ASSUME NEW n \in 1 .. MaxL2Block, ReorgL2(n) PROVE Recorded'
  BY <1>3, Zenon DEF ReorgL2
<1>4. ASSUME NEW c \in DOMAIN agglayer, Advance(c) PROVE Recorded'
  BY <1>4, Zenon DEF Advance, NextStatus
<1>5. ASSUME NEW c \in DOMAIN agglayer, FailCertificate(c) PROVE Recorded'
  BY <1>5, Zenon DEF FailCertificate
<1>6. CASE ReceiveEpoch
  BY <1>6, QuietStep, Zenon DEF ReceiveEpoch, GetCertificatesByStatus, Idle
<1>7. CASE CheckCertificate
  <2>1. PICK r \in snd.todo :
           certificate_info' =
               {IF q.cert = r.cert THEN [q EXCEPT !.status = agglayer[r.cert]] ELSE q :
                   q \in certificate_info}
    BY <1>7, Zenon DEF CheckCertificate, UpdateCertificateStatus
  <2>2. snd.pc = "check" /\ snd'.pc \in {"check", "idle", "send"}
    BY <1>7 DEF CheckCertificate, Idle
  <2>3. UNCHANGED <<agglayer, lost>>
    BY <1>7, Zenon DEF CheckCertificate
  <2>4. ASSUME NEW c \in InFlight, NEW q \in certificate_info,
               q.cert = c, q.status \in nonSettledStatuses
        PROVE  \E s \in certificate_info' : s.cert = c /\ s.status \in nonSettledStatuses
    <3>1. CASE q.cert = r.cert
      <4> DEFINE s == [q EXCEPT !.status = agglayer[r.cert]]
      <4>1. s \in certificate_info'
        BY <2>1, <3>1, Zenon
      <4>2. s.status = agglayer[c] /\ s.cert = c
        BY <2>4, <3>1, Zenon
      <4> QED
        BY <4>1, <4>2, Zenon
    <3>2. CASE q.cert # r.cert
      BY <2>1, <2>4, <3>2, ZenonT(30)
    <3> QED
      BY <3>1, <3>2, Zenon
  <2>5. ASSUME NEW s \in certificate_info' PROVE "cert" \in DOMAIN s /\ "status" \in DOMAIN s
    BY <2>1, Zenon
  <2> QED
    BY <2>2, <2>3, <2>4, <2>5
<1>8. CASE ChooseRange
  BY <1>8, Zenon DEF ChooseRange, GetCertificatesByStatus, Idle
<1>9. CASE GetBridges
  BY <1>9, Zenon DEF GetBridges, Idle
<1>10. CASE ReadClaims
  BY <1>10, Zenon DEF ReadClaims, Idle
<1>11. CASE BuildCertificate
  BY <1>11, Zenon DEF BuildCertificate, Idle
<1>12. CASE SendCertificate
  BY <1>12 DEF SendCertificate
<1>13. CASE SaveLastSentCertificate
  <2> DEFINE row == [height |-> snd.cert.height, cert |-> snd.cert, ler |-> snd.cert.new,
                     from |-> snd.from, to |-> snd.to, status |-> "Pending"]
  <2>1. row \in certificate_info' /\ row.cert = snd.cert /\ row.status = "Pending"
    BY <1>13, Zenon DEF SaveLastSentCertificate
  <2>2. snd.pc = "save" /\ snd'.pc = "idle" /\ UNCHANGED <<agglayer, lost>>
    BY <1>13, Zenon DEF SaveLastSentCertificate, Idle
  <2>3. "cert" \in DOMAIN row /\ "status" \in DOMAIN row
    BY Zenon
  <2>4. \A s \in certificate_info' : s \in certificate_info \/ s = row
    BY <1>13, Zenon DEF SaveLastSentCertificate
  <2> HIDE DEF row
  <2> QED
    BY <2>1, <2>2, <2>3, <2>4, Zenon
<1>14. CASE GiveUp
  BY <1>14, QuietStep, Zenon DEF GiveUp, Idle
<1>15. CASE LoseCertificate
  BY <1>15 DEF LoseCertificate
<1> QED
  BY <1>1, <1>2, <1>3, <1>4, <1>5, <1>6, <1>7, <1>8, <1>9, <1>10, <1>11, <1>12,
     <1>13, <1>14, <1>15, Zenon DEF Next, Syncer, AggLayer, Sender

\* shouldSendCertificate, read on the table alone, is enough to wait for the
\* AggLayer: no certificate is prepared while another one is in flight.
THEOREM NeverTwoInFlight == ASSUME MaxLost = 0 PROVE Spec => []WaitsForPending
<1>1. Init => Recorded
  BY InitRecorded, Zenon
<1>2. Recorded /\ [Next]_vars => Recorded'
  BY StepRecorded, Zenon
<1>3. Recorded => WaitsForPending
  BY Zenon DEF Recorded, WaitsForPending, InFlight
<1> QED
  BY <1>1, <1>2, <1>3, PTL DEF Spec

-----------------------------------------------------------------------------
(* The rows tile the L2 blocks.                                            *)

Preparing == {"bridges", "claims", "root", "submit", "save"}

RowsOK ==
    /\ \A r \in certificate_info :
          /\ r.height \in Nat /\ r.from \in Nat /\ r.to \in Nat /\ r.ler # NoRoot
          /\ {"height", "cert", "ler", "from", "to", "status"} \subseteq DOMAIN r
    /\ RangesTile

\* row is what GetLastSentCertificate returns.
IsLast(row) ==
    IF certificate_info = {} THEN row = NoInfo
    ELSE row \in certificate_info /\ \A q \in certificate_info : q.height <= row.height

\* The range and the height under preparation continue the last row.
Continues ==
    /\ \E row : IsLast(row)
    /\ snd.pc \in Preparing =>
          /\ IsLast(snd.last)
          /\ snd.from = previousToBlock(snd.last) + 1
          /\ snd.to \in Nat /\ snd.from <= snd.to
    /\ snd.pc \in {"submit", "save"} =>
          /\ snd.cert.height = getNextHeightAndPreviousLER(snd.last).height
          /\ snd.cert.new # NoRoot
    /\ DOMAIN snd = DOMAIN Idle
    /\ l2 \in Seq(Block) /\ Len(l2) <= MaxL2Block /\ reorgs \in 0 .. MaxReorgs

\* GetLastSentCertificate returns a row of greatest height.
LEMMA LastIsLast == ASSUME \E row : IsLast(row) PROVE IsLast(GetLastSentCertificate)
BY Zenon DEF IsLast, GetLastSentCertificate

\* An exit root is never the zero hash of a missing certificate.
LEMMA RootIsRoot ==
    ASSUME l2 \in Seq(Block), Len(l2) <= MaxL2Block, NEW k
    PROVE  GetExitRootByIndex(k) # NoRoot
<1>1. ASSUME NEW n \in 1 .. Len(l2) PROVE <<n, l2[n].fork>> \in Event
  <2>1. l2[n] \in Block
    BY <1>1
  <2>2. l2[n].fork \in 0 .. MaxReorgs
    BY <2>1, Zenon DEF Block
  <2>3. n \in 1 .. MaxL2Block
    BY <1>1, AggSenderAssumption
  <2> QED
    BY <2>2, <2>3, Zenon DEF Event
<1>2. AllExits \subseteq Event
  BY <1>1, Zenon DEF AllExits, GetBridgesPublished
<1> QED
  BY <1>2, AggSenderAssumption, Zenon DEF GetExitRootByIndex

\* An empty table tiles nothing.
LEMMA InitTile == Init => RowsOK /\ Continues
<1> SUFFICES ASSUME Init PROVE RowsOK /\ Continues
  BY Zenon
<1>1. RowsOK
  BY Zenon DEF Init, RowsOK, RangesTile
<1>2. IsLast(NoInfo)
  BY Zenon DEF Init, IsLast
<1>3. snd.pc = "idle"
  BY Zenon DEF Init, Idle
<1>4. l2 = << >> /\ l2 \in Seq(Block) /\ Len(l2) = 0 /\ snd = Idle /\ reorgs = 0
  BY DEF Init
<1> QED
  BY <1>1, <1>2, <1>3, <1>4, AggSenderAssumption DEF Continues, Preparing

\* Steps that leave the table and the preparation alone.
LEMMA TableKept ==
    ASSUME RowsOK, Continues, UNCHANGED certificate_info,
           l2' \in Seq(Block), Len(l2') <= MaxL2Block, reorgs' \in 0 .. MaxReorgs,
           snd' = snd \/ (snd'.pc \notin Preparing /\ DOMAIN snd' = DOMAIN Idle)
    PROVE  RowsOK' /\ Continues'
<1>1. RowsOK'
  BY Zenon DEF RowsOK, RangesTile
<1>2. \A row : IsLast(row)' <=> IsLast(row)
  BY Zenon DEF IsLast
<1>3. CASE snd' = snd
  BY <1>1, <1>2, <1>3, Zenon DEF Continues, Preparing
<1>4. CASE snd'.pc \notin Preparing /\ DOMAIN snd' = DOMAIN Idle
  BY <1>1, <1>2, <1>4, Zenon DEF Continues, Preparing
<1> QED
  BY <1>3, <1>4, Zenon

\* Checking a certificate changes statuses only.
LEMMA CheckTile ==
    ASSUME RowsOK, Continues, CheckCertificate PROVE RowsOK' /\ Continues'
<1>1. PICK r \in snd.todo :
         /\ certificate_info' =
               {IF q.cert = r.cert THEN [q EXCEPT !.status = agglayer[r.cert]] ELSE q :
                   q \in certificate_info}
         /\ \/ snd' = Idle \/ snd' = [Idle EXCEPT !.pc = "send"]
            \/ \E b : snd' = [snd EXCEPT !.todo = @ \ {r}, !.pending = b]
  BY Zenon DEF CheckCertificate, UpdateCertificateStatus
<1> DEFINE New(q) == IF q.cert = r.cert THEN [q EXCEPT !.status = agglayer[r.cert]] ELSE q
<1>2. ASSUME NEW q \in certificate_info
      PROVE  /\ New(q).height = q.height /\ New(q).from = q.from /\ New(q).to = q.to
             /\ New(q).ler = q.ler /\ DOMAIN New(q) = DOMAIN q
  BY <1>2, Zenon DEF RowsOK
<1>3. /\ \A q \in certificate_info : New(q) \in certificate_info'
      /\ \A s \in certificate_info' : \E q \in certificate_info : s = New(q)
  BY <1>1, ZenonT(30)
<1>4. /\ snd'.pc \notin Preparing /\ UNCHANGED <<l2, reorgs>>
      /\ DOMAIN snd' = DOMAIN Idle
  <2>1. UNCHANGED <<l2, reorgs>> /\ snd.pc = "check" /\ DOMAIN snd = DOMAIN Idle
    BY Zenon DEF CheckCertificate, UpdateCertificateStatus, world, Continues
  <2>2. CASE snd' = Idle \/ snd' = [Idle EXCEPT !.pc = "send"]
    BY <2>1, <2>2 DEF Idle, Preparing
  <2>3. CASE \E b : snd' = [snd EXCEPT !.todo = @ \ {r}, !.pending = b]
    <3>1. PICK b : snd' = [snd EXCEPT !.todo = @ \ {r}, !.pending = b]
      BY <2>3, Zenon
    <3>2. DOMAIN snd' = DOMAIN snd /\ "pc" \in DOMAIN snd
      BY <2>1, <3>1, Zenon DEF Idle
    <3>3. snd'.pc = snd.pc
      BY <3>1, <3>2, Zenon
    <3> QED
      BY <2>1, <3>2, <3>3, Zenon DEF Preparing
  <2> QED
    BY <1>1, <2>1, <2>2, <2>3, Zenon
<1> HIDE DEF New
<1>5. \A s \in certificate_info' :
         /\ s.height \in Nat /\ s.from \in Nat /\ s.to \in Nat /\ s.ler # NoRoot
         /\ {"height", "cert", "ler", "from", "to", "status"} \subseteq DOMAIN s
  BY <1>2, <1>3 DEF RowsOK
<1>6. RangesTile'
  <2>1. ASSUME NEW s \in certificate_info', NEW t \in certificate_info', s.height = t.height
        PROVE  s = t
    BY <1>2, <1>3, <2>1 DEF RowsOK, RangesTile
  <2>2. ASSUME NEW s \in certificate_info'
        PROVE  /\ s.from <= s.to
               /\ IF s.height = 0 THEN s.from = 1
                  ELSE \E t \in certificate_info' : t.height = s.height - 1 /\ s.from = t.to + 1
    <3>1. PICK q \in certificate_info : s = New(q)
      BY <1>3, Zenon
    <3>2. CASE s.height = 0
      BY <1>2, <3>1, <3>2, ZenonT(30) DEF RowsOK, RangesTile
    <3>3. CASE s.height # 0
      <4>1. PICK p \in certificate_info : p.height = q.height - 1 /\ q.from = p.to + 1
        BY <1>2, <3>1, <3>3, Zenon DEF RowsOK, RangesTile
      <4>2. New(p) \in certificate_info' /\ New(p).height = s.height - 1 /\ s.from = New(p).to + 1
        BY <1>2, <1>3, <3>1, <4>1, Zenon
      <4> QED
        BY <1>2, <3>1, <3>3, <4>2, Zenon DEF RowsOK, RangesTile
    <3> QED
      BY <3>2, <3>3, Zenon
  <2> QED
    BY <2>1, <2>2, Zenon DEF RangesTile
<1>7. \E row : IsLast(row)'
  <2>1. CASE certificate_info = {}
    <3>1. certificate_info' = {}
      BY <1>3, <2>1, Zenon
    <3>2. IsLast(NoInfo)'
      BY <3>1, Zenon DEF IsLast
    <3> QED
      BY <3>2, Zenon
  <2>2. CASE certificate_info # {}
    <3>1. PICK row \in certificate_info : \A q \in certificate_info : q.height <= row.height
      BY <2>2, Zenon DEF Continues, IsLast
    <3>2. PICK s \in certificate_info' : s = New(row)
      BY <1>3, Zenon
    <3>3. \A t \in certificate_info' : t.height <= s.height
      BY <1>2, <1>3, <3>1, <3>2, Zenon
    <3>4. IsLast(s)'
      BY <3>3, Zenon DEF IsLast
    <3> QED
      BY <3>4, Zenon
  <2> QED
    BY <2>1, <2>2, Zenon
<1> QED
  BY <1>4, <1>5, <1>6, <1>7, Zenon DEF RowsOK, Continues, Preparing

\* A saved certificate continues the rows or replaces the last of them.
LEMMA SaveTile ==
    ASSUME RowsOK, Continues, SaveLastSentCertificate PROVE RowsOK' /\ Continues'
<1> DEFINE row  == [height |-> snd.cert.height, cert |-> snd.cert, ler |-> snd.cert.new,
                    from |-> snd.from, to |-> snd.to, status |-> "Pending"]
           last == snd.last
           rows == certificate_info
<1>1. snd.pc = "save" /\ snd'.pc = "idle" /\ snd' = Idle /\ UNCHANGED <<l2, reorgs>>
  BY Zenon DEF SaveLastSentCertificate, Idle, world
<1>2. certificate_info' = {r \in rows : r.height # snd.cert.height} \cup {row}
  BY Zenon DEF SaveLastSentCertificate
<1>3. /\ row.height = snd.cert.height /\ row.from = snd.from /\ row.to = snd.to
      /\ row.ler = snd.cert.new
      /\ {"height", "cert", "ler", "from", "to", "status"} \subseteq DOMAIN row
  BY Zenon
<1> HIDE DEF row
<1>4. /\ IsLast(last) /\ snd.from = previousToBlock(last) + 1
      /\ snd.to \in Nat /\ snd.from <= snd.to
      /\ row.height = getNextHeightAndPreviousLER(last).height
      /\ row.ler # NoRoot
  BY <1>1, <1>3, Zenon DEF Continues, Preparing
<1>5. \A r \in rows : r.height \in Nat /\ r.from \in Nat /\ r.to \in Nat /\ r.from >= 1
  BY DEF RowsOK, RangesTile
<1>6. /\ row.height \in Nat /\ row.from \in Nat
      /\ \A r \in rows : r.height <= row.height
      /\ IF row.height = 0 THEN row.from = 1
         ELSE \E q \in rows : q.height = row.height - 1 /\ row.from = q.to + 1
  <2>1. CASE rows = {}
    <3>1. last = NoInfo
      BY <1>4, <2>1, Zenon DEF IsLast
    <3>2. row.height = 0 /\ row.from = 1
      BY <1>3, <1>4, <3>1 DEF NoInfo, previousToBlock, getNextHeightAndPreviousLER
    <3> QED
      BY <2>1, <3>2
  <2>2. CASE rows # {}
    <3>1. last \in rows /\ last.ler # NoRoot /\ \A q \in rows : q.height <= last.height
      BY <1>4, <2>2, Zenon DEF IsLast, RowsOK
    <3>2. CASE last.status = "InError"
      <4>1. row.height = last.height /\ row.from = last.from
        BY <1>3, <1>4, <1>5, <3>1, <3>2 DEF previousToBlock, getNextHeightAndPreviousLER
      <4> QED
        BY <1>5, <3>1, <4>1, Zenon DEF RowsOK, RangesTile
    <3>3. CASE last.status # "InError"
      <4>1. row.height = last.height + 1 /\ row.from = last.to + 1
        BY <1>3, <1>4, <1>5, <3>1, <3>3, Zenon DEF previousToBlock, getNextHeightAndPreviousLER
      <4> QED
        BY <1>5, <3>1, <4>1
    <3> QED
      BY <3>2, <3>3, Zenon
  <2> QED
    BY <2>1, <2>2, Zenon
<1>7. RowsOK'
  <2>1. \A s \in certificate_info' :
           /\ s.height \in Nat /\ s.from \in Nat /\ s.to \in Nat /\ s.ler # NoRoot
           /\ {"height", "cert", "ler", "from", "to", "status"} \subseteq DOMAIN s
    BY <1>2, <1>3, <1>4, <1>6, Zenon DEF RowsOK
  <2>2. \A s, t \in certificate_info' : s.height = t.height => s = t
    BY <1>2, <1>3, Zenon DEF RowsOK, RangesTile
  <2>3. ASSUME NEW s \in certificate_info'
        PROVE  /\ s.from <= s.to
               /\ IF s.height = 0 THEN s.from = 1
                  ELSE \E t \in certificate_info' : t.height = s.height - 1 /\ s.from = t.to + 1
    <3>1. CASE s = row
      BY <1>2, <1>3, <1>4, <1>5, <1>6, <3>1
    <3>2. CASE s \in rows /\ s.height # row.height
      <4>1. s.from <= s.to /\ (s.height = 0 => s.from = 1)
        BY <3>2, Zenon DEF RowsOK, RangesTile
      <4>2. ASSUME s.height # 0
            PROVE  \E t \in certificate_info' : t.height = s.height - 1 /\ s.from = t.to + 1
        <5>1. PICK q \in rows : q.height = s.height - 1 /\ s.from = q.to + 1
          BY <3>2, <4>2, Zenon DEF RowsOK, RangesTile
        <5>2. q.height # row.height
          BY <1>5, <1>6, <3>2, <5>1
        <5> QED
          BY <1>2, <1>3, <5>1, <5>2, Zenon
      <4> QED
        BY <4>1, <4>2, Zenon
    <3> QED
      BY <1>2, <1>3, <3>1, <3>2, Zenon
  <2> QED
    BY <2>1, <2>2, <2>3, Zenon DEF RowsOK, RangesTile
<1>8. \E x : IsLast(x)'
  <2>1. PICK x : x = row
    BY Zenon
  <2>2. x \in certificate_info' /\ \A q \in certificate_info' : q.height <= x.height
    BY <1>2, <1>6, <2>1
  <2>3. IsLast(x)'
    BY <2>2, Zenon DEF IsLast
  <2> QED
    BY <2>3, Zenon
<1> QED
  BY <1>1, <1>7, <1>8, Zenon DEF Continues, Preparing

\* Steps of the preparation, which read the table and leave it as it is.
LEMMA PreparationKept ==
    ASSUME RowsOK, Continues, UNCHANGED <<certificate_info, l2, reorgs>>,
           DOMAIN snd' = DOMAIN Idle, snd'.pc \in Preparing, IsLast(snd'.last),
           snd'.from = previousToBlock(snd'.last) + 1,
           snd'.to \in Nat, snd'.from <= snd'.to,
           snd'.pc \in {"submit", "save"} =>
              /\ snd'.cert.height = getNextHeightAndPreviousLER(snd'.last).height
              /\ snd'.cert.new # NoRoot
    PROVE  RowsOK' /\ Continues'
<1>1. RowsOK'
  BY Zenon DEF RowsOK, RangesTile
<1>2. \A row : IsLast(row)' <=> IsLast(row)
  BY Zenon DEF IsLast
<1>3. PICK x : x = snd'
  BY Zenon
<1>4. IsLast(x.last)'
  BY <1>2, <1>3, Zenon DEF IsLast
<1>5. /\ x.from = previousToBlock(x.last) + 1 /\ x.to \in Nat /\ x.from <= x.to
      /\ x.pc \in {"submit", "save"} =>
            x.cert.height = getNextHeightAndPreviousLER(x.last).height /\ x.cert.new # NoRoot
  BY <1>3, Zenon
<1> QED
  BY <1>1, <1>2, <1>3, <1>4, <1>5, Zenon
     DEF Continues, IsLast, previousToBlock, getNextHeightAndPreviousLER

\* Every step keeps the table tiled, and the preparation in line with it.
LEMMA StepTile == ASSUME RowsOK, Continues, [Next]_vars PROVE RowsOK' /\ Continues'
<1> USE AggSenderAssumption
<1>0. l2 \in Seq(Block) /\ Len(l2) <= MaxL2Block /\ reorgs \in 0 .. MaxReorgs
  BY Zenon DEF Continues
<1>1. CASE UNCHANGED vars
  BY <1>0, <1>1, TableKept, Zenon DEF vars
<1>2. CASE ProcessL2Block
  <2>1. PICK b \in Block : l2' = Append(l2, b)
    BY <1>0, <1>2, Zenon DEF ProcessL2Block, Block
  <2>2. l2' \in Seq(Block) /\ Len(l2') <= MaxL2Block
    BY <1>0, <1>2, <2>1 DEF ProcessL2Block
  <2> QED
    BY <1>0, <1>2, <2>2, TableKept, Zenon DEF ProcessL2Block
<1>3. ASSUME NEW n \in 1 .. MaxL2Block, ReorgL2(n) PROVE RowsOK' /\ Continues'
  <2>1. l2' \in Seq(Block) /\ Len(l2') <= MaxL2Block /\ reorgs' \in 0 .. MaxReorgs
    BY <1>0, <1>3 DEF ReorgL2
  <2> QED
    BY <1>3, <2>1, TableKept, Zenon DEF ReorgL2
<1>4. ASSUME NEW c \in DOMAIN agglayer, Advance(c) \/ FailCertificate(c)
      PROVE  RowsOK' /\ Continues'
  BY <1>0, <1>4, TableKept, Zenon DEF Advance, FailCertificate
<1>5. CASE ReceiveEpoch
  BY <1>0, <1>5, TableKept, Zenon DEF ReceiveEpoch, Idle, Preparing, world
<1>6. CASE CheckCertificate
  BY <1>6, CheckTile, Zenon
<1>7. CASE GiveUp
  BY <1>0, <1>7, TableKept, Zenon DEF GiveUp, Idle, Preparing, world
<1>8. CASE LoseCertificate
  BY <1>0, <1>8, TableKept, Zenon DEF LoseCertificate, Idle, Preparing, world
<1>9. CASE SaveLastSentCertificate
  BY <1>9, SaveTile, Zenon
<1>10. CASE ChooseRange
  <2> DEFINE last == GetLastSentCertificate
  <2>1. IsLast(last)
    BY LastIsLast, Zenon DEF Continues
  <2> HIDE DEF last
  <2>2. CASE snd' = Idle
    <3>1. UNCHANGED <<certificate_info, l2, reorgs>>
      BY <1>10, Zenon DEF ChooseRange, GetCertificatesByStatus, world
    <3>2. snd'.pc \notin Preparing
      BY <2>2, Zenon DEF Idle, Preparing
    <3> QED
      BY <1>0, <2>2, <3>1, <3>2, TableKept, Zenon
  <2>3. CASE /\ snd'.pc = "bridges" /\ snd'.last = last
             /\ snd'.from = previousToBlock(last) + 1 /\ snd'.to = Len(l2)
             /\ previousToBlock(last) < Len(l2) /\ DOMAIN snd' = DOMAIN Idle
    <3>1. previousToBlock(last) \in Int
      BY <2>1 DEF previousToBlock, RowsOK, IsLast, NoInfo
    <3>2. UNCHANGED <<certificate_info, l2, reorgs>>
      BY <1>10, Zenon DEF ChooseRange, GetCertificatesByStatus, world
    <3> QED
      BY <1>0, <2>1, <2>3, <3>1, <3>2, PreparationKept DEF Preparing
  <2>4. ASSUME ~(previousToBlock(last) >= Len(l2)) PROVE previousToBlock(last) < Len(l2)
    <3>1. previousToBlock(last) \in Int
      BY <2>1 DEF previousToBlock, RowsOK, IsLast, NoInfo
    <3> QED
      BY <1>0, <2>4, <3>1
  <2> QED
    BY <1>10, <2>2, <2>3, <2>4, Zenon DEF ChooseRange, Idle, GetLastProcessedBlock, last
<1>11. CASE GetBridges \/ ReadClaims
  <2>1. UNCHANGED <<certificate_info, l2, reorgs>> /\ snd.pc \in {"bridges", "claims"}
    BY <1>11, Zenon DEF GetBridges, ReadClaims, world
  <2>2. CASE snd' = Idle
    BY <1>0, <2>1, <2>2, TableKept, Zenon DEF Idle, Preparing
  <2>3. CASE /\ snd'.pc \in {"claims", "root"} /\ snd'.last = snd.last
             /\ snd'.from = snd.from /\ snd'.to = snd.to /\ DOMAIN snd' = DOMAIN Idle
    BY <2>1, <2>3, PreparationKept, Zenon DEF Continues, Preparing
  <2> QED
    BY <1>11, <2>2, <2>3, ZenonT(30) DEF GetBridges, ReadClaims, Continues, Idle
<1>12. CASE BuildCertificate
  <2>1. UNCHANGED <<certificate_info, l2, reorgs>> /\ snd.pc = "root"
    BY <1>12, Zenon DEF BuildCertificate, world
  <2>2. CASE snd' = Idle
    BY <1>0, <2>1, <2>2, TableKept, Zenon DEF Idle, Preparing
  <2>3. CASE /\ snd'.pc = "submit" /\ snd'.last = snd.last
             /\ snd'.from = snd.from /\ snd'.to = snd.to /\ DOMAIN snd' = DOMAIN Idle
             /\ snd'.cert.height = getNextHeightAndPreviousLER(snd.last).height
             /\ snd'.cert.new = GetExitRootByIndex(snd.count)
    BY <1>0, <2>1, <2>3, PreparationKept, RootIsRoot, Zenon DEF Continues, Preparing
  <2> QED
    BY <1>12, <2>2, <2>3, Zenon DEF BuildCertificate, Continues, Idle
<1>13. CASE SendCertificate
  <2>1. UNCHANGED <<certificate_info, l2, reorgs>> /\ snd.pc = "submit"
    BY <1>13, Zenon DEF SendCertificate, world
  <2>2. /\ snd'.pc = "save" /\ snd'.last = snd.last /\ snd'.cert = snd.cert
        /\ snd'.from = snd.from /\ snd'.to = snd.to /\ DOMAIN snd' = DOMAIN Idle
    BY <1>13, Zenon DEF SendCertificate, Continues, Idle
  <2> QED
    BY <2>1, <2>2, PreparationKept, Zenon DEF Continues, Preparing
<1> QED
  BY <1>1, <1>2, <1>3, <1>4, <1>5, <1>6, <1>7, <1>8, <1>9, <1>10, <1>11, <1>12, <1>13, Zenon
     DEF Next, Syncer, AggLayer, Sender

\* The ranges of certificate_info tile the L2 blocks whatever certificates fail,
\* are lost by a crash, or cover blocks that the L2 later rolls back.
THEOREM BlocksCertifiedOnce == Spec => []RangesTile
<1>1. Init => RowsOK /\ Continues
  BY InitTile, Zenon
<1>2. RowsOK /\ Continues /\ [Next]_vars => (RowsOK /\ Continues)'
  BY StepTile, Zenon
<1>3. RowsOK => RangesTile
  BY Zenon DEF RowsOK
<1> QED
  BY <1>1, <1>2, <1>3, PTL DEF Spec

-----------------------------------------------------------------------------
(* What the certificates hold, and the ledger of exits they implement.     *)

\* The rows below a height cover the blocks below f, and no others.
Covers(h, f) ==
    /\ \A r \in certificate_info : r.height < h => r.to < f
    /\ \A n \in 1 .. f - 1 :
          \E r \in certificate_info : r.height < h /\ r.from <= n /\ n <= r.to

\* The exits of a certificate are those of the blocks f .. t, and its root is the
\* one of the exit tree after block t.
Carries(c, f, t) ==
    /\ f \in Nat /\ t \in Nat /\ 1 <= f /\ f <= t /\ t <= Len(l2)
    /\ c.bridges = GetBridgesPublished(f, t)
    /\ c.new = GetBridgesPublished(1, t)

\* The certificate that has been accepted and not yet recorded.
Unsaved(c) == snd.pc = "save" /\ c = snd.cert

\* A certificate without a row has failed, or is about to get one.
CertsOK ==
    \A c \in DOMAIN agglayer :
       /\ c.height \in Nat
       /\ \E f, t \in 1 .. Len(l2) : Carries(c, f, t) /\ Covers(c.height, f)
       /\ (\E r \in certificate_info : c.height <= r.height) \/ Unsaved(c)
       /\ (\E r \in certificate_info : r.cert = c) \/ Unsaved(c) \/ agglayer[c] = "InError"

\* A row describes its certificate; one below another is settled.
RecordsOK ==
    \A r \in certificate_info :
       /\ r.status \in Status
       /\ r.cert \in DOMAIN agglayer /\ r.cert.height = r.height
       /\ Carries(r.cert, r.from, r.to) /\ Covers(r.height, r.from)
       /\ r.cert.claims = GetClaims(r.from, r.to)
       /\ r.status = "Settled" => agglayer[r.cert] = "Settled"
       /\ r.status = "InError" => agglayer[r.cert] = "InError" \/ Unsaved(r.cert)
       /\ \A q \in certificate_info : r.height < q.height => agglayer[r.cert] = "Settled"

\* The certificate under preparation is made of the blocks of its range.
DraftOK ==
    /\ snd.pc \in Preparing => snd.to <= Len(l2)
    /\ snd.pc \in Preparing \ {"bridges"} =>
          /\ snd.bridges = GetBridgesPublished(snd.from, snd.to)
          /\ snd.count = Cardinality(GetBridgesPublished(1, snd.to))
    /\ snd.pc \in {"root", "submit", "save"} => snd.claims = GetClaims(snd.from, snd.to)
    /\ snd.pc \in {"submit", "save"} =>
          /\ Carries(snd.cert, snd.from, snd.to)
          /\ snd.cert.claims = GetClaims(snd.from, snd.to)
    /\ snd.pc = "save" => snd.cert \in DOMAIN agglayer

ContentInv == Recorded /\ RowsOK /\ Continues /\ CertsOK /\ RecordsOK /\ DraftOK

BridgesOf(l, f, t) == {<<n, l[n].fork>> : n \in {m \in f .. t : l[m].bridge}}
ClaimsOf(l, f, t)  == {<<n, l[n].fork>> : n \in {m \in f .. t : l[m].claim}}

\* What a range of blocks holds does not change when the L2 grows.
LEMMA RangeKept ==
    ASSUME NEW l \in Seq(Block), NEW b, NEW f \in Nat, NEW t \in Nat, 1 <= f, t <= Len(l)
    PROVE  /\ BridgesOf(Append(l, b), f, t) = BridgesOf(l, f, t)
           /\ ClaimsOf(Append(l, b), f, t) = ClaimsOf(l, f, t)
<1>1. \A m \in f .. t : Append(l, b)[m] = l[m]
  OBVIOUS
<1> QED
  BY <1>1, Zenon DEF BridgesOf, ClaimsOf

\* The exits of some blocks are finitely many.
LEMMA ExitsFinite ==
    ASSUME NEW f \in Nat, NEW t \in Nat
    PROVE  IsFiniteSet(GetBridgesPublished(f, t))
<1> DEFINE S == {m \in f .. t : l2[m].bridge}
           g == [n \in S |-> <<n, l2[n].fork>>]
<1>1. IsFiniteSet(S)
  <2>1. IsFiniteSet(f .. t) /\ S \in SUBSET (f .. t)
    BY FS_Interval
  <2> QED
    BY <2>1, FS_Subset, Zenon
<1>2. g \in Surjection(S, GetBridgesPublished(f, t))
  BY Zenon DEF GetBridgesPublished, Surjection
<1> QED
  BY <1>1, <1>2, FS_Surjection, Zenon

\* GetExitRootByIndex with the index of the last exit of a block returns the root
\* the exit tree had after that block.
LEMMA RootOfCount ==
    ASSUME l2 \in Seq(Block), NEW t \in Nat, t <= Len(l2)
    PROVE  GetExitRootByIndex(Cardinality(GetBridgesPublished(1, t))) = GetBridgesPublished(1, t)
<1> DEFINE G == GetBridgesPublished(1, t)
<1>1. IsFiniteSet(G) /\ IsFiniteSet(AllExits)
  BY ExitsFinite DEF AllExits
<1>2. Cardinality(G) \in Nat
  BY <1>1, FS_CardinalityType, Zenon
<1>3. ASSUME NEW e \in AllExits, e \in G PROVE Cardinality(UpTo(AllExits, e)) <= Cardinality(G)
  <2>1. UpTo(AllExits, e) \subseteq G
    BY <1>3 DEF UpTo, AllExits, GetBridgesPublished
  <2> QED
    BY <1>1, <2>1, FS_Subset, Zenon
<1>4. ASSUME NEW e \in AllExits, e \notin G
      PROVE  ~(Cardinality(UpTo(AllExits, e)) <= Cardinality(G))
  <2> DEFINE U == UpTo(AllExits, e)
  <2>1. G \cup {e} \subseteq U
    BY <1>4 DEF UpTo, AllExits, GetBridgesPublished
  <2>2. IsFiniteSet(U) /\ Cardinality(U) \in Nat
    BY <1>1, FS_Subset, FS_CardinalityType, Zenon DEF UpTo
  <2>3. Cardinality(G \cup {e}) = Cardinality(G) + 1
    BY <1>1, <1>4, FS_AddElement, Zenon
  <2>4. Cardinality(G \cup {e}) <= Cardinality(U)
    BY <2>1, <2>2, FS_Subset, Zenon
  <2> QED
    BY <1>2, <2>2, <2>3, <2>4
<1>5. G \subseteq AllExits
  BY DEF AllExits, GetBridgesPublished
<1> HIDE DEF G
<1> QED
  BY <1>3, <1>4, <1>5, Zenon DEF GetExitRootByIndex, G

\* Before the first certificate there is nothing to describe.
LEMMA InitContent == Init => CertsOK /\ RecordsOK /\ DraftOK
<1> SUFFICES ASSUME Init PROVE CertsOK /\ RecordsOK /\ DraftOK
  BY Zenon
<1>1. DOMAIN agglayer = {} /\ certificate_info = {} /\ snd.pc = "idle"
  BY DEF Init, Idle
<1> QED
  BY <1>1, Zenon DEF CertsOK, RecordsOK, DraftOK, Preparing

\* The heights and ranges of the rows, as RowsOK has them.
LEMMA RowTypes ==
    ASSUME RowsOK, NEW r \in certificate_info
    PROVE  /\ r.height \in Nat /\ r.from \in Nat /\ r.to \in Nat
           /\ {"height", "cert", "ler", "from", "to", "status"} \subseteq DOMAIN r
BY Zenon DEF RowsOK

\* A certificate keeps its exits and its root when the L2 grows.
LEMMA ProcessContent ==
    ASSUME ContentInv, ProcessL2Block PROVE CertsOK' /\ RecordsOK' /\ DraftOK'
<1>1. UNCHANGED <<agglayer, certificate_info, snd>>
  BY Zenon DEF ProcessL2Block
<1>2. l2 \in Seq(Block)
  BY Zenon DEF ContentInv, Continues
<1>3. PICK b \in Block : l2' = Append(l2, b) /\ Len(l2') = Len(l2) + 1
  <2>1. reorgs \in 0 .. MaxReorgs
    BY Zenon DEF ContentInv, Continues
  <2> QED
    BY <1>2, <2>1 DEF ProcessL2Block, Block
<1>4. ASSUME NEW f \in Nat, NEW t \in Nat, 1 <= f, t <= Len(l2)
      PROVE  /\ BridgesOf(l2', f, t) = BridgesOf(l2, f, t)
             /\ ClaimsOf(l2', f, t) = ClaimsOf(l2, f, t)
  BY <1>2, <1>3, <1>4, RangeKept, Zenon
<1>5. /\ \A f, t : GetBridgesPublished(f, t) = BridgesOf(l2, f, t)
      /\ \A f, t : GetClaims(f, t) = ClaimsOf(l2, f, t)
      /\ \A f, t : GetBridgesPublished(f, t)' = BridgesOf(l2', f, t)
      /\ \A f, t : GetClaims(f, t)' = ClaimsOf(l2', f, t)
  BY Zenon DEF GetBridgesPublished, GetClaims, BridgesOf, ClaimsOf
<1>6. ASSUME NEW c, NEW f, NEW t, Carries(c, f, t) PROVE Carries(c, f, t)'
  <2>1. f \in Nat /\ t \in Nat /\ 1 <= f /\ t <= Len(l2) /\ 1 \in Nat /\ 1 <= 1 /\ Len(l2) \in Nat
    BY <1>2, <1>6 DEF Carries
  <2>2. BridgesOf(l2', f, t) = BridgesOf(l2, f, t) /\ BridgesOf(l2', 1, t) = BridgesOf(l2, 1, t)
    BY <1>4, <2>1, Zenon
  <2>3. t <= Len(l2')
    BY <1>3, <2>1
  <2> QED
    BY <1>5, <1>6, <2>2, <2>3, Zenon DEF Carries
<1>7. ASSUME NEW h, NEW f PROVE Covers(h, f)' = Covers(h, f)
  BY <1>1, Zenon DEF Covers
<1>8. \A c : Unsaved(c)' = Unsaved(c)
  BY <1>1, Zenon DEF Unsaved
<1>9. CertsOK'
  <2>1. 1 .. Len(l2) \subseteq 1 .. Len(l2')
    BY <1>2, <1>3
  <2> QED
    BY <1>1, <1>6, <1>7, <1>8, <2>1, Zenon DEF ContentInv, CertsOK
<1>10. ASSUME NEW f, NEW t, NEW c, Carries(c, f, t) PROVE GetClaims(f, t)' = GetClaims(f, t)
  BY <1>4, <1>5, <1>10, Zenon DEF Carries
<1>11. RecordsOK'
  BY <1>1, <1>6, <1>7, <1>8, <1>10, Zenon DEF ContentInv, RecordsOK
<1>12. DraftOK'
  <2>1. CASE snd.pc \in Preparing
    <3>1. PICK f, t, c : f = snd.from /\ t = snd.to /\ c = snd.cert
      BY Zenon
    <3>2. f \in Nat /\ t \in Nat /\ 1 <= f /\ t <= Len(l2)
      <4>1. IsLast(snd.last) /\ f = previousToBlock(snd.last) + 1 /\ t \in Nat /\ f <= t
        BY <2>1, <3>1, Zenon DEF ContentInv, Continues
      <4>2. previousToBlock(snd.last) \in Nat
        BY <4>1 DEF ContentInv, RowsOK, RangesTile, IsLast, NoInfo, previousToBlock
      <4> QED
        BY <2>1, <3>1, <4>1, <4>2 DEF ContentInv, DraftOK
    <3>3. /\ GetBridgesPublished(f, t)' = GetBridgesPublished(f, t)
          /\ GetBridgesPublished(1, t)' = GetBridgesPublished(1, t)
          /\ GetClaims(f, t)' = GetClaims(f, t)
      BY <1>4, <1>5, <3>2
    <3>4. Carries(c, f, t) => Carries(c, f, t)'
      BY <1>6, Zenon
    <3>5. t <= Len(l2')
      BY <1>2, <1>3, <3>2
    <3>6. snd' = snd /\ agglayer' = agglayer
      BY <1>1, Zenon
    <3>7. /\ f = snd'.from /\ t = snd'.to /\ c = snd'.cert
      BY <3>1, <3>6, Zenon
    <3> QED
      BY <3>1, <3>3, <3>4, <3>5, <3>6, <3>7, Zenon DEF ContentInv, DraftOK
  <2>2. CASE snd.pc \notin Preparing
    BY <1>1, <2>2, Zenon DEF DraftOK, Preparing
  <2> QED
    BY <2>1, <2>2, Zenon
<1> QED
  BY <1>9, <1>11, <1>12, Zenon

\* The AggLayer moves a certificate that is in flight: none of a lower row is.
LEMMA AggLayerContent ==
    ASSUME ContentInv, NEW c \in DOMAIN agglayer, Advance(c) \/ FailCertificate(c)
    PROVE  CertsOK' /\ RecordsOK' /\ DraftOK'
<1>1. UNCHANGED <<l2, certificate_info, snd>>
  BY Zenon DEF Advance, FailCertificate
<1>2. DOMAIN agglayer' = DOMAIN agglayer
  BY Zenon DEF Advance, FailCertificate
<1>3. ASSUME NEW d \in DOMAIN agglayer, agglayer[d] \in {"Settled", "InError"}
      PROVE  agglayer'[d] = agglayer[d]
  BY <1>3, Zenon DEF Advance, FailCertificate, InFlight
<1>4. /\ \A d, f, t : Carries(d, f, t)' = Carries(d, f, t)
      /\ \A h, f : Covers(h, f)' = Covers(h, f)
      /\ \A d : Unsaved(d)' = Unsaved(d)
      /\ \A f, t : GetClaims(f, t)' = GetClaims(f, t)
      /\ \A f, t : GetBridgesPublished(f, t)' = GetBridgesPublished(f, t)
  BY <1>1 DEF Carries, Covers, Unsaved, GetClaims, GetBridgesPublished
<1>5. CertsOK'
  BY <1>1, <1>2, <1>3, <1>4, Zenon DEF ContentInv, CertsOK
<1>6. RecordsOK'
  BY <1>1, <1>2, <1>3, <1>4, Zenon DEF ContentInv, RecordsOK
<1>7. DraftOK'
  <2>1. PICK x : x = snd
    BY Zenon
  <2> QED
    BY <1>1, <1>2, <1>4, <2>1, Zenon DEF ContentInv, DraftOK
<1> QED
  BY <1>5, <1>6, <1>7, Zenon

\* The steps of the sender that only read.
LEMMA ReadingContent ==
    ASSUME ContentInv, UNCHANGED <<l2, agglayer, certificate_info>>,
           snd.pc # "save", snd'.pc # "save"
    PROVE  CertsOK' /\ RecordsOK'
<1>1. /\ \A d, f, t : Carries(d, f, t)' = Carries(d, f, t)
      /\ \A h, f : Covers(h, f)' = Covers(h, f)
      /\ \A d : ~Unsaved(d) /\ ~Unsaved(d)'
      /\ \A f, t : GetClaims(f, t)' = GetClaims(f, t)
  BY DEF Carries, Covers, Unsaved, GetClaims, GetBridgesPublished
<1> QED
  BY <1>1, Zenon DEF ContentInv, CertsOK, RecordsOK

\* The preparation of a certificate.
LEMMA DraftStep ==
    ASSUME ContentInv,
           \/ ReceiveEpoch \/ ChooseRange \/ GetBridges \/ ReadClaims \/ BuildCertificate \/ GiveUp
    PROVE  CertsOK' /\ RecordsOK' /\ DraftOK'
<1>1. UNCHANGED <<l2, agglayer, certificate_info>> /\ snd.pc # "save" /\ DOMAIN snd = DOMAIN Idle
  BY Zenon DEF ReceiveEpoch, ChooseRange, GetBridges, ReadClaims, BuildCertificate, GiveUp, world,
         ContentInv, Continues
<1>2. ASSUME snd'.pc \in {"idle", "check", "send"} PROVE CertsOK' /\ RecordsOK' /\ DraftOK'
  <2>1. CertsOK' /\ RecordsOK'
    BY <1>1, <1>2, ReadingContent, Zenon
  <2> QED
    BY <1>2, <2>1, Zenon DEF DraftOK, Preparing
<1>3. /\ \A d, f, t : Carries(d, f, t)' = Carries(d, f, t)
      /\ \A f, t : GetClaims(f, t)' = GetClaims(f, t)
      /\ \A f, t : GetBridgesPublished(f, t)' = GetBridgesPublished(f, t)
  BY <1>1 DEF Carries, GetClaims, GetBridgesPublished
<1>4. CASE ReceiveEpoch \/ GiveUp
  <2>1. snd'.pc \in {"idle", "check", "send"}
    <3>1. CASE ReceiveEpoch
      BY <3>1, Zenon DEF ReceiveEpoch, Idle
    <3>2. CASE GiveUp
      BY <3>2, Zenon DEF GiveUp, Idle
    <3> QED
      BY <1>4, <3>1, <3>2, Zenon
  <2> QED
    BY <1>2, <2>1, Zenon
<1>5. CASE ChooseRange
  <2>1. CASE snd' = Idle
    BY <1>2, <2>1, Zenon DEF Idle
  <2>2. CASE snd'.pc = "bridges" /\ snd'.to = Len(l2)
    <3>1. CertsOK' /\ RecordsOK'
      BY <1>1, <2>2, ReadingContent, Zenon
    <3>2. Len(l2') \in Nat /\ Len(l2') = Len(l2)
      BY <1>1 DEF ContentInv, Continues
    <3> QED
      BY <2>2, <3>1, <3>2 DEF DraftOK, Preparing
  <2> QED
    BY <1>5, <2>1, <2>2, Zenon DEF ChooseRange, Idle, GetLastProcessedBlock
<1>6. CASE GetBridges
  <2>1. CASE snd' = Idle
    BY <1>2, <2>1, Zenon DEF Idle
  <2>2. CASE snd' = [snd EXCEPT !.pc = "claims", !.bridges = GetBridgesPublished(snd.from, snd.to),
                                !.count = Cardinality(GetBridgesPublished(1, snd.to))]
    <3>1. /\ snd'.pc = "claims" /\ snd'.from = snd.from /\ snd'.to = snd.to
          /\ snd'.bridges = GetBridgesPublished(snd.from, snd.to)
          /\ snd'.count = Cardinality(GetBridgesPublished(1, snd.to))
      BY <1>1, <2>2, Zenon DEF Idle
    <3>2. snd'.to <= Len(l2')
      BY <1>1, <1>6, <3>1, Zenon DEF GetBridges, ContentInv, DraftOK, Preparing
    <3>3. CertsOK' /\ RecordsOK'
      BY <1>1, <3>1, ReadingContent, Zenon
    <3>4. PICK x : x = snd'
      BY Zenon
    <3> QED
      BY <1>3, <3>1, <3>2, <3>3, <3>4, Zenon DEF DraftOK, Preparing
  <2> QED
    BY <1>6, <2>1, <2>2, Zenon DEF GetBridges
<1>7. CASE ReadClaims
  <2>1. CASE snd' = Idle
    BY <1>2, <2>1, Zenon DEF Idle
  <2>2. CASE snd' = [snd EXCEPT !.pc = "root", !.claims = GetClaims(snd.from, snd.to)]
    <3>1. /\ snd'.pc = "root" /\ snd'.from = snd.from /\ snd'.to = snd.to
          /\ snd'.bridges = snd.bridges /\ snd'.count = snd.count
          /\ snd'.claims = GetClaims(snd.from, snd.to)
      BY <1>1, <2>2, Zenon DEF Idle
    <3>2. /\ snd'.to <= Len(l2') /\ snd.bridges = GetBridgesPublished(snd.from, snd.to)
          /\ snd.count = Cardinality(GetBridgesPublished(1, snd.to))
      BY <1>1, <1>7, <3>1, Zenon DEF ReadClaims, ContentInv, DraftOK, Preparing
    <3>3. CertsOK' /\ RecordsOK'
      BY <1>1, <3>1, ReadingContent, Zenon
    <3>4. PICK x : x = snd'
      BY Zenon
    <3> QED
      BY <1>3, <3>1, <3>2, <3>3, <3>4, Zenon DEF DraftOK, Preparing
  <2> QED
    BY <1>7, <2>1, <2>2, Zenon DEF ReadClaims
<1>8. CASE BuildCertificate
  <2>1. CASE snd' = Idle
    BY <1>2, <2>1, Zenon DEF Idle
  <2> DEFINE next == getNextHeightAndPreviousLER(snd.last)
             cert == [height |-> next.height, prev |-> next.prev,
                      new |-> GetExitRootByIndex(snd.count),
                      bridges |-> snd.bridges, claims |-> snd.claims]
  <2>2. CASE snd' = [snd EXCEPT !.pc = "submit", !.cert = cert]
    <3>1. /\ snd'.pc = "submit" /\ snd'.from = snd.from /\ snd'.to = snd.to
          /\ snd'.bridges = snd.bridges /\ snd'.count = snd.count /\ snd'.claims = snd.claims
          /\ snd'.cert.new = GetExitRootByIndex(snd.count)
          /\ snd'.cert.bridges = snd.bridges /\ snd'.cert.claims = snd.claims
      BY <1>1, <2>2, Zenon DEF Idle
    <3>2. /\ snd'.to <= Len(l2') /\ snd.bridges = GetBridgesPublished(snd.from, snd.to)
          /\ snd.count = Cardinality(GetBridgesPublished(1, snd.to))
          /\ snd.claims = GetClaims(snd.from, snd.to) /\ snd.to <= Len(l2)
      BY <1>1, <1>8, <3>1, Zenon DEF BuildCertificate, ContentInv, DraftOK, Preparing
    <3>3. CertsOK' /\ RecordsOK'
      BY <1>1, <3>1, ReadingContent, Zenon
    <3>4. snd.from \in Nat /\ snd.to \in Nat /\ 1 <= snd.from /\ snd.from <= snd.to
      <4>1. IsLast(snd.last) /\ snd.from = previousToBlock(snd.last) + 1
            /\ snd.to \in Nat /\ snd.from <= snd.to
        BY <1>8, Zenon DEF BuildCertificate, ContentInv, Continues, Preparing
      <4>2. previousToBlock(snd.last) \in Nat
        BY <4>1 DEF ContentInv, RowsOK, RangesTile, IsLast, NoInfo, previousToBlock
      <4> QED
        BY <4>1, <4>2
    <3>5. GetExitRootByIndex(snd.count) = GetBridgesPublished(1, snd.to)
      <4>1. l2 \in Seq(Block)
        BY Zenon DEF ContentInv, Continues
      <4> QED
        BY <3>2, <3>4, <4>1, RootOfCount, Zenon
    <3>6. Carries(snd'.cert, snd'.from, snd'.to)
      BY <3>1, <3>2, <3>4, <3>5, Zenon DEF Carries
    <3>7. PICK x : x = snd'
      BY Zenon
    <3> QED
      BY <1>3, <3>1, <3>2, <3>3, <3>6, <3>7, Zenon DEF DraftOK, Preparing
  <2> QED
    BY <1>8, <2>1, <2>2, Zenon DEF BuildCertificate
<1> QED
  BY <1>4, <1>5, <1>6, <1>7, <1>8, Zenon

\* Checking a certificate gives its row the status the AggLayer has for it.
LEMMA CheckContent ==
    ASSUME ContentInv, CheckCertificate PROVE CertsOK' /\ RecordsOK' /\ DraftOK'
<1>1. PICK k \in snd.todo :
         certificate_info' =
             {IF q.cert = k.cert THEN [q EXCEPT !.status = agglayer[k.cert]] ELSE q :
                 q \in certificate_info}
  BY Zenon DEF CheckCertificate, UpdateCertificateStatus
<1> DEFINE New(q) == IF q.cert = k.cert THEN [q EXCEPT !.status = agglayer[k.cert]] ELSE q
<1>2. ASSUME NEW q \in certificate_info
      PROVE  /\ New(q).height = q.height /\ New(q).from = q.from /\ New(q).to = q.to
             /\ New(q).cert = q.cert
             /\ New(q).status = q.status \/ New(q).status = agglayer[q.cert]
  BY <1>2, RowTypes, Zenon DEF ContentInv
<1>3. /\ \A q \in certificate_info : New(q) \in certificate_info'
      /\ \A s \in certificate_info' : \E q \in certificate_info : s = New(q)
  BY <1>1, Zenon
<1>4. UNCHANGED <<l2, agglayer>> /\ snd.pc = "check" /\ snd'.pc \in {"idle", "check", "send"}
  BY DEF CheckCertificate, world, Idle
<1> HIDE DEF New
<1>5. /\ \A d, f, t : Carries(d, f, t)' = Carries(d, f, t)
      /\ \A d : ~Unsaved(d) /\ ~Unsaved(d)'
      /\ \A f, t : GetClaims(f, t)' = GetClaims(f, t)
  BY <1>4 DEF Carries, Unsaved, GetClaims, GetBridgesPublished
<1>6. ASSUME NEW h, NEW f, Covers(h, f) PROVE Covers(h, f)'
  BY <1>2, <1>3, <1>6, ZenonT(30) DEF Covers
<1>7. CertsOK'
  <2>1. ASSUME NEW c \in DOMAIN agglayer
        PROVE  /\ \E r \in certificate_info' : c.height <= r.height
               /\ (\E r \in certificate_info' : r.cert = c) \/ agglayer[c] = "InError"
    BY <1>2, <1>3, <1>5 DEF ContentInv, CertsOK
  <2> QED
    BY <1>4, <1>5, <1>6, <2>1, Zenon DEF ContentInv, CertsOK
<1>8. RecordsOK'
  <2> SUFFICES ASSUME NEW s \in certificate_info'
               PROVE  /\ s.status \in Status
                      /\ s.cert \in DOMAIN agglayer' /\ s.cert.height = s.height
                      /\ Carries(s.cert, s.from, s.to)' /\ Covers(s.height, s.from)'
                      /\ s.cert.claims = GetClaims(s.from, s.to)'
                      /\ s.status = "Settled" => agglayer'[s.cert] = "Settled"
                      /\ s.status = "InError" => agglayer'[s.cert] = "InError"
                      /\ \A q \in certificate_info' :
                            s.height < q.height => agglayer'[s.cert] = "Settled"
    BY Zenon DEF RecordsOK
  <2>1. PICK r \in certificate_info : s = New(r)
    BY <1>3, Zenon
  <2>2. r.cert \in DOMAIN agglayer /\ agglayer[r.cert] \in Status
    BY Zenon DEF ContentInv, RecordsOK, Recorded
  <2>3. s.status \in Status /\ (s.status = r.status \/ s.status = agglayer[r.cert])
    BY <1>2, <2>1, <2>2, Zenon DEF ContentInv, RecordsOK
  <2>4. \A q \in certificate_info' : s.height < q.height => agglayer[r.cert] = "Settled"
    BY <1>2, <1>3, <2>1 DEF ContentInv, RecordsOK
  <2>5. s.cert = r.cert /\ s.height = r.height /\ s.from = r.from /\ s.to = r.to
    BY <1>2, <2>1, Zenon
  <2>6. Carries(s.cert, s.from, s.to)' /\ Covers(s.height, s.from)'
    BY <1>5, <1>6, <2>5, Zenon DEF ContentInv, RecordsOK
  <2> QED
    BY <1>4, <1>5, <2>2, <2>3, <2>4, <2>5, <2>6, Zenon DEF ContentInv, RecordsOK
<1>9. DraftOK'
  BY <1>4, Zenon DEF DraftOK, Preparing
<1> QED
  BY <1>7, <1>8, <1>9, Zenon

\* From the choice of a range to the save, the last row has settled or failed; the
\* height and the range under preparation continue the rows below.
LEMMA DraftContinues ==
    ASSUME ContentInv, snd.pc \in {"submit", "save"}
    PROVE  /\ snd.cert.height \in Nat /\ Covers(snd.cert.height, snd.from)
           /\ snd.from \in 1 .. Len(l2) /\ snd.to \in 1 .. Len(l2) /\ snd.from <= snd.to
           /\ \A r \in certificate_info :
                 /\ r.height <= snd.cert.height
                 /\ r.height < snd.cert.height => agglayer[r.cert] = "Settled"
                 /\ r.height = snd.cert.height => r.status = "InError"
           /\ \A c \in DOMAIN agglayer : c.height <= snd.cert.height
<1> DEFINE last == snd.last
           rows == certificate_info
           h    == snd.cert.height
<1>1. /\ IsLast(last) /\ snd.from = previousToBlock(last) + 1
      /\ snd.to \in Nat /\ snd.from <= snd.to /\ snd.to <= Len(l2) /\ Len(l2) \in Nat
      /\ h = getNextHeightAndPreviousLER(last).height
      /\ \A r \in rows : r.status \notin nonSettledStatuses
  BY DEF ContentInv, Continues, DraftOK, Recorded, Preparing
<1>2. \A r \in rows : /\ r.height \in Nat /\ r.from \in Nat /\ r.to \in Nat /\ r.from >= 1
                      /\ r.status \in {"InError", "Settled"} /\ r.from <= r.to
                      /\ r.ler # NoRoot
  BY <1>1 DEF ContentInv, RowsOK, RangesTile, RecordsOK, Status, nonSettledStatuses
<1>3. CASE rows = {}
  <2>1. last = NoInfo
    BY <1>1, <1>3, Zenon DEF IsLast
  <2>2. h = 0 /\ snd.from = 1
    BY <1>1, <2>1 DEF NoInfo, previousToBlock, getNextHeightAndPreviousLER
  <2>3. Covers(h, snd.from)
    BY <1>3, <2>2 DEF Covers
  <2>4. \A c \in DOMAIN agglayer : c.height <= h
    BY <1>3, <2>2 DEF ContentInv, CertsOK, Unsaved
  <2> QED
    BY <1>1, <1>3, <2>2, <2>3, <2>4
<1>4. CASE rows # {}
  <2>1. last \in rows /\ \A q \in rows : q.height <= last.height
    BY <1>1, <1>4, Zenon DEF IsLast
  <2>2. \A q \in rows : q.height = last.height => q = last
    BY <2>1, Zenon DEF ContentInv, RowsOK, RangesTile
  <2>3. /\ Covers(last.height, last.from)
        /\ \A r \in rows : r.height < last.height => agglayer[r.cert] = "Settled"
        /\ last.status = "Settled" => agglayer[last.cert] = "Settled"
    BY <2>1, Zenon DEF ContentInv, RecordsOK
  <2>4. CASE last.status = "InError"
    <3>1. h = last.height /\ snd.from = last.from
      BY <1>1, <1>2, <2>1, <2>4 DEF previousToBlock, getNextHeightAndPreviousLER
    <3>2. \A c \in DOMAIN agglayer : c.height <= h
      BY <1>2, <2>1, <3>1 DEF ContentInv, CertsOK, Unsaved
    <3> HIDE DEF last, rows
    <3> QED
      BY <1>1, <1>2, <2>1, <2>2, <2>3, <2>4, <3>1, <3>2 DEF rows
  <2>5. CASE last.status = "Settled"
    <3>1. h = last.height + 1 /\ snd.from = last.to + 1
      BY <1>1, <1>2, <2>1, <2>5, Zenon DEF previousToBlock, getNextHeightAndPreviousLER
    <3>2. \A c \in DOMAIN agglayer : c.height <= h
      BY <1>2, <2>1, <3>1 DEF ContentInv, CertsOK, Unsaved
    <3>3. Covers(last.height + 1, last.to + 1)
      <4>1. ASSUME NEW r \in rows PROVE r.to < last.to + 1
        BY <1>2, <2>1, <2>2, <2>3, <4>1 DEF Covers
      <4>2. ASSUME NEW n \in 1 .. last.to
            PROVE  \E r \in rows : r.height < last.height + 1 /\ r.from <= n /\ n <= r.to
        BY <1>2, <2>1, <2>3, <4>2 DEF Covers
      <4> QED
        BY <1>2, <2>1, <4>1, <4>2 DEF Covers
    <3> HIDE DEF last, rows
    <3>4. \A r \in rows : r.height < h /\ r.height <= h /\ r.height # h
      BY <1>2, <2>1, <3>1
    <3>5. \A r \in rows : r.height < last.height \/ r = last
      BY <1>2, <2>1, <2>2
    <3>6. \A r \in rows : agglayer[r.cert] = "Settled"
      BY <2>3, <2>5, <3>5, Zenon
    <3>7. h \in Nat /\ snd.from \in 1 .. Len(l2) /\ snd.to \in 1 .. Len(l2)
      BY <1>1, <1>2, <2>1, <3>1
    <3> QED
      BY <1>1, <3>1, <3>2, <3>3, <3>4, <3>6, <3>7, Zenon DEF rows
  <2> QED
    BY <1>2, <2>1, <2>4, <2>5, Zenon
<1> QED
  BY <1>3, <1>4, Zenon

\* An accepted certificate takes the place of a failed one, if of any.
LEMMA SendContent ==
    ASSUME ContentInv, SendCertificate PROVE CertsOK' /\ RecordsOK' /\ DraftOK'
<1> DEFINE cert == snd.cert
<1>1. /\ UNCHANGED <<l2, certificate_info>> /\ snd.pc = "submit"
      /\ DOMAIN snd = DOMAIN Idle
  BY Zenon DEF SendCertificate, world, ContentInv, Continues
<1>2. /\ DOMAIN agglayer' = DOMAIN agglayer \cup {cert}
      /\ agglayer'[cert] = "Pending"
      /\ \A d \in DOMAIN agglayer : d # cert => agglayer'[d] = agglayer[d]
      /\ \A d \in DOMAIN agglayer : d.height = cert.height => agglayer[d] = "InError"
  BY Zenon DEF SendCertificate, Accepts
<1>3. /\ snd'.pc = "save" /\ snd'.cert = cert /\ snd'.from = snd.from /\ snd'.to = snd.to
      /\ snd'.bridges = snd.bridges /\ snd'.count = snd.count /\ snd'.claims = snd.claims
  BY <1>1, Zenon DEF SendCertificate, Idle
<1>4. /\ \A d, f, t : Carries(d, f, t)' = Carries(d, f, t)
      /\ \A h, f : Covers(h, f)' = Covers(h, f)
      /\ \A f, t : GetClaims(f, t)' = GetClaims(f, t)
      /\ \A f, t : GetBridgesPublished(f, t)' = GetBridgesPublished(f, t)
  BY <1>1 DEF Carries, Covers, GetClaims, GetBridgesPublished
<1>5. \A d : ~Unsaved(d) /\ (Unsaved(d)' <=> d = cert)
  BY <1>1, <1>3, Zenon DEF Unsaved
<1>6. /\ cert.height \in Nat /\ Covers(cert.height, snd.from)
      /\ snd.from \in 1 .. Len(l2) /\ snd.to \in 1 .. Len(l2)
      /\ Carries(cert, snd.from, snd.to)
  BY <1>1, DraftContinues, Zenon DEF ContentInv, DraftOK
<1>7. CertsOK'
  <2>1. ASSUME NEW c \in DOMAIN agglayer'
        PROVE  /\ c.height \in Nat
               /\ \E f, t \in 1 .. Len(l2) : Carries(c, f, t) /\ Covers(c.height, f)
               /\ (\E r \in certificate_info : c.height <= r.height) \/ c = cert
               /\ (\E r \in certificate_info : r.cert = c) \/ c = cert \/ agglayer'[c] = "InError"
    <3>1. CASE c = cert
      BY <1>6, <3>1, Zenon
    <3>2. CASE c # cert
      BY <1>2, <1>5, <3>2, Zenon DEF ContentInv, CertsOK
    <3> QED
      BY <3>1, <3>2, Zenon
  <2> QED
    BY <1>1, <1>4, <1>5, <2>1, Zenon DEF CertsOK
<1>8. RecordsOK'
  <2>1. ASSUME NEW r \in certificate_info, r.cert = cert
        PROVE  r.status # "Settled" /\ \A q \in certificate_info : ~(r.height < q.height)
    BY <1>2, <2>1, Zenon DEF ContentInv, RecordsOK
  <2>2. ASSUME NEW r \in certificate_info
        PROVE  /\ r.cert \in DOMAIN agglayer'
               /\ r.status = "Settled" => agglayer'[r.cert] = "Settled"
               /\ r.status = "InError" => agglayer'[r.cert] = "InError" \/ r.cert = cert
               /\ \A q \in certificate_info : r.height < q.height => agglayer'[r.cert] = "Settled"
    BY <1>2, <1>5, <2>1, ZenonT(30) DEF ContentInv, RecordsOK
  <2> QED
    BY <1>1, <1>4, <1>5, <2>2, ZenonT(30) DEF ContentInv, RecordsOK
<1>9. DraftOK'
  <2>1. PICK x : x = snd'
    BY Zenon
  <2> QED
    BY <1>1, <1>2, <1>3, <1>4, <2>1, Zenon DEF ContentInv, DraftOK, Preparing
<1> QED
  BY <1>7, <1>8, <1>9, Zenon

\* The saved row takes the place of the failed one of its height, if there is one.
LEMMA SaveContent ==
    ASSUME ContentInv, SaveLastSentCertificate PROVE CertsOK' /\ RecordsOK' /\ DraftOK'
<1> DEFINE cert == snd.cert
           rows == certificate_info
           row  == [height |-> cert.height, cert |-> cert, ler |-> cert.new,
                    from |-> snd.from, to |-> snd.to, status |-> "Pending"]
<1>1. snd.pc = "save" /\ snd'.pc = "idle" /\ UNCHANGED <<l2, agglayer>>
  BY Zenon DEF SaveLastSentCertificate, Idle, world
<1>2. certificate_info' = {r \in rows : r.height # cert.height} \cup {row}
  BY Zenon DEF SaveLastSentCertificate
<1>3. /\ row.height = cert.height /\ row.from = snd.from /\ row.to = snd.to
      /\ row.cert = cert /\ row.status = "Pending"
  BY Zenon
<1> HIDE DEF row
<1>4. /\ \A d, f, t : Carries(d, f, t)' = Carries(d, f, t)
      /\ \A d : Unsaved(d) <=> d = cert
      /\ \A d : ~Unsaved(d)'
      /\ \A f, t : GetClaims(f, t)' = GetClaims(f, t)
  BY <1>1 DEF Carries, Unsaved, GetClaims, GetBridgesPublished
<1>5. /\ cert.height \in Nat /\ Covers(cert.height, snd.from)
      /\ \A r \in rows :
            /\ r.height <= cert.height
            /\ r.height < cert.height => agglayer[r.cert] = "Settled"
            /\ r.height = cert.height => r.status = "InError"
      /\ \A c \in DOMAIN agglayer : c.height <= cert.height
  BY <1>1, DraftContinues, Zenon
<1>6. /\ Carries(cert, snd.from, snd.to) /\ cert.claims = GetClaims(snd.from, snd.to)
      /\ cert \in DOMAIN agglayer
  BY <1>1, Zenon DEF ContentInv, DraftOK
<1>7. \A r \in rows : r.height \in Nat
  BY Zenon DEF ContentInv, RowsOK
<1>8. ASSUME NEW h \in Nat, NEW f, h <= cert.height, Covers(h, f) PROVE Covers(h, f)'
  <2>1. ASSUME NEW s \in certificate_info', s.height < h PROVE s.to < f
    BY <1>2, <1>3, <1>5, <1>8, <2>1 DEF Covers
  <2>2. ASSUME NEW n \in 1 .. f - 1
        PROVE  \E s \in certificate_info' : s.height < h /\ s.from <= n /\ n <= s.to
    <3>1. PICK r \in rows : r.height < h /\ r.from <= n /\ n <= r.to
      BY <1>8, <2>2, Zenon DEF Covers
    <3>2. r \in certificate_info'
      BY <1>2, <1>5, <1>7, <1>8, <3>1
    <3> QED
      BY <3>1, <3>2, Zenon
  <2> QED
    BY <2>1, <2>2, Zenon DEF Covers
<1>9. CertsOK'
  <2>1. ASSUME NEW c \in DOMAIN agglayer
        PROVE  /\ c.height \in Nat
               /\ \E f, t \in 1 .. Len(l2) : Carries(c, f, t) /\ Covers(c.height, f)'
               /\ \E s \in certificate_info' : c.height <= s.height
               /\ (\E s \in certificate_info' : s.cert = c) \/ agglayer[c] = "InError"
    <3>1. c.height \in Nat /\ c.height <= cert.height
      BY <1>5, Zenon DEF ContentInv, CertsOK
    <3>2. \E f, t \in 1 .. Len(l2) : Carries(c, f, t) /\ Covers(c.height, f)'
      BY <1>8, <3>1, Zenon DEF ContentInv, CertsOK
    <3>3. \E s \in certificate_info' : c.height <= s.height
      BY <1>2, <1>3, <3>1, Zenon
    <3>4. (\E s \in certificate_info' : s.cert = c) \/ agglayer[c] = "InError"
      <4>1. CASE c = cert
        BY <1>2, <1>3, <4>1, Zenon
      <4>2. CASE c # cert /\ agglayer[c] # "InError"
        <5>1. PICK r \in rows : r.cert = c
          BY <1>4, <4>2, Zenon DEF ContentInv, CertsOK
        <5>2. r.height # cert.height
          BY <1>4, <1>5, <4>2, <5>1, Zenon DEF ContentInv, RecordsOK
        <5> QED
          BY <1>2, <5>1, <5>2, Zenon
      <4> QED
        BY <4>1, <4>2, Zenon
    <3> QED
      BY <3>1, <3>2, <3>3, <3>4, Zenon
  <2> QED
    BY <1>1, <1>4, <2>1, Zenon DEF CertsOK
<1>10. RecordsOK'
  <2> SUFFICES ASSUME NEW s \in certificate_info'
               PROVE  /\ s.status \in Status
                      /\ s.cert \in DOMAIN agglayer' /\ s.cert.height = s.height
                      /\ Carries(s.cert, s.from, s.to)' /\ Covers(s.height, s.from)'
                      /\ s.cert.claims = GetClaims(s.from, s.to)'
                      /\ s.status = "Settled" => agglayer'[s.cert] = "Settled"
                      /\ s.status = "InError" => agglayer'[s.cert] = "InError"
                      /\ \A q \in certificate_info' :
                            s.height < q.height => agglayer'[s.cert] = "Settled"
    BY Zenon DEF RecordsOK
  <2>1. \A q \in certificate_info' : q.height <= cert.height
    BY <1>2, <1>3, <1>5
  <2>2. CASE s = row
    <3>1. \A q \in certificate_info' : ~(s.height < q.height)
      BY <1>2, <1>3, <1>5, <1>7, <2>2
    <3>2. Covers(s.height, s.from)'
      BY <1>3, <1>5, <1>8, <2>2
    <3> QED
      BY <1>1, <1>3, <1>4, <1>6, <2>2, <3>1, <3>2, Zenon DEF Status
  <2>3. CASE s \in rows /\ s.height # cert.height
    <3>1. s.height \in Nat /\ s.height < cert.height
      BY <1>5, <1>7, <2>3
    <3>2. agglayer[s.cert] = "Settled" /\ ~(s.status = "InError" /\ s.cert = cert)
      BY <1>5, <2>3, <3>1, Zenon DEF ContentInv, RecordsOK
    <3>3. Covers(s.height, s.from)'
      BY <1>5, <1>8, <2>3, <3>1, Zenon DEF ContentInv, RecordsOK
    <3> QED
      BY <1>1, <1>4, <2>3, <3>1, <3>2, <3>3, Zenon DEF ContentInv, RecordsOK
  <2> QED
    BY <1>2, <2>2, <2>3, Zenon
<1>11. DraftOK'
  BY <1>1, Zenon DEF DraftOK, Preparing
<1> QED
  BY <1>9, <1>10, <1>11, Zenon

\* Every step keeps the whole invariant when the L2 is not rolled back and no
\* accepted certificate may be lost.
LEMMA StepContent ==
    ASSUME MaxReorgs = 0, MaxLost = 0, ContentInv, [Next]_vars PROVE ContentInv'
<1>1. Recorded' /\ RowsOK' /\ Continues'
  BY StepRecorded, StepTile, Zenon DEF ContentInv
<1>2. CertsOK' /\ RecordsOK' /\ DraftOK'
  <2>1. CASE UNCHANGED vars
    <3>1. UNCHANGED <<l2, agglayer, certificate_info, snd>>
      BY <2>1, Zenon DEF vars
    <3>2. /\ \A d, f, t : Carries(d, f, t)' = Carries(d, f, t)
          /\ \A h, f : Covers(h, f)' = Covers(h, f)
          /\ \A d : Unsaved(d)' = Unsaved(d)
          /\ \A f, t : GetClaims(f, t)' = GetClaims(f, t)
          /\ \A f, t : GetBridgesPublished(f, t)' = GetBridgesPublished(f, t)
      BY <3>1 DEF Carries, Covers, Unsaved, GetClaims, GetBridgesPublished
    <3>3. CertsOK' /\ RecordsOK'
      BY <3>1, <3>2, Zenon DEF ContentInv, CertsOK, RecordsOK
    <3>4. PICK x : x = snd
      BY Zenon
    <3>5. DraftOK'
      BY <3>1, <3>2, <3>4, Zenon DEF ContentInv, DraftOK
    <3> QED
      BY <3>3, <3>5, Zenon
  <2>2. ASSUME NEW n \in 1 .. MaxL2Block, ReorgL2(n) PROVE FALSE
    BY <2>2 DEF ReorgL2, ContentInv, Continues
  <2>3. CASE LoseCertificate
    BY <2>3 DEF LoseCertificate, ContentInv, Recorded
  <2> QED
    BY <2>1, <2>2, <2>3, ProcessContent, AggLayerContent, DraftStep, CheckContent, SendContent,
       SaveContent, Zenon DEF Next, Syncer, AggLayer, Sender
<1> QED
  BY <1>1, <1>2, Zenon DEF ContentInv

\* What is settled below the height of a certificate is what the blocks below its
\* range published.
LEMMA SettledBefore ==
    ASSUME ContentInv, NEW c \in DOMAIN agglayer, NEW f \in Nat, 1 <= f,
           NEW t \in Nat, Carries(c, f, t), Covers(c.height, f)
    PROVE  ExitsIn(SettledBelow(c.height)) = GetBridgesPublished(1, f - 1)
<1>1. ASSUME NEW e \in GetBridgesPublished(1, f - 1) PROVE e \in ExitsIn(SettledBelow(c.height))
  <2>1. PICK n \in 1 .. f - 1 : l2[n].bridge /\ e = <<n, l2[n].fork>>
    BY Zenon DEF GetBridgesPublished
  <2>2. PICK r \in certificate_info : r.height < c.height /\ r.from <= n /\ n <= r.to
    BY Zenon DEF Covers
  <2>3. r.cert \in DOMAIN agglayer /\ r.cert.height < c.height /\ e \in r.cert.bridges
    <3>1. Carries(r.cert, r.from, r.to) /\ r.cert \in DOMAIN agglayer /\ r.cert.height = r.height
      BY Zenon DEF ContentInv, RecordsOK
    <3> QED
      BY <2>1, <2>2, <3>1 DEF Carries, GetBridgesPublished
  <2>4. agglayer[r.cert] = "Settled"
    <3>1. CASE \E q \in certificate_info : c.height <= q.height
      <4>1. PICK q \in certificate_info : c.height <= q.height
        BY <3>1, Zenon
      <4>2. r.height \in Nat /\ q.height \in Nat /\ c.height \in Nat
        BY RowTypes, Zenon DEF ContentInv, CertsOK
      <4> QED
        BY <2>2, <4>1, <4>2 DEF ContentInv, RecordsOK
    <3>2. CASE Unsaved(c)
      BY <2>2, <3>2, DraftContinues, Zenon DEF Unsaved
    <3> QED
      BY <3>1, <3>2, Zenon DEF ContentInv, CertsOK
  <2> QED
    BY <2>3, <2>4, Zenon DEF ExitsIn, SettledBelow
<1>2. ASSUME NEW e \in ExitsIn(SettledBelow(c.height)) PROVE e \in GetBridgesPublished(1, f - 1)
  <2>1. PICK d \in DOMAIN agglayer : agglayer[d] = "Settled" /\ d.height < c.height /\ e \in d.bridges
    BY Zenon DEF ExitsIn, SettledBelow
  <2>2. ~Unsaved(d)
    <3>1. ASSUME Unsaved(d) PROVE FALSE
      <4>1. c.height <= d.height /\ d.height \in Nat /\ c.height \in Nat
        BY <3>1, DraftContinues, Zenon DEF Unsaved, ContentInv, CertsOK
      <4> QED
        BY <2>1, <4>1
    <3> QED
      BY <3>1, Zenon
  <2>3. PICK r \in certificate_info : r.cert = d
    BY <2>1, <2>2, Zenon DEF ContentInv, CertsOK
  <2>4. Carries(d, r.from, r.to) /\ d.height = r.height
    BY <2>3, Zenon DEF ContentInv, RecordsOK
  <2>5. r.to < f /\ r.to \in Nat
    <3>1. r.to \in Nat
      BY RowTypes, Zenon DEF ContentInv
    <3> QED
      BY <2>1, <2>4, <3>1, Zenon DEF Covers
  <2> QED
    BY <2>1, <2>4, <2>5 DEF Carries, GetBridgesPublished
<1> QED
  BY <1>1, <1>2, Zenon

\* The invariant says what ContentMatches says.
LEMMA ContentFollows == ContentInv => ContentMatches
<1> SUFFICES ASSUME ContentInv PROVE ContentMatches
  BY Zenon
<1>1. ASSUME NEW c \in DOMAIN agglayer
      PROVE  /\ c.bridges \cap ExitsIn(SettledBelow(c.height)) = {}
             /\ c.new = ExitsIn(SettledBelow(c.height)) \cup c.bridges
  <2>1. PICK f, t \in 1 .. Len(l2) : Carries(c, f, t) /\ Covers(c.height, f)
    BY Zenon DEF ContentInv, CertsOK
  <2>2. f \in Nat /\ t \in Nat /\ 1 <= f /\ f <= t
    BY <2>1, Zenon DEF Carries
  <2>3. ExitsIn(SettledBelow(c.height)) = GetBridgesPublished(1, f - 1)
    BY <2>1, <2>2, SettledBefore, Zenon
  <2> QED
    BY <2>1, <2>2, <2>3 DEF Carries, GetBridgesPublished
<1>2. \A r \in certificate_info : r.cert.claims = GetClaims(r.from, r.to)
  BY Zenon DEF ContentInv, RecordsOK
<1> QED
  BY <1>1, <1>2, Zenon DEF ContentMatches

\* The invariant holds throughout.
LEMMA ContentAlways == ASSUME MaxReorgs = 0, MaxLost = 0 PROVE Spec => []ContentInv
<1>1. Init => ContentInv
  BY InitRecorded, InitTile, InitContent, Zenon DEF ContentInv
<1>2. ContentInv /\ [Next]_vars => ContentInv'
  BY StepContent, Zenon
<1> QED
  BY <1>1, <1>2, PTL DEF Spec

\* Every certificate the AggLayer has accepted carries exactly the exits and the
\* claims of its blocks, and its local exit root is the one the AggLayer computes
\* from what is settled, however often certificates fail and are built again.
THEOREM CertificatesMatch ==
    ASSUME MaxReorgs = 0, MaxLost = 0 PROVE Spec => []ContentMatches
BY ContentAlways, ContentFollows, PTL

\* What is settled is part of what is published, and complete up to its last exit.
SettledPrefix ==
    /\ SettledExits \subseteq AllExits
    /\ \A d \in AllExits, e \in SettledExits : d[1] <= e[1] => d \in SettledExits

\* The certificates settle the exits in order.
LEMMA SettledIsPrefix == ContentInv => SettledPrefix
<1> SUFFICES ASSUME ContentInv PROVE SettledPrefix
  BY Zenon
<1>1. ASSUME NEW e \in SettledExits
      PROVE  e \in AllExits /\ \A d \in AllExits : d[1] <= e[1] => d \in SettledExits
  <2>1. PICK c \in DOMAIN agglayer : agglayer[c] = "Settled" /\ e \in c.bridges
    BY Zenon DEF SettledExits, ExitsIn
  <2>2. PICK f, t \in 1 .. Len(l2) : Carries(c, f, t) /\ Covers(c.height, f)
    BY Zenon DEF ContentInv, CertsOK
  <2>3. f \in Nat /\ t \in Nat /\ 1 <= f /\ f <= t /\ t <= Len(l2) /\ Len(l2) \in Nat
    BY <2>2 DEF Carries, ContentInv, Continues
  <2>4. PICK n \in f .. t : l2[n].bridge /\ e = <<n, l2[n].fork>>
    BY <2>1, <2>2, Zenon DEF Carries, GetBridgesPublished
  <2>5. e \in AllExits
    BY <2>3, <2>4 DEF AllExits, GetBridgesPublished
  <2>6. ExitsIn(SettledBelow(c.height)) = GetBridgesPublished(1, f - 1)
    BY <2>2, <2>3, SettledBefore, Zenon
  <2>7. ASSUME NEW d \in AllExits, d[1] <= e[1] PROVE d \in SettledExits
    <3>1. PICK m \in 1 .. Len(l2) : l2[m].bridge /\ d = <<m, l2[m].fork>>
      BY Zenon DEF AllExits, GetBridgesPublished
    <3>2. m <= n
      BY <2>4, <2>7, <3>1, Zenon
    <3>3. CASE f <= m
      <4>1. d \in c.bridges
        BY <2>2, <2>3, <2>4, <3>1, <3>2, <3>3 DEF Carries, GetBridgesPublished
      <4> QED
        BY <2>1, <4>1, Zenon DEF SettledExits, ExitsIn
    <3>4. CASE m < f
      <4>1. d \in GetBridgesPublished(1, f - 1)
        BY <2>3, <3>1, <3>4 DEF GetBridgesPublished
      <4>2. d \in ExitsIn(SettledBelow(c.height))
        BY <2>6, <4>1, Zenon
      <4> QED
        BY <4>2, Zenon DEF ExitsIn, SettledBelow, SettledExits
    <3> QED
      BY <2>3, <3>1, <3>3, <3>4
  <2> QED
    BY <2>5, <2>7, Zenon
<1> QED
  BY <1>1, Zenon DEF SettledPrefix

\* Nothing that is settled is taken back.
LEMMA SettledStays ==
    ASSUME ContentInv, [Next]_vars PROVE SettledExits \subseteq SettledExits'
<1>1. ASSUME NEW c \in DOMAIN agglayer, agglayer[c] = "Settled"
      PROVE  c \in DOMAIN agglayer' /\ agglayer'[c] = "Settled"
  <2>1. CASE UNCHANGED agglayer
    BY <1>1, <2>1, Zenon
  <2>2. ASSUME NEW d \in DOMAIN agglayer, Advance(d) \/ FailCertificate(d)
        PROVE  c \in DOMAIN agglayer' /\ agglayer'[c] = "Settled"
    BY <1>1, <2>2, Zenon DEF Advance, FailCertificate, InFlight
  <2>3. CASE SendCertificate
    <3>1. c # snd.cert
      BY <1>1, <2>3, Zenon DEF SendCertificate, Accepts
    <3> QED
      BY <1>1, <2>3, <3>1, Zenon DEF SendCertificate
  <2> QED
    BY <2>1, <2>2, <2>3, Zenon
       DEF Next, vars, Syncer, AggLayer, Sender, ProcessL2Block, ReorgL2, ReceiveEpoch,
           CheckCertificate, ChooseRange, GetBridges, ReadClaims, BuildCertificate,
           SaveLastSentCertificate, GiveUp, LoseCertificate
<1> QED
  BY <1>1, Zenon DEF SettledExits, ExitsIn

\* A new L2 block publishes at most one exit, above all others.
LEMMA BlockPublishes ==
    ASSUME ContentInv, ProcessL2Block
    PROVE  \/ AllExits' = AllExits
           \/ \E e \in Event : (\A d \in AllExits : d[1] < e[1]) /\ AllExits' = AllExits \cup {e}
<1>1. l2 \in Seq(Block) /\ Len(l2) < MaxL2Block /\ reorgs \in 0 .. MaxReorgs
  BY Zenon DEF ContentInv, Continues, ProcessL2Block
<1> DEFINE k == Len(l2) + 1
           e == <<k, reorgs>>
<1>2. PICK b, c \in BOOLEAN : l2' = Append(l2, [bridge |-> b, claim |-> c, fork |-> reorgs])
  BY Zenon DEF ProcessL2Block
<1>3. /\ Len(l2) \in Nat /\ Len(l2') = k /\ l2'[k] = [bridge |-> b, claim |-> c, fork |-> reorgs]
      /\ \A n \in 1 .. Len(l2) : l2'[n] = l2[n]
  BY <1>1, <1>2
<1>4. e \in Event
  BY <1>1, <1>3, AggSenderAssumption DEF Event
<1>5. \A d \in AllExits : d[1] < e[1]
  BY <1>3 DEF AllExits, GetBridgesPublished
<1>6. AllExits' = IF b THEN AllExits \cup {e} ELSE AllExits
  <2>1. AllExits' = {<<n, l2'[n].fork>> : n \in {m \in 1 .. k : l2'[m].bridge}}
    BY <1>3, Zenon DEF AllExits, GetBridgesPublished
  <2>2. AllExits = {<<n, l2[n].fork>> : n \in {m \in 1 .. Len(l2) : l2[m].bridge}}
    BY Zenon DEF AllExits, GetBridgesPublished
  <2>3. l2'[k].bridge = b /\ l2'[k].fork = reorgs
    BY <1>3
  <2> QED
    BY <1>3, <2>1, <2>2, <2>3
<1> QED
  BY <1>4, <1>5, <1>6, Zenon

\* Every step of the AggSender and the AggLayer is a step of the ledger.
LEMMA LedgerStep ==
    ASSUME MaxReorgs = 0, ContentInv, SettledPrefix', [Next]_vars
    PROVE  [Ledger!Next]_<<AllExits, SettledExits>>
<1>1. CASE ProcessL2Block
  <2>1. SettledExits' = SettledExits
    BY <1>1, Zenon DEF ProcessL2Block, SettledExits, ExitsIn
  <2> QED
    BY <1>1, <2>1, BlockPublishes, Zenon DEF Ledger!Next, Ledger!Publish
<1>2. ASSUME UNCHANGED l2 PROVE [Ledger!Next]_<<AllExits, SettledExits>>
  <2>1. AllExits' = AllExits
    BY <1>2, Zenon DEF AllExits, GetBridgesPublished
  <2>2. SettledExits \subseteq SettledExits'
    BY SettledStays, Zenon
  <2>3. /\ SettledExits' \subseteq AllExits
        /\ \A d \in AllExits, e \in SettledExits' : d[1] <= e[1] => d \in SettledExits'
    BY <2>1, Zenon DEF SettledPrefix
  <2> QED
    BY <2>1, <2>2, <2>3, Zenon DEF Ledger!Next, Ledger!Settle
<1>3. ASSUME NEW n \in 1 .. MaxL2Block, ReorgL2(n) PROVE FALSE
  BY <1>3 DEF ReorgL2, ContentInv, Continues
<1> QED
  BY <1>1, <1>2, <1>3, Zenon
     DEF Next, vars, world, Syncer, AggLayer, Sender, Advance, FailCertificate, ReceiveEpoch,
         CheckCertificate, ChooseRange, GetBridges, ReadClaims, BuildCertificate,
         SendCertificate, SaveLastSentCertificate, GiveUp, LoseCertificate

\* The AggSender and the AggLayer implement the ledger of exits: what they settle
\* are the exits of the L2, in order and each of them once.
THEOREM LedgerImplemented ==
    ASSUME MaxReorgs = 0, MaxLost = 0 PROVE Spec => LedgerSpec
<1>1. Init => Ledger!Init
  <2> SUFFICES ASSUME Init PROVE Ledger!Init
    BY Zenon
  <2>1. DOMAIN agglayer = {} /\ Len(l2) = 0
    BY DEF Init
  <2> QED
    BY <2>1 DEF Ledger!Init, SettledExits, ExitsIn, AllExits, GetBridgesPublished
<1>2. ContentInv /\ SettledPrefix' /\ [Next]_vars => [Ledger!Next]_<<AllExits, SettledExits>>
  BY LedgerStep, Zenon
<1> QED
  BY <1>1, <1>2, ContentAlways, SettledIsPrefix, PTL DEF Spec, LedgerSpec, Ledger!Spec
=============================================================================
