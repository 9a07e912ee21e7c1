----------------------------- MODULE BatchCodec -----------------------------
(***************************************************************************)
(* state/encoding_batch_v2.go and state/helper.go: the data of an L2 batch.*)
(* A batch is a sequence of bytes: each block starts with a mark and two   *)
(* integers of fixed width, each transaction is an RLP list followed by r, *)
(* s, v and the efficiency percentage.  Every field of a list is one byte  *)
(* here, which RLP writes as it is; all widths are constants.  Decoding is *)
(* one action per round of the decoder's loop, on all of the data or on    *)
(* what is left of it when the tail is lost.                               *)
(***************************************************************************)
EXTENDS Integers, Sequences

CONSTANTS
    Batches,        \* batches to encode: sequences of blocks
    ByteBase,       \* number of values of a byte (256)
    SizeUInt32,     \* bytes of an integer (4)
    C0, ShortRlp,   \* first byte of an empty list (192), longest short list (55)
    RSLength,       \* bytes of r and s together (64)
    NFields         \* fields of a transaction without chain id (6)

ASSUME CodecAssumption ==
    /\ SizeUInt32 \in Nat /\ C0 \in Nat /\ ShortRlp \in Nat /\ RSLength \in Nat /\ NFields \in Nat
    /\ ByteBase \in Nat \ {0}

VARIABLES
    batch,   \* what was encoded
    dec      \* the decoder: its data, its mode, its position and what it has read

codecVars == <<batch, dec>>

changeL2Block == 11
ether155V     == 27
etherPre155V  == 35
F7            == C0 + ShortRlp

Concat(seqs) ==
    LET upTo[i \in 0 .. Len(seqs)] == IF i = 0 THEN << >> ELSE upTo[i - 1] \o seqs[i]
    IN upTo[Len(seqs)]

-----------------------------------------------------------------------------
(* Encoding                                                                *)

encodeUint32(value) ==
    [i \in 1 .. SizeUInt32 |-> (value \div ByteBase ^ (SizeUInt32 - i)) % ByteBase]

isPreEIP155Tx(tx) == tx.chainID = 0 /\ tx.v \in {27, 28}

\* rlp.EncodeToBytes (external) of the fields.
rlpList(fields) ==
    (IF Len(fields) <= ShortRlp THEN <<C0 + Len(fields)>> ELSE <<F7 + 1, Len(fields)>>) \o fields

prepareRLPTxData(tx) ==
    rlpList(tx.fields \o (IF isPreEIP155Tx(tx) THEN << >> ELSE <<tx.chainID, 0, 0>>))
        \o tx.rs \o <<ether155V + (1 - (tx.v % 2))>>

EncodeTx(tx) == prepareRLPTxData(tx) \o <<tx.efficiency>>

EncodeTxs(txs) == Concat([i \in 1 .. Len(txs) |-> EncodeTx(txs[i])])

EncodeBlock(b) ==
    <<changeL2Block>> \o encodeUint32(b.delta) \o encodeUint32(b.index) \o EncodeTxs(b.txs)

\* EncodeBatchV2 refuses a batch without blocks.
EncodeBatchV2(b) == Concat([i \in 1 .. Len(b) |-> EncodeBlock(b[i])])

-----------------------------------------------------------------------------
(* Decoding: positions count from 0 as in the code                         *)

Byte(d, pos)       == d[pos + 1]
Bytes(d, from, to) == SubSeq(d, from + 1, to)

decodeUint32(d, pos) ==
    LET digit[i \in 0 .. SizeUInt32] ==
          IF i = 0 THEN 0 ELSE digit[i - 1] * ByteBase + Byte(d, pos + i - 1)
    IN digit[SizeUInt32]

\* Length of the list at pos with its header, or -1 for an error.
decodeRLPListLengthFromOffset(d, pos) ==
    LET num == Byte(d, pos) IN
    IF num < C0 THEN -1
    ELSE IF num - C0 <= ShortRlp THEN num - C0 + 1
    ELSE IF pos + 1 + (num - F7) > Len(d) THEN -1
    ELSE LET n[i \in 0 .. num - F7] ==
               IF i = 0 THEN 0 ELSE n[i - 1] * ByteBase + Byte(d, pos + i)
         IN n[num - F7] + (num - F7) + 1

\* The list's fields are all bytes after its header; rlp.DecodeBytes is external.
rlpFields(d, pos, length) ==
    LET header == IF Byte(d, pos) - C0 <= ShortRlp THEN 1 ELSE 1 + Byte(d, pos) - F7
    IN Bytes(d, pos + header, pos + length)

RlpFieldsToLegacyTx(fields, v, rs, efficiency) ==
    [fields |-> SubSeq(fields, 1, NFields),
     chainID |-> IF Len(fields) > NFields THEN fields[NFields + 1] ELSE 0,
     v |-> IF Len(fields) > NFields THEN v - ether155V + fields[NFields + 1] * 2 + etherPre155V ELSE v,
     rs |-> rs, efficiency |-> efficiency]

txEnd(pos, length) == pos + length + RSLength + 1 + 1

\* DecodeTxRLP: the transaction at pos and the position after it, or an error.
DecodeTxRLP(d, pos) ==
    LET length == decodeRLPListLengthFromOffset(d, pos)
        rsAt   == pos + length
    IN IF length = -1 \/ txEnd(pos, length) > Len(d) THEN [ok |-> FALSE, end |-> pos, tx |-> << >>]
       ELSE LET fields == rlpFields(d, pos, length) IN
            [ok |-> Len(fields) >= NFields, end |-> txEnd(pos, length),
             tx |-> <<RlpFieldsToLegacyTx(fields, Byte(d, rsAt + RSLength),
                        Bytes(d, rsAt, rsAt + RSLength), d[txEnd(pos, length)])>>]

CodecInit ==
    /\ batch \in Batches
    /\ \E whole \in {"batch", "forced"} :
          LET d == IF whole = "batch" THEN EncodeBatchV2(batch) ELSE EncodeTxs(batch[1].txs) IN
          \E cut \in 0 .. Len(d) :
             dec = [mode |-> whole, data |-> SubSeq(d, 1, cut), cut |-> Len(d) - cut,
                    pos |-> 0, blocks |-> << >>, txs |-> << >>, res |-> "run"]

More(mode) == dec.mode = mode /\ dec.res = "run" /\ dec.pos < Len(dec.data)

Fail == dec' = [dec EXCEPT !.res = "error"]

\* Mutant of decodeBlockHeader: the two integers are swapped.
decodeHeaderSwapped ==
    [delta |-> decodeUint32(dec.data, dec.pos + 1 + SizeUInt32),
     index |-> decodeUint32(dec.data, dec.pos + 1), txs |-> << >>]

decodeBlockHeader ==
    [delta |-> decodeUint32(dec.data, dec.pos + 1),
     index |-> decodeUint32(dec.data, dec.pos + 1 + SizeUInt32), txs |-> << >>]

\* A round of DecodeBatchV2 that finds a mark.  The last of the blocks is the
\* current one.
DecodeBlock ==
    /\ More("batch") /\ Byte(dec.data, dec.pos) = changeL2Block
    /\ IF dec.pos + 1 + 2 * SizeUInt32 > Len(dec.data) THEN Fail
       ELSE dec' = [dec EXCEPT !.pos = @ + 1 + 2 * SizeUInt32,
                               !.blocks = Append(@, decodeBlockHeader)]
    /\ UNCHANGED batch

\* A round that finds a transaction: the data must have started with a block.
DecodeBlockTx ==
    /\ More("batch") /\ Byte(dec.data, dec.pos) # changeL2Block
    /\ LET r == DecodeTxRLP(dec.data, dec.pos) IN
       IF dec.blocks = << >> \/ ~r.ok THEN Fail
       ELSE dec' = [dec EXCEPT !.pos = r.end,
                               !.blocks[Len(dec.blocks)].txs = @ \o r.tx]
    /\ UNCHANGED batch

\* A round of DecodeTxs, for the transactions of a forced batch.  When the bytes
\* of the length are missing, the error that it returns is nil.
DecodeTxs ==
    /\ More("forced")
    /\ LET num == Byte(dec.data, dec.pos)
           r   == DecodeTxRLP(dec.data, dec.pos)
       IN IF num - C0 > ShortRlp /\ dec.pos + 1 + num - F7 > Len(dec.data)
          THEN dec' = [dec EXCEPT !.res = "ok", !.txs = << >>]
          ELSE IF ~r.ok THEN Fail
          ELSE dec' = [dec EXCEPT !.pos = r.end, !.txs = @ \o r.tx]
    /\ UNCHANGED batch

DecodeEnds ==
    /\ dec.res = "run" /\ dec.pos >= Len(dec.data)
    /\ dec' = [dec EXCEPT !.res = "ok"]
    /\ UNCHANGED batch

CodecNext == DecodeBlock \/ DecodeBlockTx \/ DecodeTxs \/ DecodeEnds

-----------------------------------------------------------------------------
(* Properties                                                              *)

\* DecodeBatchV2 inverts EncodeBatchV2, whatever bytes the fields contain (the
\* mark of a block among them).  Data that lost its tail is refused unless the
\* loss begins where a block header or a transaction begins, and then what is
\* decoded is the beginning of the batch, the last transactions missing.  The
\* transactions of a forced batch are decoded all or not at all (DecodeTxs).
DecodeInverts ==
    /\ dec.mode = "batch" /\ dec.res # "run" =>
          /\ dec.cut = 0 => dec.res = "ok" /\ dec.blocks = batch
          /\ dec.res = "ok" =>
                /\ EncodeBatchV2(dec.blocks) = dec.data
                /\ \A i \in 1 .. Len(dec.blocks) - 1 : dec.blocks[i] = batch[i]
    /\ dec.mode = "forced" /\ dec.res = "ok" =>
          \/ dec.txs = << >>
          \/ EncodeTxs(dec.txs) = dec.data /\ (dec.cut = 0 => dec.txs = batch[1].txs)
=============================================================================
