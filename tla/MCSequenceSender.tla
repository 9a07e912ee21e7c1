-------------------------- MODULE MCSequenceSender --------------------------
(***************************************************************************)
(* Small instances of SequenceSender.                                      *)
(***************************************************************************)
EXTENDS SequenceSender

\* Batch 3 has another coinbase than batches 1 and 2.
MCCoinbase == [b \in Batch |-> IF b < 3 THEN 1 ELSE 2]
OneCoinbase == [b \in Batch |-> 1]

\* Batch 2 alone is larger than MaxTxSizeForL1 = 3, batches 3 and 4 fit together.
MCSize == [b \in Batch |-> IF b = 2 THEN 4 ELSE 1]

NoBatch == {}
FourthBatch == {4}
=============================================================================
