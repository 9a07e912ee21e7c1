---------------------------- MODULE MCAggregator ----------------------------
(***************************************************************************)
(* Instances of Aggregator: two provers; one L1 sequence of two batches,   *)
(* or a second one of a single batch after it.                             *)
(***************************************************************************)
EXTENDS Aggregator, TLC

OneSequence  == << <<1, 2>> >>
TwoSequences == << <<1, 2>>, <<3, 3>> >>

\* The provers are interchangeable; used where no liveness is checked.
Symmetry == Permutations(Provers)
=============================================================================
