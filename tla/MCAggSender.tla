---------------------------- MODULE MCAggSender ----------------------------
(***************************************************************************)
(* The AggSender for TLC: three L2 blocks are enough for two certificates  *)
(* with a failed one between them, and a block without exits.              *)
(***************************************************************************)
EXTENDS AggSender
=============================================================================
