----------------------------- MODULE MCEVMSync -----------------------------
(***************************************************************************)
(* Small instances of EVMSync for TLC.  The sanity check of the processor  *)
(* may fail on block 4, of the first branch or of the one that replaces it *)
(* in the first reorganisation.                                            *)
(***************************************************************************)
EXTENDS EVMSync

Inconsistent(fork) == {[num |-> 4, hash |-> [fork |-> fork, ev |-> TRUE], ev |-> TRUE]}

OnFirstBranch == Inconsistent(0)
OnNewBranch   == Inconsistent(1)
=============================================================================
