------------------------------ MODULE MCExitTrees ------------------------------
(* Small instances of ExitTrees for TLC. *)
EXTENDS ExitTrees
TwoRollups == {1, 2}
===============================================================================
