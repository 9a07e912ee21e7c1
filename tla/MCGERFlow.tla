------------------------------ MODULE MCGERFlow ------------------------------
(* The instances of GERFlow that TLC checks: see the GERFlow_*.cfg files. *)
EXTENDS GERFlow
===============================================================================
