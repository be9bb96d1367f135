------------------------------ MODULE MCSwapCall ------------------------------
(* Instances of SwapCall for TLC: a position is bought and sold again.     *)
EXTENDS SwapCall
=============================================================================
