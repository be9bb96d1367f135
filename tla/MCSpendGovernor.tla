--------------------------- MODULE MCSpendGovernor ---------------------------
(* A small instance of SpendGovernor: budgets that no whole number of      *)
(* calls spends exactly.                                                   *)
EXTENDS SpendGovernor
=============================================================================
