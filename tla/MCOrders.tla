------------------------------ MODULE MCOrders ------------------------------
(***************************************************************************)
(* Small instances of Orders for TLC.                                      *)
(***************************************************************************)
EXTENDS Orders, TLC

\* handler invocations are interchangeable
TaskSymmetry == Permutations(Tasks)
=============================================================================
