------------------------------ MODULE MCModelSwap ------------------------------
(***************************************************************************)
(* Two taggers and up to two callers of swap.                               *)
(***************************************************************************)
EXTENDS ModelSwap
================================================================================
