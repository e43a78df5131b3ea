----------------------------- MODULE MCSwapList ----------------------------
(***************************************************************************)
(* A list of up to four addresses in an account that grows and shrinks.    *)
(***************************************************************************)
EXTENDS SwapList

CONSTANTS a1, a2, a3, a4, zero

ZeroItem == item(zero, 1)
============================================================================
