------------------------------- MODULE MCWhole -----------------------------
(***************************************************************************)
(* The whole program from initialize on, on the smallest instance: what    *)
(* the other instances leave out of their next-state relations is together *)
(* here.                                                                   *)
(***************************************************************************)
EXTENDS MCMarinade

CONSTANTS v1, s1, t1

============================================================================
