------------------------------- MODULE Totals ------------------------------
(***************************************************************************)
(* The total of a function from a finite set to the naturals, which the    *)
(* program keeps in a counter and the properties compare with the records  *)
(* the counter stands for.  It is the number of units the function hands   *)
(* out, which needs no recursion: a total is then reasoned about with the  *)
(* library's facts on cardinalities.                                       *)
(***************************************************************************)
EXTENDS Integers, FiniteSets

Units(f) == UNION {{x} \X (1 .. f[x]) : x \in DOMAIN f}

Total(f) == Cardinality(Units(f))

\* f with x mapped to n, x being in the domain of f or not
Put(f, x, n) == [y \in DOMAIN f \cup {x} |-> IF y = x THEN n ELSE f[y]]

Without(f, x) == [y \in DOMAIN f \ {x} |-> f[y]]
===========================================================================
