--------------------------------- MODULE Sums ---------------------------------
(***************************************************************************)
(* The sum of the numbers of a sequence, as a function of the positions:   *)
(* what sum() and the counting loops of the code compute.  And the weight  *)
(* of a set, a sum in no particular order: how many units its members have *)
(* together, when each has w of them.                                      *)
(***************************************************************************)
EXTENDS Integers, Sequences, FiniteSets

Totals(f) ==
  LET t[n \in 0..Len(f)] == IF n = 0 THEN 0 ELSE t[n - 1] + f[n] IN t

Total(f) == Totals(f)[Len(f)]

Units(w, K) == UNION {{e} \X (1..w[e]) : e \in K}

Weight(w, K) == Cardinality(Units(w, K))
===============================================================================
