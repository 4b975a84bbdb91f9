------------------------------- MODULE Totals -------------------------------
(* Running totals: the code adds up sizes piece by piece and compares as it  *)
(* goes.  A recursive function, which proofs can unfold, takes the place of  *)
(* a fold.                                                                   *)
EXTENDS Integers, Sequences

\* The sum of the first n numbers of s.
SumTo(s, n) ==
  LET sum[i \in 0 .. Len(s)] == IF i = 0 THEN 0 ELSE sum[i - 1] + s[i]
  IN  sum[n]
=============================================================================
