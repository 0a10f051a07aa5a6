------------------------------- MODULE Totals -------------------------------
(***************************************************************************)
(* The total of an integer-valued function over 1 .. n, as a recursive     *)
(* function, so that TLC evaluates it and proofs can be carried out on it. *)
(***************************************************************************)
EXTENDS Integers

\* The running totals of h: RunningTotal(h, n)[i] is h[1] + ... + h[i].
RunningTotal(h, n) ==
    LET sum[i \in 0 .. n] == IF i = 0 THEN 0 ELSE sum[i - 1] + h[i] IN sum

\* h[1] + ... + h[n].
Total(h, n) == RunningTotal(h, n)[n]
=============================================================================
