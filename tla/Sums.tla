------------------------------- MODULE Sums -------------------------------
(* Totals over 1..n, used to add up the users' ledgers.                       *)
EXTENDS Integers

(* f[1] + ... + f[n], as a recursive function of prefix sums *)
SumUpTo(f, n) ==
    LET s[i \in 0..n] == IF i = 0 THEN 0 ELSE s[i - 1] + f[i]
    IN  s[n]
=============================================================================
