------------------------------ MODULE Averages ------------------------------
(***************************************************************************)
(* Means of latencies, kept exact: a mean is a total and a number of       *)
(* samples, and two means are compared by cross-multiplication.            *)
(***************************************************************************)
EXTENDS Integers, Sequences

Total(latencies) ==
  LET sum[k \in 0..Len(latencies)] == IF k = 0 THEN 0 ELSE sum[k - 1] + latencies[k]
  IN  sum[Len(latencies)]

Distance(a, b) == IF a >= b THEN a - b ELSE b - a

(* The mean total/n is further than pct percent of base/m from base/m.     *)
Exceeds(total, n, base, m, pct) ==
  100 * Distance(total * m, base * n) > pct * (base * n)
=============================================================================
