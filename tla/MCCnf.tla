------------------------------- MODULE MCCnf -------------------------------
(***************************************************************************)
(* Cnf with two flows on two paths.  The latencies are a measured 0 (a     *)
(* packet with a single hop), 100, and 102, which is exactly 2% off.       *)
(***************************************************************************)
EXTENDS Cnf, TLC

CONSTANTS f1, f2, short, long

TwoFlows == {f1, f2}
Symmetry == Permutations(TwoFlows)
Paths == {short, long}
SomeLatencies == {0, 100, 102}
=============================================================================
