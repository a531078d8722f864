---------------------------- MODULE MCClosedLoop ----------------------------
(***************************************************************************)
(* ClosedLoop with delays in units of 5 ms and switch clocks that started  *)
(* one after the other, s1 first: s1 is ahead of s2 and s2 of s3, so that  *)
(* a longer delay makes the measured value smaller, as it does for the     *)
(* switches that Mininet starts in this order.                             *)
(***************************************************************************)
EXTENDS ClosedLoop

Started == <<30, 20, 10, 0>>
TopologyDelays == [l \in Link |-> IF l = "s1s2" THEN 0 ELSE 1]
SharedLink == {"s1s2"}
ShortLink == {"s2s4"}
Slow == {0, 6}
Slower == {7}
=============================================================================
