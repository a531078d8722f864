------------------------------ MODULE MCLaunch ------------------------------
(* Launch as it is: my_topo.py's default port is the only constant. *)
EXTENDS Launch
=============================================================================
