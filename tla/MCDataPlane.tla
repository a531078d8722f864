---------------------------- MODULE MCDataPlane ----------------------------
(* DataPlane on the topology of mininet/my_topo.py: h1..h3 and h4..h6. *)
EXTENDS DataPlane

Subnet1Hosts == <<"h1", "h2", "h3">>
Subnet2Hosts == <<"h4", "h5", "h6">>
=============================================================================
