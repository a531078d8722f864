---------------------------- MODULE MCLifecycle ----------------------------
(* Lifecycle with one host in subnet 1 and two in subnet 2, as many as a   *)
(* half-finished reroute needs.                                            *)
EXTENDS Lifecycle

OneHost == <<"h1">>
TwoHosts == <<"h4", "h5">>
=============================================================================
