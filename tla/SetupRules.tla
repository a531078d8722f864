----------------------------- MODULE SetupRules -----------------------------
(***************************************************************************)
(* The P4Runtime writes that setup_plugin makes at startup, in its order,  *)
(* as data: DataPlane says what they do to traffic, Lifecycle how they are *)
(* sent and what happens when one fails.  Addresses are names: a host's    *)
(* name is its MAC and its IP address; cc21 is the MAC cc:00:00:00:02:01.  *)
(***************************************************************************)
EXTENDS Integers, Sequences, SequencesExt

CONSTANTS
  Subnet1,      \* hosts of subnet 1, in the order of their s1 ports 1..3
  Subnet2       \* hosts of subnet 2, in the order of their s4 ports 1..3

Hosts1 == ToSet(Subnet1)
Hosts2 == ToSet(Subnet2)
Host == Hosts1 \cup Hosts2

(* Other addresses: interfaces that route, the controller's, the cNF's,    *)
(* the broadcast address, subnet 1's, and the absence of one.              *)
OtherNames ==
  {"cc21", "cc22", "cc23", "cc31", "cc32", "ctrl", "subnet1", "cnf", "bcast",
   "controller", "none"}

(* The host tables of setup_plugin: no address is there for two purposes.  *)
ASSUME SubnetAssumption ==
  /\ \A hosts \in {Subnet1, Subnet2} :
       /\ hosts \in Seq(ToSet(hosts)) /\ Len(hosts) \in 1..3
       /\ \A i, j \in DOMAIN hosts : hosts[i] = hosts[j] => i = j
  /\ Hosts1 \cap Hosts2 = {} /\ Host \cap OtherNames = {}

Edge == {"s1", "s4"}
Router == {"s2", "s3"}
Switch == Edge \cup Router

AccessPort(h) == IF h \in Hosts1 THEN CHOOSE i \in DOMAIN Subnet1 : Subnet1[i] = h
                                 ELSE CHOOSE i \in DOMAIN Subnet2 : Subnet2[i] = h

(***************************************************************************)
(* setup_plugin.startup as the sequence of its writes.                     *)
(***************************************************************************)

Push(sw) == [op |-> "pipeline", sw |-> sw]
Group(sw, ports) == [op |-> "mcast", sw |-> sw, ports |-> ports]
Session(sw, s) == [op |-> "clone", sw |-> sw, session |-> s]
L2(sw, mac, p) == [op |-> "dMac", sw |-> sw, mac |-> mac, port |-> p]
Route(sw, dst, p, mac) ==
  [op |-> "lpm", sw |-> sw, dst |-> dst, port |-> p, mac |-> mac]
Rewrite(sw, p, mac) == [op |-> "rewrite", sw |-> sw, port |-> p, mac |-> mac]
Id(sw, id) == [op |-> "switchId", sw |-> sw, id |-> id]
Mark == [op |-> "marking", sw |-> "s1"]

PerHost(hosts, W(_)) == [i \in DOMAIN hosts |-> W(hosts[i])]

Pipelines == <<Push("s1"), Push("s2"), Push("s3"), Push("s4")>>
Replication ==
  <<Group("s1", 1..4), Group("s4", 1..5),
    Session("s1", 100), Session("s4", 100), Session("s4", 200)>>
L2Rules ==
  <<L2("s1", "cc21", 4)>>
    \o PerHost(Subnet1, LAMBDA h : L2("s1", h, AccessPort(h)))
    \o <<L2("s4", "cc23", 4), L2("s4", "cc32", 5)>>
    \o PerHost(Subnet2, LAMBDA h : L2("s4", h, AccessPort(h)))
    \o <<L2("s4", "ctrl", 510)>>
L3Rules ==
  PerHost(Subnet1, LAMBDA h : Route("s2", h, 1, h))
    \o PerHost(Subnet2, LAMBDA h : Route("s2", h, 3, h))
    \o <<Rewrite("s2", 1, "cc21"), Rewrite("s2", 2, "cc22"), Rewrite("s2", 3, "cc23")>>
    \o <<Route("s3", "subnet1", 1, "cc22")>>
    \o PerHost(Subnet2, LAMBDA h : Route("s3", h, 2, h))
    \o <<Rewrite("s3", 1, "cc31"), Rewrite("s3", 2, "cc32")>>
SwitchIds == <<Id("s1", 1), Id("s2", 2), Id("s3", 3), Id("s4", 4)>>

(* Mutants: routes before the MAC tables; marking before the switch ids.   *)
SetupRoutesFirst ==
  Pipelines \o Replication \o L3Rules \o L2Rules \o SwitchIds \o <<Mark>>
SetupMarksFirst ==
  Pipelines \o Replication \o L2Rules \o L3Rules \o <<Mark>> \o SwitchIds
SetupNoReportRule ==
  Pipelines \o Replication \o SelectSeq(L2Rules, LAMBDA w : w.mac # "ctrl")
    \o L3Rules \o SwitchIds \o <<Mark>>

Setup == Pipelines \o Replication \o L2Rules \o L3Rules \o SwitchIds \o <<Mark>>

=============================================================================
