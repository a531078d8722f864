----------------------------- MODULE DataPlane -----------------------------
(***************************************************************************)
(* The four P4 switches (p4/s1.p4 .. s4.p4, headers.p4), the links of      *)
(* mininet/my_topo.py, the sequence of P4Runtime writes of setup_plugin    *)
(* and the route changes te_plugin makes on s2, all interleaved with       *)
(* frames on their way: frames may be sent, and be on any wire, before,    *)
(* between and after any two writes.                                       *)
(*                                                                         *)
(* A switch processes one frame in one step, reading its tables as they    *)
(* are at that moment.  Wires deliver in any order and lose nothing.       *)
(* Addresses are names: a host's name is its MAC and its IP address.       *)
(* Payloads, checksums, TTLs and INT timestamps are left out.              *)
(***************************************************************************)
EXTENDS SetupRules

CONSTANTS
  INT_MAX_HOPS, \* headers.p4
  MaxFrames,    \* bound: frames sent by the hosts and the cNF
  MaxReroutes   \* bound: route changes by te_plugin

ASSUME DataPlaneAssumption ==
  /\ INT_MAX_HOPS \in Nat /\ INT_MAX_HOPS >= 4   \* "fits 4-hop topology"
  /\ MaxFrames \in Nat
  /\ MaxReroutes \in Nat

VARIABLES
  installed,  \* number of setup_plugin's writes done
  pipeline,   \* switches that run their P4 program
  mcast,      \* ports of multicast group 1, per edge switch
  clone,      \* configured clone sessions, per edge switch
  dMac,       \* dMacLookup, per edge switch: MAC -> port
  lpm,        \* ipv4Lpm, per router: host or subnet -> [port, mac]
  rewrite,    \* internalMacLookup, per router: port -> MAC
  switchId,   \* switchIdTable: the id, 0 until it is installed
  marking,    \* intMarkingTable of s1 holds its entry
  reroutes,   \* route changes so far
  wires,      \* frames in flight, with the switch and port they arrive at
  delivered,  \* [host, frame]: what the hosts have received
  mirrored,   \* frames s4 has cloned to the cNF
  packetIns,  \* frames the controller has received from CPU ports
  frames      \* number of frames sent

tables == <<pipeline, mcast, clone, dMac, lpm, rewrite, switchId, marking>>
traffic == <<wires, delivered, mirrored, packetIns>>
vars == <<installed, tables, reroutes, traffic, frames>>

Ports == 0..6 \cup {510}

(* The interfaces that carry routed traffic, named after their MACs        *)
(* cc:00:00:00:0s:0p, and the controller's aa:00:00:00:05:02.              *)
Mac == Host \cup {"cc21", "cc22", "cc23", "cc31", "cc32", "ctrl", "cnf", "bcast"}

(***************************************************************************)
(* What is at the other end of a port: a switch and its port, a host, the  *)
(* cNF's veth or the controller.                                           *)
(***************************************************************************)
Peer(sw, p) ==
  CASE sw = "s1" /\ p = 4 -> <<"s2", 1>>
    [] sw = "s2" /\ p = 1 -> <<"s1", 4>>
    [] sw = "s2" /\ p = 2 -> <<"s3", 1>>
    [] sw = "s2" /\ p = 3 -> <<"s4", 4>>
    [] sw = "s3" /\ p = 1 -> <<"s2", 2>>
    [] sw = "s3" /\ p = 2 -> <<"s4", 5>>
    [] sw = "s4" /\ p = 4 -> <<"s2", 3>>
    [] sw = "s4" /\ p = 5 -> <<"s3", 2>>
    [] sw = "s4" /\ p = 6 -> <<"cnf">>
    [] sw \in Edge /\ p = 510 -> <<"controller">>
    [] sw = "s1" /\ p \in DOMAIN Subnet1 -> <<"host", Subnet1[p]>>
    [] sw = "s4" /\ p \in DOMAIN Subnet2 -> <<"host", Subnet2[p]>>
    [] OTHER -> <<"nothing">>

-----------------------------------------------------------------------------

Ready == installed = Len(Setup)

-----------------------------------------------------------------------------
(***************************************************************************)
(* Frames.  type is the EtherType; from and to are the IP addresses; hops  *)
(* is the INT stack, empty unless type is "int".  kind, id, calm and trail *)
(* are history: what the frame is, who sent it when, whether setup was     *)
(* complete then, and the switches and egress ports it has passed.         *)
(***************************************************************************)
NoHops == <<>>

Frame(kind, src, dst, from, to) ==
  [id |-> frames + 1, kind |-> kind, calm |-> Ready, trail |-> <<>>,
   src |-> src, dst |-> dst, from |-> from, to |-> to,
   type |-> IF kind = "arp" THEN "arp" ELSE "ipv4", hops |-> NoHops]

(* A host's unicast: to its neighbour's MAC, or to the gateway MAC that    *)
(* my_topo.py puts in its ARP cache.                                       *)
HostFrame(h, g) ==
  Frame("data", h,
        IF (h \in Hosts1) <=> (g \in Hosts1) THEN g
        ELSE IF h \in Hosts1 THEN "cc21" ELSE "cc23",
        h, g)
Broadcast(h) == Frame("arp", h, "bcast", h, "none")
ReportFrame == Frame("report", "cnf", "ctrl", "cnf", "controller")

(* The parsers: which headers are valid in ingress. *)
HasIpv4(f) == f.type \in {"ipv4", "int"}
HasShim(f) == f.type = "int"

Passed(f, sw, p) == [f EXCEPT !.trail = Append(@, <<sw, p>>)]

(* One frame per port of ports other than the one it came in by.           *)
SendTo(f, sw, ports, inPort) ==
  {[port |-> p, frame |-> Passed(f, sw, p)] : p \in ports \ {inPort}}

(* sMacLookup is never given an entry, so s1 and s4 clone every frame to   *)
(* the CPU; the clone is the frame as it was received, cut to 22 bytes.    *)
CpuClone(f, sw) ==
  IF 100 \in clone[sw]
  THEN {[port |-> 510, frame |-> [f EXCEPT !.type = "cpu", !.hops = NoHops]]}
  ELSE {}

(* The ports dMacLookup gives, or the flooding group on a miss.            *)
L2Ports(sw, f) ==
  IF f.dst \in DOMAIN dMac[sw] THEN {dMac[sw][f.dst]} ELSE mcast[sw]

(* meta.l3_egress_port: set by forward(), 0 on a miss.                     *)
L2EgressPort(sw, f) == IF f.dst \in DOMAIN dMac[sw] THEN dMac[sw][f.dst] ELSE 0

Hop(sw, p) == [switch |-> switchId[sw], port |-> p]

(* s1: intMarkingTable and insert_int. *)
Marked(f) ==
  HasIpv4(f) /\ ~HasShim(f) /\ marking /\ f.from \in Hosts1 /\ f.to \in Hosts2

InsertInt(f) ==
  [f EXCEPT !.type = "int", !.hops = <<Hop("s1", L2EgressPort("s1", f))>>]

OutS1(f, inPort) ==
  SendTo(IF Marked(f) THEN InsertInt(f) ELSE f, "s1", L2Ports("s1", f), inPort)
    \cup CpuClone(f, "s1")

(* s2 and s3: the longest prefix that matches, if any. *)
Routes(sw, f) ==
  IF ~HasIpv4(f) THEN {}
  ELSE IF f.to \in DOMAIN lpm[sw] THEN {lpm[sw][f.to]}
  ELSE IF f.to \in Hosts1 /\ "subnet1" \in DOMAIN lpm[sw] THEN {lpm[sw]["subnet1"]}
  ELSE {}

(* write_hop_0 .. write_hop_7. *)
AppendHop(f, sw, p) ==
  IF HasShim(f) /\ Len(f.hops) < INT_MAX_HOPS
  THEN [f EXCEPT !.hops = Append(@, Hop(sw, p))]
  ELSE f

OutRouter(sw, f) ==
  {[port |-> r.port,
    frame |-> Passed([AppendHop(f, sw, r.port)
                        EXCEPT !.src = rewrite[sw][r.port], !.dst = r.mac],
                     sw, r.port)] :
   r \in {q \in Routes(sw, f) : q.port \in DOMAIN rewrite[sw]}}

OutS2(f) == OutRouter("s2", f)
OutS3(f) == OutRouter("s3", f)

(* s4: strip_int on the original, the last of the two clone calls wins,    *)
(* and the clone to the cNF is the frame as s4 received it.                *)
LastHop(f) == HasShim(f) /\ Len(f.hops) < INT_MAX_HOPS

(* Mutants: only the shim is removed, or nothing is. *)
StripShimOnly(f) == [f EXCEPT !.type = "ipv4"]
StripNothing(f) == f

StripInt(f) == [f EXCEPT !.type = "ipv4", !.hops = NoHops]

CnfClone(f) == IF 200 \in clone["s4"] THEN {[port |-> 6, frame |-> f]} ELSE {}

OutS4(f, inPort) ==
  SendTo(IF LastHop(f) THEN StripInt(f) ELSE f, "s4", L2Ports("s4", f), inPort)
    \cup IF LastHop(f) THEN CnfClone(f) ELSE CpuClone(f, "s4")

(* What the switch emits for a frame; a switch without a pipeline drops.   *)
Out(sw, f, inPort) ==
  IF sw \notin pipeline THEN {}
  ELSE CASE sw = "s1" -> OutS1(f, inPort)
         [] sw = "s2" -> OutS2(f)
         [] sw = "s3" -> OutS3(f)
         [] sw = "s4" -> OutS4(f, inPort)

-----------------------------------------------------------------------------

Init ==
  /\ installed = 0
  /\ pipeline = {}
  /\ mcast = [sw \in Edge |-> {}]
  /\ clone = [sw \in Edge |-> {}]
  /\ dMac = [sw \in Edge |-> <<>>]
  /\ lpm = [sw \in Router |-> <<>>]
  /\ rewrite = [sw \in Router |-> <<>>]
  /\ switchId = [sw \in Switch |-> 0]
  /\ marking = FALSE
  /\ reroutes = 0
  /\ wires = {}
  /\ delivered = {}
  /\ mirrored = {}
  /\ packetIns = {}
  /\ frames = 0

(* f with f[x] = v, whether or not x was in its domain. *)
With(f, x, v) == [y \in DOMAIN f \cup {x} |-> IF y = x THEN v ELSE f[y]]

(* setup_plugin's next write is an op, and it is done. *)
Write(op) ==
  /\ ~Ready
  /\ Setup[installed + 1].op = op
  /\ installed' = installed + 1
  /\ UNCHANGED <<reroutes, traffic, frames>>

TheWrite == Setup[installed + 1]

PushPipeline ==
  /\ Write("pipeline")
  /\ pipeline' = pipeline \cup {TheWrite.sw}
  /\ UNCHANGED <<mcast, clone, dMac, lpm, rewrite, switchId, marking>>

InstallMulticastGroup ==
  /\ Write("mcast")
  /\ mcast' = [mcast EXCEPT ![TheWrite.sw] = TheWrite.ports]
  /\ UNCHANGED <<pipeline, clone, dMac, lpm, rewrite, switchId, marking>>

InstallCloneSession ==
  /\ Write("clone")
  /\ clone' = [clone EXCEPT ![TheWrite.sw] = @ \cup {TheWrite.session}]
  /\ UNCHANGED <<pipeline, mcast, dMac, lpm, rewrite, switchId, marking>>

InstallL2Rule ==
  /\ Write("dMac")
  /\ dMac' = [dMac EXCEPT ![TheWrite.sw] = With(@, TheWrite.mac, TheWrite.port)]
  /\ UNCHANGED <<pipeline, mcast, clone, lpm, rewrite, switchId, marking>>

InstallRoute ==
  /\ Write("lpm")
  /\ lpm' = [lpm EXCEPT ![TheWrite.sw] =
               With(@, TheWrite.dst, [port |-> TheWrite.port, mac |-> TheWrite.mac])]
  /\ UNCHANGED <<pipeline, mcast, clone, dMac, rewrite, switchId, marking>>

InstallMacRewrite ==
  /\ Write("rewrite")
  /\ rewrite' = [rewrite EXCEPT ![TheWrite.sw] = With(@, TheWrite.port, TheWrite.mac)]
  /\ UNCHANGED <<pipeline, mcast, clone, dMac, lpm, switchId, marking>>

InstallSwitchId ==
  /\ Write("switchId")
  /\ switchId' = [switchId EXCEPT ![TheWrite.sw] = TheWrite.id]
  /\ UNCHANGED <<pipeline, mcast, clone, dMac, lpm, rewrite, marking>>

InstallIntMarking ==
  /\ Write("marking")
  /\ marking' = TRUE
  /\ UNCHANGED <<pipeline, mcast, clone, dMac, lpm, rewrite, switchId>>

SetupStep ==
  \/ PushPipeline \/ InstallMulticastGroup \/ InstallCloneSession \/ InstallL2Rule
  \/ InstallRoute \/ InstallMacRewrite \/ InstallSwitchId \/ InstallIntMarking

(***************************************************************************)
(* One MODIFY of te_plugin: the route of a subnet-2 host on s2 changes to  *)
(* the other path.  TEPlugin says when and in which order; here any entry  *)
(* may change at any time after setup.                                     *)
(***************************************************************************)
ShortRoute(h) == [port |-> 3, mac |-> h]

(* Mutant: LONG_PATH_EGRESS is the wrong port of s2. *)
LongRouteWrongPort(h) == [port |-> 1, mac |-> "cc31"]

LongRoute(h) == [port |-> 2, mac |-> "cc31"]

Reroute(h) ==
  /\ Ready
  /\ reroutes < MaxReroutes
  /\ reroutes' = reroutes + 1
  /\ lpm' = [lpm EXCEPT !["s2"][h] =
               IF @ = ShortRoute(h) THEN LongRoute(h) ELSE ShortRoute(h)]
  /\ UNCHANGED <<installed, pipeline, mcast, clone, dMac, rewrite, switchId, marking,
                 traffic, frames>>

(* A host, or the cNF, puts a frame on its wire. *)
Send(f, sw, p) ==
  /\ frames < MaxFrames
  /\ frames' = frames + 1
  /\ wires' = wires \cup {[at |-> sw, port |-> p, frame |-> f]}
  /\ UNCHANGED <<installed, tables, reroutes, delivered, mirrored, packetIns>>

EdgeOf(h) == IF h \in Hosts1 THEN "s1" ELSE "s4"

SendData(h, g) == h # g /\ Send(HostFrame(h, g), EdgeOf(h), AccessPort(h))
SendArp(h) == Send(Broadcast(h), EdgeOf(h), AccessPort(h))
SendReport == Send(ReportFrame, "s4", 6)

(* A switch takes a frame from a wire and emits what its program says.     *)
Forward(w) ==
  LET out == Out(w.at, w.frame, w.port)
      To(what) == {o \in out : Peer(w.at, o.port)[1] = what}
  IN  /\ wires' = (wires \ {w}) \cup
                    {[at |-> Peer(w.at, o.port)[1], port |-> Peer(w.at, o.port)[2],
                      frame |-> o.frame] : o \in UNION {To(sw) : sw \in Switch}}
      /\ delivered' = delivered \cup
           {[host |-> Peer(w.at, o.port)[2], frame |-> o.frame] : o \in To("host")}
      /\ mirrored' = mirrored \cup {o.frame : o \in To("cnf")}
      /\ packetIns' = packetIns \cup {o.frame : o \in To("controller")}
      /\ UNCHANGED <<installed, tables, reroutes, frames>>

Next ==
  \/ SetupStep
  \/ \E h \in Hosts2 : Reroute(h)
  \/ \E h, g \in Host : SendData(h, g)
  \/ \E h \in Host : SendArp(h)
  \/ SendReport
  \/ \E w \in wires : Forward(w)

Spec == Init /\ [][Next]_vars

(* A switch keeps processing what arrives.  Setup may fail or stop at any  *)
(* write, hosts need not send, and te_plugin need not reroute.             *)
FairSpec == Spec /\ WF_vars(\E w \in wires : Forward(w))

-----------------------------------------------------------------------------

Hops == Seq([switch : 0..4, port : Ports])
Frames == {w.frame : w \in wires} \cup {d.frame : d \in delivered}
            \cup mirrored \cup packetIns

(* Tables hold ports and MACs, and an INT stack is there exactly in INT    *)
(* frames and never longer than INT_MAX_HOPS.                              *)
TypeOK ==
  /\ installed \in 0..Len(Setup)
  /\ pipeline \subseteq Switch
  /\ \A sw \in Edge : mcast[sw] \subseteq Ports /\ clone[sw] \subseteq {100, 200}
  /\ \A sw \in Edge : DOMAIN dMac[sw] \subseteq Mac /\ ToSet(dMac[sw]) \subseteq Ports
  /\ \A sw \in Router, dst \in Host \cup {"subnet1"} :
       dst \in DOMAIN lpm[sw] => lpm[sw][dst] \in [port : Ports, mac : Mac]
  /\ \A sw \in Router : DOMAIN rewrite[sw] \subseteq Ports
  /\ switchId \in [Switch -> 0..4] /\ marking \in BOOLEAN
  /\ reroutes \in 0..MaxReroutes /\ frames \in 0..MaxFrames
  /\ \A f \in Frames :
       /\ f.type \in {"ipv4", "arp", "int", "cpu"} /\ f.src \in Mac /\ f.dst \in Mac
       /\ f.hops \in Hops /\ Len(f.hops) <= INT_MAX_HOPS
       /\ f.hops # NoHops <=> f.type = "int"

(***************************************************************************)
(* No host ever receives a frame with telemetry in it: at any moment of    *)
(* setup and of any reroute, an INT frame reaches a host only through s4,  *)
(* which strips it (s1's marking rule is the last write of setup).         *)
(***************************************************************************)
NoIntAtHosts == \A d \in delivered : d.frame.type # "int"

(***************************************************************************)
(* The cNF's clone tells the truth about the way the frame came: its stack *)
(* names exactly the switches before s4, in order, with the port each one  *)
(* sent it out of, even when the frame crosses setup or a reroute.         *)
(***************************************************************************)
NumberOf(sw) == CASE sw = "s1" -> 1 [] sw = "s2" -> 2 [] sw = "s3" -> 3 [] sw = "s4" -> 4

TruthfulStack ==
  \A f \in mirrored :
    f.hops = [i \in DOMAIN f.trail |->
                [switch |-> NumberOf(f.trail[i][1]), port |-> f.trail[i][2]]]

(***************************************************************************)
(* _install_l3_rules' reason for /32 routes: a frame that a router has     *)
(* forwarded is never flooded again, so it reaches no host but the one it  *)
(* is addressed to and cannot come back to s4 by s3; true at every moment  *)
(* of setup because the MAC tables are complete before the first route.    *)
(***************************************************************************)
Routed(f) == \E i \in DOMAIN f.trail : f.trail[i][1] \in Router

RoutedFramesReachTheirHost ==
  \A d \in delivered : Routed(d.frame) => d.host = d.frame.to

(***************************************************************************)
(* No frame goes round in circles, whatever mixture of old and new routes  *)
(* it meets: one sent after setup never comes to a switch a second time,   *)
(* and one flooded during setup never a third time.                        *)
(***************************************************************************)
Visits(f, sw) == {i \in DOMAIN f.trail : f.trail[i][1] = sw}

LoopFree ==
  \A w \in wires :
    /\ w.frame.calm => Visits(w.frame, w.at) = {}
    /\ \A i, j \in Visits(w.frame, w.at) : i = j

(***************************************************************************)
(* A unicast frame sent after setup is received by its addressee only, and *)
(* at most once, whichever routes change while it is under way.            *)
(***************************************************************************)
CalmDeliveryIsExact ==
  \A d \in delivered :
    d.frame.calm /\ d.frame.kind = "data" =>
      /\ d.host = d.frame.to
      /\ \A e \in delivered : e.frame.id = d.frame.id => e = d

(***************************************************************************)
(* Reroutes lose nothing: a unicast frame sent after setup arrives, and if *)
(* it goes from subnet 1 to subnet 2 the cNF gets its telemetry.           *)
(***************************************************************************)
UnderWay(id, kind) ==
  \E w \in wires : w.frame.id = id /\ w.frame.kind = kind /\ w.frame.calm

Arrived(id) ==
  \E d \in delivered :
    /\ d.frame.id = id
    /\ d.host = d.frame.to
    /\ d.frame.from \in Hosts1 /\ d.frame.to \in Hosts2 => \E f \in mirrored : f.id = id

CalmFramesArrive == \A id \in 1..MaxFrames : UnderWay(id, "data") ~> Arrived(id)

(***************************************************************************)
(* A report the cNF sends after setup comes to the controller as a         *)
(* PacketIn that _is_cnf_report accepts: in full, not only as the 22-byte  *)
(* clone that s4 makes of it as of any other frame.                        *)
(***************************************************************************)
IsCnfReport(f) == f.type = "ipv4" /\ f.kind = "report"

ReportsArrive ==
  \A id \in 1..MaxFrames :
    UnderWay(id, "report") ~> \E f \in packetIns : f.id = id /\ IsCnfReport(f)

=============================================================================
