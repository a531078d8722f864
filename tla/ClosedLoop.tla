----------------------------- MODULE ClosedLoop -----------------------------
(***************************************************************************)
(* The closed loop: te_plugin's routes on s2 decide which switches stamp a *)
(* telemetry packet, the stamps are what the cNF measures (cNF/cnf.py),    *)
(* and its degraded reports are what makes te_plugin change the routes.    *)
(* TEPlugin lets any report arrive; here a report is the verdict of Cnf on *)
(* packets that took the routes of the moment, and packets of the two      *)
(* paths overtake each other while a reroute is under way.                 *)
(*                                                                         *)
(* One flow goes to each subnet-2 host.  Healthy reports, which the plugin *)
(* discards, are left out.  A stamp is the time since the packet was sent  *)
(* plus the offset of the switch's own clock: every measurement is a       *)
(* difference of stamps, so the time of sending cancels.                   *)
(***************************************************************************)
EXTENDS Integers, Sequences, FiniteSets

CONSTANTS
  NHosts, Cooldown, MaxLag, MaxWrite,         \* as in TEPlugin
  MaxClock, MaxPending, MaxFailures,          \* bounds, as in TEPlugin
  WINDOW_SIZE, DEGRADATION_PCT,               \* as in Cnf
  Offset,      \* Offset[s]: how far the clock of switch s (1..4) is ahead
  FirstDelay,  \* the delay of each link at the start
  Shifting,    \* the links whose delay may change
  Delays,      \* the delays they may change to
  MaxShifts,   \* bound: changes of a delay
  MaxInFlight  \* bound: telemetry packets on one path

VARIABLES
  current_path, last_reroute, route, pc, job, emitted,
  pending, clock, failures, finished,         \* as in TEPlugin
  samples, baselines, last_path,              \* as in Cnf
  delay,       \* delay[l]: the current delay of link l
  wire,        \* wire[p]: the packets on path p that the cNF has yet to see
  shifts       \* changes of a delay so far

Plugin == INSTANCE TEPlugin

pluginState == <<current_path, last_reroute, route, pc, job, emitted, failures, finished>>
cnfState == <<samples, baselines, last_path>>
network == <<delay, wire, shifts>>
vars == <<pluginState, pending, clock, cnfState, network>>

Host == 1..NHosts
Path == {"short", "long"}
Link == {"s1s2", "s2s4", "s2s3", "s3s4"}

ASSUME LoopAssumption ==
  /\ NHosts \in Nat \ {0} /\ Cooldown \in Nat \ {0}
  /\ MaxLag \in Nat /\ MaxWrite \in Nat
  /\ MaxClock \in Nat /\ MaxPending \in Nat /\ MaxFailures \in Nat
  /\ WINDOW_SIZE \in Nat \ {0} /\ DEGRADATION_PCT \in Nat
  /\ Offset \in [1..4 -> Nat]
  /\ FirstDelay \in [Link -> Nat] /\ Shifting \subseteq Link /\ Delays \subseteq Nat
  /\ MaxShifts \in Nat /\ MaxInFlight \in Nat

(* The links of a path, in order, and the switches they lead to.           *)
Links(p) == IF p = "short" THEN <<"s1s2", "s2s4">> ELSE <<"s1s2", "s2s3", "s3s4">>
Switches(p) == IF p = "short" THEN <<1, 2, 4>> ELSE <<1, 2, 3, 4>>

(* When a packet sent at time 0 on path p comes to its i-th switch.        *)
ArrivalAt(p, d, i) ==
  LET after[k \in 1..i] == IF k = 1 THEN 0 ELSE after[k - 1] + d[Links(p)[k - 1]]
  IN  after[i]

(* The time a packet takes from s1 to s4 on path p.                        *)
EndToEnd(p, d) == ArrivalAt(p, d, Len(Switches(p)))

(* The hop entries of the clone the cNF gets: one of every switch but s4.  *)
IntStack(p, d) ==
  [i \in 1..(Len(Switches(p)) - 1) |->
     [switch_id |-> Switches(p)[i],
      ingress_timestamp |-> ArrivalAt(p, d, i) + Offset[Switches(p)[i]]]]

-----------------------------------------------------------------------------
(* calculate_metrics: the path is the list of the hops' ids, the latency   *)
(* the distance between the first and the last stamp.                      *)

TotalLatency(hops) ==
  LET first == hops[1].ingress_timestamp
      last == hops[Len(hops)].ingress_timestamp
  IN  IF Len(hops) < 2 THEN 0 ELSE IF last >= first THEN last - first ELSE first - last

PathOf(hops) == [i \in DOMAIN hops |-> hops[i].switch_id]

PathIds == {PathOf(IntStack(p, FirstDelay)) : p \in Path}

Nothing == [h \in Host |-> <<>>]
Cnf == INSTANCE Cnf WITH Flow <- Host, PathId <- PathIds, Latency <- Nat,
         REPORT_INTERVAL <- 1, MaxPackets <- 0,
         packet_counter <- Nothing, sent <- {}, log <- Nothing

-----------------------------------------------------------------------------

Init ==
  /\ Plugin!Init
  /\ samples = Nothing /\ baselines = <<>> /\ last_path = <<>>
  /\ delay = FirstDelay
  /\ wire = [p \in Path |-> <<>>]
  /\ shifts = 0

(* The delay of a link changes (README.md:84: tc qdisc ... netem delay).   *)
Shift(l, d) ==
  /\ shifts < MaxShifts
  /\ d # delay[l]
  /\ delay' = [delay EXCEPT ![l] = d]
  /\ shifts' = shifts + 1
  /\ UNCHANGED <<pluginState, pending, clock, cnfState, wire>>

(* The degraded report a packet may yet lead to.  Mutant: it names the     *)
(* path its flow has by then.                                              *)
ReportNamesCurrentRoute(p, packet) ==
  [kind |-> "degraded", host |-> packet.host, path |-> route[packet.host],
   born |-> packet.born]
ReportOn(p, packet) ==
  [kind |-> "degraded", host |-> packet.host, path |-> p, born |-> packet.born]

Foreseen ==
  pending \cup UNION {{ReportOn(p, wire[p][i]) : i \in DOMAIN wire[p]} : p \in Path}

(***************************************************************************)
(* s2 forwards a telemetry packet to h along its route of the moment.  A   *)
(* tick is short enough for packets of a flow that are under way together  *)
(* to have been sent in different ticks.                                   *)
(***************************************************************************)
SendPacket(h) ==
  /\ Len(wire[route[h]]) < MaxInFlight
  /\ ReportOn(route[h], [host |-> h, born |-> clock]) \notin Foreseen
  /\ Cardinality(Foreseen) < MaxPending
  /\ wire' = [wire EXCEPT ![route[h]] =
                Append(@, [host |-> h, hops |-> IntStack(route[h], delay), born |-> clock])]
  /\ UNCHANGED <<pluginState, pending, clock, cnfState, delay, shifts>>

(***************************************************************************)
(* handle_packet on the next clone from path p: PathState.update, then the *)
(* verdict, and a report if it is "degraded".                              *)
(***************************************************************************)
Analyse(p) ==
  /\ wire[p] # <<>>
  /\ LET packet == Head(wire[p])
         h == packet.host
         path_id == PathOf(packet.hops)
         latency == TotalLatency(packet.hops)
     IN  /\ samples' = [samples EXCEPT ![h] = Cnf!NewSamples(h, path_id, latency)]
         /\ baselines' = Cnf!NewBaselines(h, path_id, latency)
         /\ last_path' = [g \in DOMAIN last_path \cup {h} |->
                            IF g = h THEN path_id ELSE last_path[g]]
         /\ pending' = IF Cnf!IsDegraded(samples'[h], baselines', h)
                       THEN pending \cup {ReportOn(p, packet)}
                       ELSE pending
  /\ wire' = [wire EXCEPT ![p] = Tail(@)]
  /\ UNCHANGED <<pluginState, clock, delay, shifts>>

(* te_plugin's own steps, which leave the cNF and the network alone.       *)
Lose(r) == Plugin!Lose(r) /\ UNCHANGED <<cnfState, network>>
Skip(r) == Plugin!Skip(r) /\ UNCHANGED <<cnfState, network>>
Start(r) == Plugin!Start(r) /\ UNCHANGED <<cnfState, network>>
WriteEntry == Plugin!WriteEntry /\ UNCHANGED <<cnfState, network>>
WriteFails(applied) == Plugin!WriteFails(applied) /\ UNCHANGED <<cnfState, network>>
Finish == Plugin!Finish /\ UNCHANGED <<cnfState, network>>

(* Time passes; MaxLag counts from s2's choice of the route.               *)
Tick ==
  /\ Plugin!Tick
  /\ \A r \in Foreseen : clock + 1 - r.born <= MaxLag
  /\ UNCHANGED <<cnfState, network>>

Next ==
  \/ \E l \in Shifting, d \in Delays : Shift(l, d)
  \/ \E h \in Host : SendPacket(h)
  \/ \E p \in Path : Analyse(p)
  \/ \E r \in pending : Lose(r)
  \/ Tick
  \/ \E r \in pending : Skip(r) \/ Start(r)
  \/ WriteEntry
  \/ \E applied \in BOOLEAN : WriteFails(applied)
  \/ Finish

Spec == Init /\ [][Next]_vars

(***************************************************************************)
(* Every flow goes on, the cNF handles what reaches it, a report now and   *)
(* then gets through, and P4Runtime calls return or raise.                 *)
(***************************************************************************)
Fairness ==
  /\ \A h \in Host : SF_vars(SendPacket(h))
  /\ \A p \in Path : WF_vars(Analyse(p))
  /\ SF_vars(\E r \in pending : Start(r))
  /\ WF_vars(WriteEntry \/ \E applied \in BOOLEAN : WriteFails(applied))
  /\ WF_vars(Finish)

FairSpec == Spec /\ Fairness

-----------------------------------------------------------------------------

(* The cNF's state over the paths and the packets on their way.            *)
TypeOK ==
  /\ Plugin!TypeOK
  /\ samples \in [Host -> Seq(Nat)] /\ \A h \in Host : Len(samples[h]) <= WINDOW_SIZE
  /\ DOMAIN baselines \subseteq DOMAIN last_path /\ DOMAIN last_path \subseteq Host
  /\ \A h \in DOMAIN last_path : last_path[h] \in PathIds
  /\ delay \in [Link -> Nat] /\ shifts \in 0..MaxShifts
  /\ \A p \in Path : \A i \in DOMAIN wire[p] :
       wire[p][i].host \in Host /\ PathOf(wire[p][i].hops) \in PathIds

(***************************************************************************)
(* The loop implements TEPlugin, whose reports are then the degraded ones  *)
(* that are on their way or that a packet under way may still cause: what  *)
(* TEPlugin's theorems say of the cooldown and the routes holds here.      *)
(***************************************************************************)
Abstract == INSTANCE TEPlugin WITH pending <- Foreseen
ImplementsPlugin == Abstract!Spec

(***************************************************************************)
(* The loop is stable: one change of a delay causes at most one completed  *)
(* reroute, whatever writes fail, although every reroute throws the cNF's  *)
(* baselines away and packets of the two paths come to it out of order.    *)
(* (What is sent on the other path is all measured after the change.)      *)
(***************************************************************************)
OneChangeOneReroute == shifts <= 1 => Len(emitted) <= 1

(***************************************************************************)
(* cnf.py:165: the baseline is reset on a change of path "so stale         *)
(* baseline doesn't linger", and te_plugin.py:129: the cooldown "prevents  *)
(* flapping when multiple degraded reports arrive".  So the routes are not *)
(* moved to and fro more often than the network changes.                   *)
(***************************************************************************)
RoutesDoNotSwing == Len(emitted) <= 2 * shifts

(***************************************************************************)
(* A network that does not change causes no alarm and moves no flow,       *)
(* whatever the delays, and however far the switches' clocks are apart: a  *)
(* constant offset is in every sample and in the baseline alike.           *)
(***************************************************************************)
SteadyNetworkIsQuiet ==
  shifts = 0 => pending = {} /\ emitted = <<>> /\ \A h \in Host : route[h] = "short"

(***************************************************************************)
(* The loop works: a path on which a flow measures a latency that is off   *)
(* the flow's baseline is not used for ever, whatever writes failed before *)
(* and even if the plugin has the wrong path for the active one, unless    *)
(* the cooldown never ends.                                                *)
(***************************************************************************)
Off(h) ==
  /\ h \in DOMAIN baselines
  /\ last_path[h] = PathOf(IntStack(route[h], delay))
  /\ Cnf!Detector!Exceeds(TotalLatency(IntStack(route[h], delay)), 1,
                          baselines[h], WINDOW_SIZE, DEGRADATION_PCT)

LoopCloses ==
  []<>~Plugin!CooldownActive => \A h \in Host : ~<>[]Off(h)

(***************************************************************************)
(* README.md:21: "O plugin de Traffic Engineering deteta degradacao de     *)
(* caminho e reconfigura as regras LPM em s2": when the short path becomes *)
(* slower for good after every flow has its baseline, flows leave it.      *)
(***************************************************************************)
Measured == shifts = 0 /\ \A h \in Host : h \in DOMAIN baselines

SlowPathIsLeft ==
  <>Measured /\ <>[](EndToEnd("short", delay) > EndToEnd("short", FirstDelay))
    => <>(\E h \in Host : route[h] = "long")

=============================================================================
