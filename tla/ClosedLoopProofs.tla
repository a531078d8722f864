-------------------------- MODULE ClosedLoopProofs --------------------------
(***************************************************************************)
(* The closed loop for any number of hosts, any delays, clock offsets,     *)
(* windows and bounds.  It implements TEPlugin: with the reports that are  *)
(* foreseen in the place of those that are pending, every step of the loop *)
(* is a step of TEPlugin or leaves its variables alone; the invariant      *)
(* behind it says that a packet and its report are never foreseen twice.   *)
(* So TEPlugin's theorems hold of the loop.  And a network that does not   *)
(* change raises no alarm, which takes what CnfProofs knows of sums, and   *)
(* one that changes once is rerouted at most once.                         *)
(***************************************************************************)
EXTENDS ClosedLoop, SequenceTheorems, TLAPS

Packet ==
  [host : Host, hops : {IntStack(p, d) : p \in Path, d \in [Link -> Nat]}, born : Nat]

(* The types that the packets on the wire depend on.                       *)
LoopTypes ==
  /\ current_path \in Path
  /\ job \in [target : Path, next : Nat, now : Nat]
  /\ route \in [Host -> Path]
  /\ clock \in Nat
  /\ delay \in [Link -> Nat]
  /\ wire \in [Path -> Seq(Packet)]

(* No two packets of a path lead to the same report, and no packet to a    *)
(* report that is already on its way.                                      *)
NothingTwice ==
  \A p \in Path : \A i \in DOMAIN wire[p] :
    /\ ReportOn(p, wire[p][i]) \notin pending
    /\ \A j \in DOMAIN wire[p] :
         ReportOn(p, wire[p][i]) = ReportOn(p, wire[p][j]) => i = j

LoopInv == LoopTypes /\ NothingTwice

(* What is foreseen: the reports on their way and those of the packets.    *)
LEMMA ForeseenMembers ==
  \A r : r \in Foreseen <=>
    r \in pending \/ \E p \in Path : \E i \in DOMAIN wire[p] : r = ReportOn(p, wire[p][i])
  BY DEF Foreseen

(* The same, after a step.                                                 *)
LEMMA ForeseenMembersNext ==
  \A r : r \in Foreseen' <=>
    r \in pending' \/ \E p \in Path : \E i \in DOMAIN wire'[p] : r = ReportOn(p, wire'[p][i])
<1>1. \A p \in Path : DOMAIN (wire'[p]) = (DOMAIN wire[p])'
  OBVIOUS
<1>2. \A p, packet : ReportOn(p, packet)' =
        [kind |-> "degraded", host |-> packet.host, path |-> p, born |-> packet.born]
  BY DEF ReportOn
<1>. QED  BY DEF Foreseen, ReportOn

(* Taking a report off its way takes it out of what is foreseen.           *)
LEMMA TakeReport ==
  ASSUME LoopInv, NEW r \in pending, pending' = pending \ {r}, UNCHANGED wire
  PROVE  Foreseen' = Foreseen \ {r} /\ NothingTwice'
<1>1. \A p \in Path : \A i \in DOMAIN wire[p] : ReportOn(p, wire[p][i]) # r
  BY DEF LoopInv, NothingTwice
<1>2. Foreseen' = Foreseen \ {r}
  BY <1>1, ForeseenMembers, ForeseenMembersNext
<1>3. NothingTwice'
  BY DEF LoopInv, NothingTwice, ReportOn
<1>. QED  BY <1>2, <1>3

(* Nothing changes on the wire and on the way to the plugin.               *)
LEMMA QuietStep ==
  ASSUME LoopInv, UNCHANGED <<pending, wire>>
  PROVE  Foreseen' = Foreseen /\ NothingTwice'
<1>1. Foreseen' = Foreseen
  BY ForeseenMembers, ForeseenMembersNext
<1>2. NothingTwice'
  BY DEF LoopInv, NothingTwice, ReportOn
<1>. QED  BY <1>1, <1>2

(* A reroute goes to the other of the two paths.                           *)
LEMMA OtherIsPath == \A p \in Path : Plugin!Other(p) \in Path
  BY DEF Path, Plugin!Other

(* A packet that is sent is new, so its report is.                         *)
LEMMA SendStep ==
  ASSUME LoopInv, NEW h \in Host, SendPacket(h)
  PROVE  LoopInv' /\ Abstract!Produce(h, "degraded")
<1> DEFINE q == route[h]
           packet == [host |-> h, hops |-> IntStack(q, delay), born |-> clock]
           report == [kind |-> "degraded", host |-> h, path |-> q, born |-> clock]
           sent == Append(wire[q], packet)
<1>1. q \in Path /\ packet \in Packet
  BY DEF LoopInv, LoopTypes, Packet
<1>2. wire[q] \in Seq(Packet) /\ wire' = [wire EXCEPT ![q] = sent]
  BY <1>1 DEF LoopInv, LoopTypes, SendPacket
<1>3. wire' \in [Path -> Seq(Packet)]
  BY <1>1, <1>2 DEF LoopInv, LoopTypes
<1>4. /\ wire'[q] = sent
      /\ \A p \in Path : p # q => wire'[p] = wire[p]
  BY <1>1, <1>2 DEF LoopInv, LoopTypes
<1>5. /\ DOMAIN sent = (DOMAIN wire[q]) \cup {Len(wire[q]) + 1}
      /\ \A i \in DOMAIN wire[q] : sent[i] = wire[q][i] /\ i # Len(wire[q]) + 1
      /\ sent[Len(wire[q]) + 1] = packet
  BY <1>1, <1>2
<1>6. ReportOn(q, packet) = report
  BY DEF ReportOn
<1>7. report \notin Foreseen
  BY DEF SendPacket, ReportOn
<1>8. UNCHANGED <<pluginState, pending, clock, delay>>
  BY DEF SendPacket
<1> HIDE DEF packet, report, sent, q
<1>9. Foreseen' = Foreseen \cup {report}
  BY <1>1, <1>4, <1>5, <1>6, <1>8, ForeseenMembers, ForeseenMembersNext
<1>10. \A p \in Path : \A i \in DOMAIN wire[p] : ReportOn(p, wire[p][i]) # report
  BY <1>7, ForeseenMembers
<1>11. report \notin pending
  BY <1>7, ForeseenMembers
<1>12. NothingTwice'
  <2> SUFFICES ASSUME NEW p \in Path, NEW i \in DOMAIN wire'[p]
               PROVE  /\ ReportOn(p, wire'[p][i]) \notin pending
                      /\ \A j \in DOMAIN wire'[p] :
                           ReportOn(p, wire'[p][i]) = ReportOn(p, wire'[p][j]) => i = j
    BY <1>8 DEF NothingTwice, ReportOn
  <2>1. CASE p # q
    BY <1>4, <2>1 DEF LoopInv, NothingTwice
  <2>2. CASE p = q
    BY <1>4, <1>5, <1>6, <1>10, <1>11, <2>2 DEF LoopInv, NothingTwice
  <2>. QED  BY <2>1, <2>2
<1>13. LoopTypes'
  BY <1>3, <1>8 DEF LoopInv, LoopTypes, pluginState
<1>14. Abstract!Produce(h, "degraded")
  <2>1. Cardinality(Foreseen) < MaxPending
    BY DEF SendPacket
  <2>2. Abstract!Cardinality(Foreseen) < MaxPending
    BY <2>1 DEF Cardinality, Abstract!Cardinality
  <2>. QED  BY <1>8, <1>9, <2>2 DEF Abstract!Produce, Abstract!pluginVars, pluginState, report, q
<1>. QED  BY <1>12, <1>13, <1>14 DEF LoopInv

(* A packet that is analysed becomes its report, or the report is lost.    *)
LEMMA AnalyseStep ==
  ASSUME LoopInv, NEW p \in Path, Analyse(p)
  PROVE  /\ LoopInv'
         /\ \/ UNCHANGED Abstract!vars
            \/ \E r \in Foreseen : Abstract!Lose(r)
<1> DEFINE packet == Head(wire[p])
           rest == Tail(wire[p])
           report == ReportOn(p, packet)
<1>1. wire[p] \in Seq(Packet) /\ wire[p] # <<>>
  BY DEF LoopInv, LoopTypes, Analyse
<1>2. rest \in Seq(Packet) /\ packet = wire[p][1] /\ Len(wire[p]) \in Nat \ {0}
  BY <1>1
<1>3. /\ DOMAIN rest = 1..(Len(wire[p]) - 1)
      /\ \A i \in DOMAIN rest : rest[i] = wire[p][i + 1]
      /\ DOMAIN wire[p] = 1..Len(wire[p])
  BY <1>1
<1>4. wire' = [wire EXCEPT ![p] = rest]
  BY DEF Analyse
<1>5. wire' \in [Path -> Seq(Packet)]
  BY <1>2, <1>4 DEF LoopInv, LoopTypes
<1>6. wire'[p] = rest /\ \A q \in Path : q # p => wire'[q] = wire[q]
  BY <1>4 DEF LoopInv, LoopTypes
<1>7. pending' = pending \cup {report} \/ pending' = pending
  BY DEF Analyse
<1>8. UNCHANGED <<pluginState, clock, delay>>
  BY DEF Analyse
<1>9. 1 \in DOMAIN wire[p] /\ report = ReportOn(p, wire[p][1])
  BY <1>2, <1>3
<1>10. \A i \in DOMAIN rest : i + 1 \in DOMAIN wire[p] /\ i + 1 # 1
  BY <1>2, <1>3
<1>11. \A i \in DOMAIN wire[p] : i # 1 => i - 1 \in DOMAIN rest /\ (i - 1) + 1 = i
  BY <1>2, <1>3
<1> HIDE DEF packet, rest, report
<1>12. report \notin pending
  BY <1>9 DEF LoopInv, NothingTwice
<1>13. \A i \in DOMAIN rest : ReportOn(p, rest[i]) # report
  BY <1>3, <1>9, <1>10 DEF LoopInv, NothingTwice
<1>14. \A q \in Path : q # p =>
         \A i \in DOMAIN wire[q] : ReportOn(q, wire[q][i]) # report
  BY DEF ReportOn, report
<1>15. \A r : (\E i \in DOMAIN wire[p] : r = ReportOn(p, wire[p][i]))
              <=> r = report \/ \E i \in DOMAIN rest : r = ReportOn(p, rest[i])
  <2> SUFFICES ASSUME NEW r
               PROVE  (\E i \in DOMAIN wire[p] : r = ReportOn(p, wire[p][i]))
                      <=> r = report \/ \E i \in DOMAIN rest : r = ReportOn(p, rest[i])
    OBVIOUS
  <2>1. ASSUME NEW i \in DOMAIN wire[p], r = ReportOn(p, wire[p][i])
        PROVE  r = report \/ \E k \in DOMAIN rest : r = ReportOn(p, rest[k])
    BY <1>3, <1>9, <1>11, <2>1
  <2>2. ASSUME NEW i \in DOMAIN rest, r = ReportOn(p, rest[i])
        PROVE  \E k \in DOMAIN wire[p] : r = ReportOn(p, wire[p][k])
    BY <1>3, <1>10, <2>2
  <2>. QED  BY <1>9, <2>1, <2>2
<1>16. report \in Foreseen
  BY <1>9, ForeseenMembers
<1>17. ASSUME pending' = pending \cup {report} PROVE UNCHANGED Abstract!vars
  <2>1. Foreseen' = Foreseen
    <3>1. ASSUME NEW r \in Foreseen PROVE r \in Foreseen'
      BY <1>6, <1>15, <1>17, ForeseenMembers, ForeseenMembersNext
    <3>2. ASSUME NEW r \in Foreseen' PROVE r \in Foreseen
      BY <1>6, <1>15, <1>16, <1>17, ForeseenMembers, ForeseenMembersNext
    <3>. QED  BY <3>1, <3>2
  <2>2. UNCHANGED Abstract!vars
    BY <1>8, <2>1 DEF Abstract!vars, pluginState
  <2>. QED  BY <2>2
<1>18. ASSUME pending' = pending PROVE \E r \in Foreseen : Abstract!Lose(r)
  <2>1. Foreseen' = Foreseen \ {report}
    BY <1>6, <1>12, <1>13, <1>14, <1>15, <1>18, ForeseenMembers, ForeseenMembersNext
  <2>2. Abstract!Lose(report)
    BY <1>8, <2>1 DEF Abstract!Lose, Abstract!pluginVars, pluginState
  <2>. QED  BY <1>16, <2>2
<1>19. NothingTwice'
  <2> SUFFICES ASSUME NEW q \in Path, NEW i \in DOMAIN wire'[q]
               PROVE  /\ ReportOn(q, wire'[q][i]) \notin pending'
                      /\ \A j \in DOMAIN wire'[q] :
                           ReportOn(q, wire'[q][i]) = ReportOn(q, wire'[q][j]) => i = j
    BY DEF NothingTwice, ReportOn
  <2>1. CASE q # p
    BY <1>6, <1>7, <1>14, <2>1 DEF LoopInv, NothingTwice
  <2>2. CASE q = p
    <3>1. i \in DOMAIN rest /\ wire'[q] = rest
      BY <1>6, <2>2
    <3>2. rest[i] = wire[p][i + 1] /\ i + 1 \in DOMAIN wire[p]
      BY <1>3, <1>10, <3>1
    <3>3. ReportOn(p, rest[i]) \notin pending'
      BY <1>7, <1>13, <3>1, <3>2 DEF LoopInv, NothingTwice
    <3>4. ASSUME NEW j \in DOMAIN rest, ReportOn(p, rest[i]) = ReportOn(p, rest[j])
          PROVE  i = j
      <4>1. rest[j] = wire[p][j + 1] /\ j + 1 \in DOMAIN wire[p]
        BY <1>3, <1>10
      <4>2. i + 1 = j + 1
        BY <3>2, <3>4, <4>1 DEF LoopInv, NothingTwice
      <4>3. i \in Int /\ j \in Int
        BY <1>2, <1>3, <3>1
      <4>. QED  BY <4>2, <4>3
    <3>. QED  BY <2>2, <3>1, <3>3, <3>4
  <2>. QED  BY <2>1, <2>2
<1>20. LoopTypes'
  BY <1>5, <1>8 DEF LoopInv, LoopTypes, pluginState
<1>. QED  BY <1>7, <1>17, <1>18, <1>19, <1>20 DEF LoopInv

(* The steps of te_plugin that take a report.                              *)
LEMMA TakingStep ==
  ASSUME LoopInv, NEW r \in pending, Lose(r) \/ Skip(r) \/ Start(r)
  PROVE  /\ LoopInv'
         /\ r \in Foreseen
         /\ Abstract!Lose(r) \/ Abstract!Skip(r) \/ Abstract!Start(r)
<1> USE DEF cnfState, network, Plugin!pluginVars, Abstract!pluginVars
<1>1. pending' = pending \ {r} /\ UNCHANGED <<wire, delay, clock, current_path, route>>
  BY DEF Lose, Skip, Start, Plugin!Lose, Plugin!Skip, Plugin!Start
<1>2. Foreseen' = Foreseen \ {r} /\ NothingTwice'
  BY <1>1, TakeReport
<1>3. job' \in [target : Path, next : Nat, now : Nat]
  BY OtherIsPath DEF LoopInv, LoopTypes, Lose, Skip, Start, Plugin!Lose, Plugin!Skip,
       Plugin!Start
<1>4. LoopInv'
  BY <1>1, <1>2, <1>3 DEF LoopInv, LoopTypes
<1>5. r \in Foreseen
  BY ForeseenMembers
<1>6. CASE Lose(r)
  BY <1>2, <1>4, <1>5, <1>6 DEF Lose, Plugin!Lose, Abstract!Lose
<1>7. CASE Skip(r)
  BY <1>2, <1>4, <1>5, <1>7
     DEF Skip, Plugin!Skip, Abstract!Skip, Plugin!CooldownActive, Abstract!CooldownActive
<1>8. CASE Start(r)
  BY <1>2, <1>4, <1>5, <1>8
     DEF Start, Plugin!Start, Abstract!Start, Plugin!CooldownActive,
         Abstract!CooldownActive, Plugin!Other, Abstract!Other
<1>. QED  BY <1>6, <1>7, <1>8

(* The writes of a reroute, its end, and time.                             *)
LEMMA PluginStep ==
  ASSUME LoopInv,
         \/ WriteEntry \/ Finish \/ Tick
         \/ \E applied \in BOOLEAN : WriteFails(applied)
  PROVE  LoopInv' /\ Abstract!Next
<1> USE DEF cnfState, network, Plugin!pluginVars, Abstract!pluginVars
<1>1. UNCHANGED <<pending, wire, delay>>
  BY DEF WriteEntry, Finish, Tick, WriteFails, Plugin!WriteEntry, Plugin!Finish,
         Plugin!Tick, Plugin!WriteFails
<1>2. Foreseen' = Foreseen /\ NothingTwice'
  BY <1>1, QuietStep
<1>3. CASE WriteEntry
  <2>1. /\ job' \in [target : Path, next : Nat, now : Nat]
        /\ route' \in [Host -> Path]
    <3>1. job \in [target : Path, next : Nat, now : Nat] /\ route \in [Host -> Path]
      BY DEF LoopInv, LoopTypes
    <3>2. /\ job' = [job EXCEPT !.next = job.next + 1]
          /\ route' = [route EXCEPT ![job.next] = job.target]
      BY <1>3 DEF WriteEntry, Plugin!WriteEntry
    <3>3. job' \in [target : Path, next : Nat, now : Nat]
      BY <3>1, <3>2
    <3>4. job.target \in Path
      BY <3>1
    <3>. QED  BY <3>1, <3>2, <3>3, <3>4
  <2>3. LoopTypes'
    BY <1>1, <1>3, <2>1 DEF LoopInv, LoopTypes, WriteEntry, Plugin!WriteEntry
  <2>2. Abstract!WriteEntry
    BY <1>2, <1>3 DEF WriteEntry, Plugin!WriteEntry, Abstract!WriteEntry
  <2>. QED  BY <1>2, <2>2, <2>3 DEF LoopInv, Abstract!Next
<1>4. ASSUME NEW applied \in BOOLEAN, WriteFails(applied)
      PROVE  LoopInv' /\ Abstract!Next
  <2>1. LoopTypes'
    BY <1>1, <1>4 DEF LoopInv, LoopTypes, WriteFails, Plugin!WriteFails
  <2>2. Abstract!WriteFails(applied)
    BY <1>2, <1>4 DEF WriteFails, Plugin!WriteFails, Abstract!WriteFails
  <2>. QED  BY <1>2, <2>1, <2>2 DEF LoopInv, Abstract!Next
<1>5. CASE Finish
  <2>1. LoopTypes'
    BY <1>1, <1>5 DEF LoopInv, LoopTypes, Finish, Plugin!Finish
  <2>2. Abstract!Finish
    BY <1>2, <1>5 DEF Finish, Plugin!Finish, Abstract!Finish
  <2>. QED  BY <1>2, <2>1, <2>2 DEF LoopInv, Abstract!Next
<1>6. CASE Tick
  <2>1. LoopTypes'
    BY <1>1, <1>6 DEF LoopInv, LoopTypes, Tick, Plugin!Tick
  <2>2. Abstract!Tick
    BY <1>2, <1>6 DEF Tick, Plugin!Tick, Abstract!Tick
  <2>. QED  BY <1>2, <2>1, <2>2 DEF LoopInv, Abstract!Next
<1>. QED  BY <1>3, <1>4, <1>5, <1>6

(* Every step of the loop is one of TEPlugin, or none.                     *)
LEMMA LoopStep == LoopInv /\ [Next]_vars => LoopInv' /\ [Abstract!Next]_Abstract!vars
<1> SUFFICES ASSUME LoopInv, [Next]_vars
             PROVE  LoopInv' /\ [Abstract!Next]_Abstract!vars
  OBVIOUS
<1>1. ASSUME NEW l \in Shifting, NEW d \in Delays, Shift(l, d)
      PROVE  LoopInv' /\ UNCHANGED Abstract!vars
  <2>1. Foreseen' = Foreseen /\ NothingTwice'
    BY <1>1, QuietStep DEF Shift
  <2>2. delay' \in [Link -> Nat]
    BY <1>1, LoopAssumption DEF LoopInv, LoopTypes, Shift
  <2>. QED  BY <1>1, <2>1, <2>2 DEF LoopInv, LoopTypes, Shift, pluginState, Abstract!vars
<1>2. ASSUME NEW h \in Host, SendPacket(h) PROVE LoopInv' /\ Abstract!Next
  <2>1. Abstract!Produce(h, "degraded") /\ LoopInv'
    BY <1>2, SendStep
  <2>2. h \in Abstract!Host /\ "degraded" \in Abstract!Kind
    BY DEF Host, Abstract!Host, Abstract!Kind
  <2>. QED  BY <2>1, <2>2 DEF Abstract!Next
<1>3. ASSUME NEW p \in Path, Analyse(p)
      PROVE  LoopInv' /\ (UNCHANGED Abstract!vars \/ Abstract!Next)
  BY <1>3, AnalyseStep DEF Abstract!Next
<1>4. ASSUME NEW r \in pending, Lose(r) \/ Skip(r) \/ Start(r)
      PROVE  LoopInv' /\ Abstract!Next
  BY <1>4, TakingStep DEF Abstract!Next, Abstract!Handle
<1>5. ASSUME \/ WriteEntry \/ Finish \/ Tick
             \/ \E applied \in BOOLEAN : WriteFails(applied)
      PROVE  LoopInv' /\ Abstract!Next
  BY <1>5, PluginStep
<1>6. ASSUME UNCHANGED vars PROVE LoopInv' /\ UNCHANGED Abstract!vars
  <2>1. UNCHANGED <<pluginState, pending, clock, wire, delay>>
    BY <1>6 DEF vars, network
  <2>2. Foreseen' = Foreseen /\ NothingTwice'
    BY <2>1, QuietStep
  <2>. QED  BY <2>1, <2>2 DEF LoopInv, LoopTypes, pluginState, Abstract!vars
<1>. QED  BY <1>1, <1>2, <1>3, <1>4, <1>5, <1>6 DEF Next

(* At the start nothing is under way.                                      *)
LEMMA LoopInit == Init => LoopInv /\ Abstract!Init
<1> SUFFICES ASSUME Init PROVE LoopInv /\ Abstract!Init
  OBVIOUS
<1>1. /\ pending = {} /\ \A p \in Path : wire[p] = <<>> /\ DOMAIN wire[p] = {}
      /\ wire \in [Path -> Seq(Packet)]
  BY DEF Init, Plugin!Init
<1>2. NothingTwice
  BY <1>1 DEF NothingTwice
<1>3. Foreseen = {}
  BY <1>1, ForeseenMembers
<1>4. LoopTypes
  <2>1. current_path \in Path /\ job \in [target : Path, next : Nat, now : Nat]
    BY DEF Init, Plugin!Init, Path
  <2>2. route \in [Host -> Path]
    BY DEF Init, Plugin!Init, Path, Host, Plugin!Host
  <2>3. clock \in Nat /\ delay \in [Link -> Nat]
    BY LoopAssumption DEF Init, Plugin!Init
  <2>. QED  BY <1>1, <2>1, <2>2, <2>3 DEF LoopTypes
<1>5. Abstract!Init
  BY <1>3 DEF Init, Plugin!Init, Abstract!Init, Plugin!Host, Abstract!Host
<1>. QED  BY <1>2, <1>4, <1>5 DEF LoopInv

(***************************************************************************)
(* The closed loop of s2's routes, the cNF and te_plugin implements        *)
(* TEPlugin: no packet that is late, overtaken or misjudged makes it do    *)
(* what TEPlugin excludes.                                                 *)
(***************************************************************************)
THEOREM LoopImplementsPlugin == Spec => ImplementsPlugin
<1>1. Spec => []LoopInv
  BY LoopInit, LoopStep, PTL DEF Spec
<1>. QED  BY <1>1, LoopInit, LoopStep, PTL DEF Spec, ImplementsPlugin, Abstract!Spec
-----------------------------------------------------------------------------
(***************************************************************************)
(* The types of the cNF's state: what it computes from a packet is again a *)
(* path of the topology and a natural latency, whatever the delays were    *)
(* when the packet was on its way and whatever the clocks' offsets are.    *)
(***************************************************************************)

(* A packet comes to each switch of its path after the delays before it.   *)
LEMMA ArrivalType ==
  ASSUME NEW p \in Path, NEW d \in [Link -> Nat], NEW i \in 1..(Len(Switches(p)) - 1)
  PROVE  ArrivalAt(p, d, i) \in Nat
<1> DEFINE L == Links(p)
           at(k) == IF k = 1 THEN 0 ELSE IF k = 2 THEN d[L[1]] ELSE d[L[1]] + d[L[2]]
           Sums(f) == f = [k \in 1..i |-> IF k = 1 THEN 0 ELSE f[k - 1] + d[L[k - 1]]]
           sums == [k \in 1..i |-> at(k)]
           after == CHOOSE f : Sums(f)
<1>1. i \in 1..3
  <2>1. CASE p = "short"
    BY <2>1 DEF Switches
  <2>2. CASE p = "long"
    BY <2>2 DEF Switches
  <2>. QED  BY <2>1, <2>2 DEF Path
<1>2. d[L[1]] \in Nat /\ d[L[2]] \in Nat
  BY DEF Path, Links, Link
<1>3. ArrivalAt(p, d, i) = after[i]
  BY DEF ArrivalAt
<1> HIDE DEF L
<1>4. Sums(sums)
  <2>1. \A k \in 1..i : k # 1 => k - 1 \in 1..i /\ (k = 2 \/ k = 3)
    BY <1>1
  <2>2. \A k \in 1..i : at(k) = IF k = 1 THEN 0 ELSE sums[k - 1] + d[L[k - 1]]
    <3> SUFFICES ASSUME NEW k \in 1..i
                 PROVE  at(k) = IF k = 1 THEN 0 ELSE sums[k - 1] + d[L[k - 1]]
      OBVIOUS
    <3>1. CASE k = 1
      BY <3>1
    <3>2. CASE k = 2
      <4>1. sums[1] = 0 /\ k - 1 = 1
        BY <2>1, <3>2
      <4>. QED  BY <1>2, <3>2, <4>1
    <3>3. CASE k = 3
      <4>1. sums[2] = d[L[1]] /\ k - 1 = 2
        BY <2>1, <3>3
      <4>. QED  BY <1>2, <3>3, <4>1
    <3>. QED  BY <2>1, <3>1, <3>2, <3>3
  <2>. QED  BY <2>2
<1> HIDE DEF sums
<1>5. Sums(after)
  <2> HIDE DEF Sums
  <2>. QED  BY <1>4
<1> HIDE DEF after
<1>6. \A k \in 1..i : after[k] = IF k = 1 THEN 0 ELSE after[k - 1] + d[L[k - 1]]
  BY <1>5
<1>7. after[1] = 0
  BY <1>1, <1>6
<1>8. i >= 2 => after[2] = d[L[1]]
  <2>1. i >= 2 => after[2] = after[1] + d[L[1]]
    BY <1>1, <1>6
  <2>. QED  BY <1>2, <1>7, <2>1
<1>9. i = 3 => after[3] = d[L[1]] + d[L[2]]
  <2>1. i = 3 => after[3] = after[2] + d[L[2]]
    BY <1>1, <1>6
  <2>. QED  BY <1>8, <2>1
<1>. QED  BY <1>1, <1>2, <1>3, <1>7, <1>8, <1>9

(* The hops name the path, which the delays have no part in.               *)
LEMMA PathOfStack ==
  ASSUME NEW p \in Path, NEW d
  PROVE  PathOf(IntStack(p, d)) \in PathIds
<1>1. PathOf(IntStack(p, d)) = PathOf(IntStack(p, FirstDelay))
  BY DEF PathOf, IntStack
<1>. QED  BY <1>1 DEF PathIds

(* The distance between two stamps is a natural number.                    *)
LEMMA LatencyType ==
  ASSUME NEW p \in Path, NEW d \in [Link -> Nat]
  PROVE  TotalLatency(IntStack(p, d)) \in Nat
<1> DEFINE n == Len(Switches(p)) - 1
           hops == IntStack(p, d)
<1>1. n \in 2..3 /\ \A i \in 1..n : Switches(p)[i] \in 1..4
  BY DEF Path, Switches
<1> HIDE DEF n
<1>2. /\ DOMAIN hops = 1..n
      /\ \A i \in 1..n :
           hops[i].ingress_timestamp = ArrivalAt(p, d, i) + Offset[Switches(p)[i]]
  BY DEF IntStack, n
<1>3. \A i \in 1..n : hops[i].ingress_timestamp \in Nat
  <2> SUFFICES ASSUME NEW i \in 1..n PROVE hops[i].ingress_timestamp \in Nat
    OBVIOUS
  <2>1. ArrivalAt(p, d, i) \in Nat
    BY ArrivalType DEF n
  <2>2. Offset[Switches(p)[i]] \in Nat
    BY <1>1, LoopAssumption
  <2>. QED  BY <1>2, <2>1, <2>2
<1>4. Len(hops) = n
  <2>1. hops \in Seq({hops[i] : i \in 1..n})
    <3> DEFINE R == {hops[i] : i \in 1..n}
    <3>1. hops = [i \in 1..n |-> hops[i]]
      BY DEF IntStack, n
    <3>2. hops \in [1..n -> R]
      <4> HIDE DEF hops
      <4>. QED  BY <3>1
    <3>3. n \in Nat
      BY <1>1
    <3> HIDE DEF R, hops
    <3>. QED  BY <3>2, <3>3 DEF R
  <2>. QED  BY <1>1, <1>2, <2>1, LenProperties
<1> HIDE DEF hops
<1>5. hops[1].ingress_timestamp \in Nat /\ hops[n].ingress_timestamp \in Nat
  BY <1>1, <1>3
<1>6. TotalLatency(hops) \in Nat
  BY <1>4, <1>5 DEF TotalLatency
<1>. QED  BY <1>6 DEF hops

(* What the cNF reads from a packet under way.                             *)
LEMMA PacketType ==
  \A packet \in Packet : /\ packet.host \in Host
                         /\ PathOf(packet.hops) \in PathIds
                         /\ TotalLatency(packet.hops) \in Nat
<1> SUFFICES ASSUME NEW packet \in Packet
             PROVE  /\ packet.host \in Host
                    /\ PathOf(packet.hops) \in PathIds
                    /\ TotalLatency(packet.hops) \in Nat
  OBVIOUS
<1>1. PICK p \in Path, d \in [Link -> Nat] : packet.hops = IntStack(p, d)
  BY DEF Packet
<1>2. PathOf(IntStack(p, d)) \in PathIds /\ TotalLatency(IntStack(p, d)) \in Nat
  BY PathOfStack, LatencyType
<1>. QED  BY <1>1, <1>2 DEF Packet

(* The packets on the wire are packets.                                    *)
LEMMA WireType ==
  LoopTypes => \A p \in Path : \A i \in DOMAIN wire[p] :
    wire[p][i].host \in Host /\ PathOf(wire[p][i].hops) \in PathIds
<1>1. ASSUME LoopTypes, NEW p \in Path, NEW i \in DOMAIN wire[p] PROVE wire[p][i] \in Packet
  <2>1. wire[p] \in Seq(Packet)
    BY <1>1 DEF LoopTypes
  <2>. QED  BY <2>1
<1>. QED  BY <1>1, PacketType

(* The same, after a step.                                                 *)
LEMMA WireTypeNext ==
  LoopTypes' => (\A p \in Path : \A i \in DOMAIN wire[p] :
    wire[p][i].host \in Host /\ PathOf(wire[p][i].hops) \in PathIds)'
  BY WireType, PTL

(* The window takes a new latency, and no more than WINDOW_SIZE of them.   *)
LEMMA WindowType ==
  ASSUME TypeOK, NEW h \in Host, NEW path_id, NEW latency \in Nat
  PROVE  /\ Cnf!NewSamples(h, path_id, latency) \in Seq(Nat)
         /\ Len(Cnf!NewSamples(h, path_id, latency)) <= WINDOW_SIZE
<1> DEFINE kept == Cnf!KeptSamples(h, path_id)
           appended == Append(kept, latency)
<1>1. kept \in Seq(Nat) /\ Len(kept) <= WINDOW_SIZE /\ Len(kept) \in Nat
  BY LoopAssumption DEF TypeOK, Cnf!KeptSamples
<1> HIDE DEF kept
<1>2. /\ appended \in Seq(Nat) /\ appended # <<>>
      /\ Len(appended) = Len(kept) + 1
  BY <1>1
<1>3. Cnf!NewSamples(h, path_id, latency)
        = IF Len(appended) > WINDOW_SIZE THEN Tail(appended) ELSE appended
  BY DEF Cnf!NewSamples, kept
<1> HIDE DEF appended
<1>4. Tail(appended) \in Seq(Nat) /\ Len(Tail(appended)) = Len(appended) - 1
  BY <1>2, HeadTailProperties
<1>. QED  BY <1>1, <1>2, <1>3, <1>4, LoopAssumption

(* A flow gets a baseline only with the packet that sets its last path.    *)
LEMMA BaselineFlows ==
  ASSUME NEW h, NEW path_id, NEW latency
  PROVE  DOMAIN Cnf!NewBaselines(h, path_id, latency) \subseteq DOMAIN baselines \cup {h}
  BY DEF Cnf!NewBaselines, Cnf!KeptBaselines

(* After a host of the list comes the next one, or the end of the loop.    *)
LEMMA NextHostType ==
  ASSUME NEW n \in 1..(NHosts + 1), n <= NHosts
  PROVE  n + 1 \in 1..(NHosts + 1)
  BY LoopAssumption

(* The steps of te_plugin and of time keep the types of its state.         *)
LEMMA PluginTypes ==
  ASSUME Plugin!TypeOK,
         \/ \E r \in pending : Lose(r) \/ Skip(r) \/ Start(r)
         \/ WriteEntry \/ Finish \/ Tick
         \/ \E applied \in BOOLEAN : WriteFails(applied)
  PROVE  Plugin!TypeOK'
<1> USE DEF Plugin!TypeOK, Plugin!pluginVars, Path, Plugin!Path
<1>1. ASSUME NEW r \in pending, Lose(r) \/ Skip(r) PROVE Plugin!TypeOK'
  BY <1>1 DEF Lose, Skip, Plugin!Lose, Plugin!Skip
<1>2. ASSUME NEW r \in pending, Start(r) PROVE Plugin!TypeOK'
  <2>1. Plugin!Other(current_path) \in Plugin!Path /\ 1 \in 1..(NHosts + 1)
    BY LoopAssumption DEF Plugin!Other
  <2>2. job' \in Plugin!Job
    BY <1>2, <2>1 DEF Start, Plugin!Start, Plugin!Job
  <2>. QED  BY <1>2, <2>2 DEF Start, Plugin!Start
<1>3. CASE WriteEntry
  <2>1. /\ job.next <= NHosts /\ route' = [route EXCEPT ![job.next] = job.target]
        /\ job' = [job EXCEPT !.next = job.next + 1]
        /\ UNCHANGED <<current_path, last_reroute, pc, emitted, pending, clock,
                       failures, finished>>
    BY <1>3 DEF WriteEntry, Plugin!WriteEntry
  <2>2. job.next \in 1..(NHosts + 1) /\ job.target \in Plugin!Path
    BY DEF Plugin!Job
  <2>3. job.next + 1 \in 1..(NHosts + 1)
    <3>1. PICK n \in 1..(NHosts + 1) : n = job.next
      BY <2>2
    <3>2. n <= NHosts
      BY <2>1, <3>1
    <3>3. n + 1 \in 1..(NHosts + 1)
      BY <3>2, NextHostType
    <3>. QED  BY <3>1, <3>3
  <2>4. job' \in Plugin!Job
    BY <2>1, <2>3 DEF Plugin!Job
  <2>5. route' \in [Plugin!Host -> Plugin!Path]
    BY <2>1, <2>2
  <2>. QED  BY <2>1, <2>4, <2>5
<1>4. ASSUME NEW applied \in BOOLEAN, WriteFails(applied) PROVE Plugin!TypeOK'
  <2>1. job.target \in Plugin!Path
    BY DEF Plugin!Job
  <2>2. route' \in [Plugin!Host -> Plugin!Path]
    BY <1>4, <2>1 DEF WriteFails, Plugin!WriteFails
  <2>. QED  BY <1>4, <2>2 DEF WriteFails, Plugin!WriteFails
<1>5. CASE Finish
  BY <1>5 DEF Finish, Plugin!Finish, Plugin!Job
<1>6. CASE Tick
  BY <1>6 DEF Tick, Plugin!Tick
<1>. QED  BY <1>1, <1>2, <1>3, <1>4, <1>5, <1>6

(* What handle_packet does of a packet under way keeps the types.          *)
LEMMA AnalyseTypes ==
  ASSUME LoopInv, LoopInv', TypeOK, NEW p \in Path, Analyse(p)
  PROVE  TypeOK'
<1> DEFINE packet == Head(wire[p])
           h == packet.host
           path_id == PathOf(packet.hops)
           latency == TotalLatency(packet.hops)
           report == ReportOn(p, packet)
<1>1. packet \in Packet
  <2>1. wire[p] \in Seq(Packet) /\ wire[p] # <<>>
    BY DEF LoopInv, LoopTypes, Analyse
  <2>. QED  BY <2>1
<1> HIDE DEF packet
<1>2. h \in Host /\ path_id \in PathIds /\ latency \in Nat
  BY <1>1, PacketType
<1>3. /\ samples' = [samples EXCEPT ![h] = Cnf!NewSamples(h, path_id, latency)]
      /\ baselines' = Cnf!NewBaselines(h, path_id, latency)
      /\ last_path' = [g \in DOMAIN last_path \cup {h} |->
                         IF g = h THEN path_id ELSE last_path[g]]
      /\ pending' = pending \cup {report} \/ pending' = pending
      /\ UNCHANGED <<pluginState, clock, delay, shifts>>
  BY DEF Analyse, packet
<1>4. report \in Plugin!Report
  <2>1. packet.born \in Nat
    BY <1>1 DEF Packet
  <2>. QED  BY <1>2, <2>1
            DEF ReportOn, Plugin!Report, Plugin!Kind, Plugin!Host, Plugin!Path, Host, Path
<1> HIDE DEF h, path_id, latency, report
<1>5. Plugin!TypeOK'
  BY <1>3, <1>4 DEF TypeOK, Plugin!TypeOK, pluginState
<1>6. /\ samples' \in [Host -> Seq(Nat)]
      /\ \A g \in Host : Len(samples'[g]) <= WINDOW_SIZE
  BY <1>2, <1>3, WindowType DEF TypeOK
<1>7. /\ DOMAIN baselines' \subseteq DOMAIN last_path'
      /\ DOMAIN last_path' \subseteq Host
      /\ \A g \in DOMAIN last_path' : last_path'[g] \in PathIds
  <2>1. DOMAIN baselines' \subseteq DOMAIN baselines \cup {h}
    BY <1>3, BaselineFlows
  <2>. QED  BY <1>2, <1>3, <2>1 DEF TypeOK
<1>8. (\A q \in Path : \A i \in DOMAIN wire[q] :
         wire[q][i].host \in Host /\ PathOf(wire[q][i].hops) \in PathIds)'
  BY WireTypeNext DEF LoopInv
<1>9. (delay \in [Link -> Nat] /\ shifts \in 0..MaxShifts)'
  BY <1>3 DEF TypeOK
<1>. QED  BY <1>5, <1>6, <1>7, <1>8, <1>9 DEF TypeOK

(* Every step of the loop keeps the types.                                 *)
LEMMA LoopTypeStep == LoopInv /\ LoopInv' /\ TypeOK /\ [Next]_vars => TypeOK'
<1> SUFFICES ASSUME LoopInv, LoopInv', TypeOK, [Next]_vars PROVE TypeOK'
  OBVIOUS
<1>1. (\A p \in Path : \A i \in DOMAIN wire[p] :
         wire[p][i].host \in Host /\ PathOf(wire[p][i].hops) \in PathIds)'
  BY WireTypeNext DEF LoopInv
<1>2. ASSUME UNCHANGED <<cnfState, delay, shifts>>, Plugin!TypeOK' PROVE TypeOK'
  BY <1>1, <1>2 DEF TypeOK, cnfState
<1>3. ASSUME UNCHANGED <<pluginState, pending, clock>> PROVE Plugin!TypeOK'
  BY <1>3 DEF TypeOK, Plugin!TypeOK, pluginState
<1>4. ASSUME NEW l \in Shifting, NEW d \in Delays, Shift(l, d) PROVE TypeOK'
  <2>1. (delay \in [Link -> Nat] /\ shifts \in 0..MaxShifts)'
    <3>1. delay' \in [Link -> Nat]
      BY <1>4, LoopAssumption DEF TypeOK, Shift
    <3>2. shifts' \in 0..MaxShifts
      BY <1>4, LoopAssumption DEF TypeOK, Shift
    <3>. QED  BY <3>1, <3>2
  <2>2. UNCHANGED cnfState /\ Plugin!TypeOK'
    BY <1>3, <1>4 DEF Shift
  <2>. QED  BY <1>1, <2>1, <2>2 DEF TypeOK, cnfState
<1>5. ASSUME NEW h \in Host, SendPacket(h) PROVE TypeOK'
  BY <1>2, <1>3, <1>5 DEF SendPacket
<1>6. ASSUME NEW p \in Path, Analyse(p) PROVE TypeOK'
  BY <1>6, AnalyseTypes
<1>7. ASSUME \/ \E r \in pending : Lose(r) \/ Skip(r) \/ Start(r)
             \/ WriteEntry \/ Finish \/ Tick
             \/ \E applied \in BOOLEAN : WriteFails(applied)
      PROVE  TypeOK'
  <2>1. Plugin!TypeOK'
    BY <1>7, PluginTypes DEF TypeOK
  <2>2. UNCHANGED <<cnfState, delay, shifts>>
    BY <1>7 DEF Lose, Skip, Start, WriteEntry, Finish, Tick, WriteFails, network
  <2>. QED  BY <1>2, <2>1, <2>2
<1>8. ASSUME UNCHANGED vars PROVE TypeOK'
  BY <1>2, <1>3, <1>8 DEF vars, network
<1>. QED  BY <1>4, <1>5, <1>6, <1>7, <1>8 DEF Next

(* Nothing has been measured at the start.                                 *)
LEMMA LoopTypeInit == Init => TypeOK
<1> SUFFICES ASSUME Init PROVE TypeOK
  OBVIOUS
<1>1. Plugin!TypeOK
  <2>1. job \in Plugin!Job
    BY LoopAssumption DEF Init, Plugin!Init, Plugin!Job, Plugin!Path
  <2>2. emitted \in Seq(Plugin!Path) /\ pending \in SUBSET Plugin!Report
    BY DEF Init, Plugin!Init
  <2>. QED  BY <2>1, <2>2, LoopAssumption DEF Init, Plugin!Init, Plugin!TypeOK, Plugin!Path
<1>2. samples \in [Host -> Seq(Nat)] /\ \A h \in Host : Len(samples[h]) <= WINDOW_SIZE
  <2>1. samples \in [Host -> Seq(Nat)] /\ \A h \in Host : samples[h] = <<>>
    BY DEF Init, Nothing
  <2>. QED  BY <2>1, LoopAssumption
<1>3. /\ DOMAIN baselines = {} /\ DOMAIN last_path = {}
      /\ delay \in [Link -> Nat] /\ shifts \in 0..MaxShifts
      /\ \A p \in Path : DOMAIN wire[p] = {}
  BY LoopAssumption DEF Init
<1>. QED  BY <1>1, <1>2, <1>3 DEF TypeOK

(***************************************************************************)
(* The plugin's state, the cNF's per flow and the packets under way keep   *)
(* their types for any clock offsets and delays: no flow holds more than   *)
(* WINDOW_SIZE samples, and there is no baseline of a flow without a last  *)
(* path.                                                                   *)
(***************************************************************************)
THEOREM TypeCorrect == Spec => []TypeOK
<1>1. LoopInv /\ TypeOK /\ [Next]_vars => (LoopInv /\ TypeOK)'
  BY LoopStep, LoopTypeStep
<1>. QED  BY LoopInit, LoopTypeInit, <1>1, PTL DEF Spec

-----------------------------------------------------------------------------
(***************************************************************************)
(* A path whose delays have not changed since it was first used.  All its  *)
(* packets then have the same stack, every window of a flow on it is a     *)
(* piece of one constant sequence, and a baseline is the total of such a   *)
(* window that is full: is_degraded compares that total with itself.       *)
(***************************************************************************)

Sums == INSTANCE CnfProofs WITH Flow <- Host, PathId <- PathIds, Latency <- Nat,
          REPORT_INTERVAL <- 1, MaxPackets <- 0,
          packet_counter <- Nothing, sent <- {}, log <- Nothing

(* The cNF's name of a path, and what it measures on it at the moment.     *)
Id(p) == PathOf(IntStack(p, FirstDelay))
Measure(p) == TotalLatency(IntStack(p, delay))

(* All samples of flow h are l, and a baseline is the total of its window. *)
SteadyFlow(h, l) ==
  /\ \A k \in DOMAIN samples[h] : samples[h][k] = l
  /\ h \in DOMAIN baselines =>
       /\ Len(samples[h]) = WINDOW_SIZE
       /\ baselines[h] = Cnf!Detector!Total(samples[h])

(* What is on the way on path p, and what the cNF has of it.               *)
SteadyOn(p) ==
  /\ \A i \in DOMAIN wire[p] : wire[p][i].hops = IntStack(p, delay)
  /\ \A h \in DOMAIN last_path : last_path[h] = Id(p) => SteadyFlow(h, Measure(p))

(* Nothing is on the way on path p, and no flow was last seen there.       *)
Unused(p) == wire[p] = <<>> /\ \A h \in DOMAIN last_path : last_path[h] # Id(p)

(* A flow that has not been seen has no samples.                           *)
NewFlowsAreEmpty == \A h \in Host \ DOMAIN last_path : samples[h] = <<>>

(* A packet on a path was stamped by the routers of that path.             *)
PacketsNamePath ==
  \A p \in Path : \A i \in DOMAIN wire[p] : PathOf(wire[p][i].hops) = Id(p)

Consistent == NewFlowsAreEmpty /\ PacketsNamePath

(* Totals of windows are numbers, as CnfProofs shows.                      *)
LEMMA TotalIsNumber ==
  ASSUME NEW w \in Seq(Nat)
  PROVE  Cnf!Detector!Total(w) \in Nat
<1>1. /\ Nat \subseteq Nat /\ WINDOW_SIZE \in Nat \ {0} /\ 1 \in Nat \ {0}
      /\ DEGRADATION_PCT \in Nat /\ 0 \in Nat
  BY LoopAssumption
<1>2. Sums!CnfAssumption
  BY <1>1 DEF Sums!CnfAssumption
<1>3. Sums!Total(w) \in Nat
  BY <1>1, <1>2, Sums!TotalType
<1>4. Cnf!Detector!Total(w) = Sums!Total(w)
  BY DEF Cnf!Detector!Total, Sums!Total
<1>. QED  BY <1>3, <1>4

(* A window that is its own baseline's is not degraded.                    *)
LEMMA NoDistance ==
  ASSUME NEW total \in Nat
  PROVE  ~Cnf!Detector!Exceeds(total, WINDOW_SIZE, total, WINDOW_SIZE, DEGRADATION_PCT)
<1> DEFINE area == total * WINDOW_SIZE
<1>1. area \in Nat
  BY LoopAssumption
<1>2. Cnf!Detector!Exceeds(total, WINDOW_SIZE, total, WINDOW_SIZE, DEGRADATION_PCT)
        <=> 100 * Cnf!Detector!Distance(area, area) > DEGRADATION_PCT * area
  BY DEF Cnf!Detector!Exceeds
<1> HIDE DEF area
<1>3. Cnf!Detector!Distance(area, area) = 0
  BY <1>1 DEF Cnf!Detector!Distance
<1>4. DEGRADATION_PCT * area \in Nat
  BY <1>1, LoopAssumption
<1>. QED  BY <1>2, <1>3, <1>4

(* Whatever the delays, the stack names the path, and the two differ.      *)
LEMMA Ids ==
  /\ \A p, d : PathOf(IntStack(p, d)) = Id(p)
  /\ Id("short") # Id("long")
<1>1. ASSUME NEW p, NEW d PROVE PathOf(IntStack(p, d)) = Id(p)
  BY DEF PathOf, IntStack, Id
<1>2. DOMAIN Id("short") = 1..2 /\ DOMAIN Id("long") = 1..3
  BY DEF Id, PathOf, IntStack, Switches
<1>. QED  BY <1>1, <1>2

(***************************************************************************)
(* A window of equal samples that takes one more of them: it stays one,    *)
(* and the same one once it is full.                                       *)
(***************************************************************************)
LEMMA SameSample ==
  ASSUME NEW s \in Seq(Nat), NEW l \in Nat, Len(s) <= WINDOW_SIZE,
         \A k \in DOMAIN s : s[k] = l
  PROVE  LET appended == Append(s, l)
             w == IF Len(appended) > WINDOW_SIZE THEN Tail(appended) ELSE appended
         IN  /\ \A k \in DOMAIN w : w[k] = l
             /\ Len(s) = WINDOW_SIZE => w = s
<1> DEFINE appended == Append(s, l)
           w == IF Len(appended) > WINDOW_SIZE THEN Tail(appended) ELSE appended
<1>1. /\ appended \in Seq(Nat) /\ Len(appended) = Len(s) + 1 /\ Len(s) \in Nat
      /\ \A k \in 1..Len(s) : appended[k] = s[k]
      /\ appended[Len(s) + 1] = l /\ DOMAIN s = 1..Len(s)
      /\ DOMAIN appended = 1..(Len(s) + 1)
  OBVIOUS
<1>2. \A k \in 1..(Len(s) + 1) : appended[k] = l
  <2>1. \A k \in 1..(Len(s) + 1) : k \in 1..Len(s) \/ k = Len(s) + 1
    BY <1>1
  <2>2. \A k \in 1..Len(s) : appended[k] = l
    BY <1>1
  <2>. QED  BY <1>1, <2>1, <2>2
<1> HIDE DEF appended
<1>3. /\ Tail(appended) \in Seq(Nat) /\ Len(Tail(appended)) = Len(s)
      /\ DOMAIN Tail(appended) = 1..Len(s)
      /\ \A k \in 1..Len(s) : Tail(appended)[k] = appended[k + 1]
  <2>1. appended # <<>>
    BY <1>1
  <2>. QED  BY <1>1, <2>1
<1>4. \A k \in 1..Len(s) : Tail(appended)[k] = l
  <2>1. \A k \in 1..Len(s) : k + 1 \in 1..(Len(s) + 1)
    BY <1>1
  <2>. QED  BY <1>2, <1>3, <2>1
<1>5. \A k \in DOMAIN w : w[k] = l
  <2>1. CASE w = appended
    BY <1>1, <1>2, <2>1
  <2>2. CASE w = Tail(appended)
    BY <1>3, <1>4, <2>2
  <2>. QED  BY <2>1, <2>2
<1>6. ASSUME Len(s) = WINDOW_SIZE PROVE w = s
  <2>1. w = Tail(appended)
    BY <1>1, <1>6
  <2>2. \A k \in 1..Len(s) : Tail(appended)[k] = s[k]
    BY <1>1, <1>4
  <2>. QED  BY <1>3, <2>1, <2>2, SeqEqual
<1>. QED  BY <1>5, <1>6 DEF appended

(* A packet like all those of its flow on path p keeps the flow's window.  *)
LEMMA SteadyWindow ==
  ASSUME TypeOK, NewFlowsAreEmpty, NEW p \in Path, SteadyOn(p), NEW h \in Host,
         NEW l \in Nat, l = Measure(p)
  PROVE  LET w == Cnf!NewSamples(h, Id(p), l)
         IN  /\ w \in Seq(Nat) /\ Len(w) <= WINDOW_SIZE /\ \A k \in DOMAIN w : w[k] = l
             /\ h \in DOMAIN last_path /\ last_path[h] = Id(p)
                  /\ Len(samples[h]) = WINDOW_SIZE => w = samples[h]
<1> DEFINE w == Cnf!NewSamples(h, Id(p), l)
           kept == Cnf!KeptSamples(h, Id(p))
<1>1. w \in Seq(Nat) /\ Len(w) <= WINDOW_SIZE
  BY WindowType
<1>2. samples[h] \in Seq(Nat) /\ Len(samples[h]) <= WINDOW_SIZE
  BY DEF TypeOK
<1>3. kept \in Seq(Nat) /\ Len(kept) <= WINDOW_SIZE /\ \A k \in DOMAIN kept : kept[k] = l
  <2>1. CASE Cnf!PathChanged(h, Id(p)) \/ h \notin DOMAIN last_path
    <3>1. kept = <<>>
      BY <2>1 DEF Cnf!KeptSamples, NewFlowsAreEmpty
    <3>. QED  BY <3>1, LoopAssumption
  <2>2. CASE h \in DOMAIN last_path /\ last_path[h] = Id(p)
    <3>1. kept = samples[h]
      BY <2>2 DEF Cnf!KeptSamples, Cnf!PathChanged
    <3>. QED  BY <1>2, <2>2, <3>1 DEF SteadyOn, SteadyFlow
  <2>. QED  BY <2>1, <2>2 DEF Cnf!PathChanged
<1>4. h \in DOMAIN last_path /\ last_path[h] = Id(p) => kept = samples[h]
  BY DEF Cnf!KeptSamples, Cnf!PathChanged
<1>5. w = IF Len(Append(kept, l)) > WINDOW_SIZE THEN Tail(Append(kept, l))
                                                ELSE Append(kept, l)
  BY DEF Cnf!NewSamples
<1> HIDE DEF w, kept
<1>6. (\A k \in DOMAIN w : w[k] = l) /\ (Len(kept) = WINDOW_SIZE => w = kept)
  BY <1>3, <1>5, SameSample
<1>. QED  BY <1>1, <1>4, <1>6 DEF w

(* handle_packet for flow h leaves what it keeps of the others alone.      *)
LEMMA OtherFlows ==
  ASSUME TypeOK, NEW h \in Host, NEW id, NEW l, NEW g \in Host, g # h,
         samples' = [samples EXCEPT ![h] = Cnf!NewSamples(h, id, l)],
         baselines' = Cnf!NewBaselines(h, id, l)
  PROVE  \A m : SteadyFlow(g, m) => SteadyFlow(g, m)'
<1>1. samples'[g] = samples[g]
  BY DEF TypeOK
<1>2. g \in DOMAIN baselines' => g \in DOMAIN baselines /\ baselines'[g] = baselines[g]
  BY DEF Cnf!NewBaselines, Cnf!KeptBaselines
<1>. QED  BY <1>1, <1>2 DEF SteadyFlow

(* handle_packet finds nothing in a packet like all those of its path.     *)
LEMMA SteadyPacket ==
  ASSUME TypeOK, NewFlowsAreEmpty, NEW p \in Path, SteadyOn(p), NEW h \in Host,
         NEW l \in Nat, l = Measure(p),
         samples' = [samples EXCEPT ![h] = Cnf!NewSamples(h, Id(p), l)],
         baselines' = Cnf!NewBaselines(h, Id(p), l)
  PROVE  SteadyFlow(h, l)' /\ ~Cnf!IsDegraded(samples'[h], baselines', h)
<1> DEFINE w == Cnf!NewSamples(h, Id(p), l)
           before == h \in Cnf!KeptBaselines(h, Id(p))
<1>1. /\ w \in Seq(Nat) /\ Len(w) <= WINDOW_SIZE /\ \A k \in DOMAIN w : w[k] = l
      /\ h \in DOMAIN last_path /\ last_path[h] = Id(p) /\ Len(samples[h]) = WINDOW_SIZE
           => w = samples[h]
  BY SteadyWindow
<1>2. samples'[h] = w
  BY DEF TypeOK
<1>3. before => /\ h \in DOMAIN baselines /\ h \in DOMAIN last_path /\ last_path[h] = Id(p)
                /\ Len(samples[h]) = WINDOW_SIZE
                /\ baselines[h] = Cnf!Detector!Total(samples[h])
  BY DEF Cnf!KeptBaselines, Cnf!PathChanged, TypeOK, SteadyOn, SteadyFlow
<1>4. /\ before => h \in DOMAIN baselines' /\ baselines'[h] = baselines[h]
      /\ ~before /\ h \in DOMAIN baselines' =>
           Len(w) >= WINDOW_SIZE /\ baselines'[h] = Cnf!Detector!Total(w)
  BY DEF Cnf!NewBaselines, Cnf!BaselineDue
<1> HIDE DEF w, before
<1>5. ASSUME h \in DOMAIN baselines'
      PROVE  Len(w) = WINDOW_SIZE /\ baselines'[h] = Cnf!Detector!Total(w)
  <2>1. CASE before
    <3>1. w = samples[h]
      BY <1>1, <1>3, <2>1
    <3>. QED  BY <1>3, <1>4, <2>1, <3>1
  <2>2. CASE ~before
    <3>1. Len(w) >= WINDOW_SIZE /\ Len(w) \in Nat
      BY <1>1, <1>4, <1>5, <2>2
    <3>2. Len(w) = WINDOW_SIZE
      BY <1>1, <3>1, LoopAssumption
    <3>. QED  BY <1>4, <1>5, <2>2, <3>2
  <2>. QED  BY <2>1, <2>2
<1>6. SteadyFlow(h, l)'
  BY <1>1, <1>2, <1>5 DEF SteadyFlow
<1>7. ASSUME h \in DOMAIN baselines'
      PROVE  ~Cnf!Detector!Exceeds(Cnf!Detector!Total(w), Len(w), baselines'[h],
                                   WINDOW_SIZE, DEGRADATION_PCT)
  <2>1. Cnf!Detector!Total(w) \in Nat
    BY <1>1, TotalIsNumber
  <2>. QED  BY <1>5, <1>7, <2>1, NoDistance
<1>. QED  BY <1>2, <1>6, <1>7 DEF Cnf!IsDegraded

(* What handle_packet makes of a packet at the head of path q.             *)
LEMMA Analysed ==
  ASSUME LoopInv, PacketsNamePath, NEW q \in Path, Analyse(q)
  PROVE  \E h \in Host : \E l \in Nat :
           /\ samples' = [samples EXCEPT ![h] = Cnf!NewSamples(h, Id(q), l)]
           /\ baselines' = Cnf!NewBaselines(h, Id(q), l)
           /\ last_path' = [g \in DOMAIN last_path \cup {h} |->
                              IF g = h THEN Id(q) ELSE last_path[g]]
           /\ \/ pending' = pending
              \/ /\ Cnf!IsDegraded(samples'[h], baselines', h)
                 /\ \E r : r.path = q /\ pending' = pending \cup {r}
           /\ wire' = [wire EXCEPT ![q] = Tail(wire[q])]
           /\ wire[q] \in Seq(Packet) /\ wire[q] # <<>>
           /\ SteadyOn(q) => l = Measure(q)
<1> DEFINE packet == Head(wire[q])
           h == packet.host
           l == TotalLatency(packet.hops)
<1>1. wire[q] \in Seq(Packet) /\ wire[q] # <<>>
  BY DEF LoopInv, LoopTypes, Analyse
<1>2. packet \in Packet /\ packet = wire[q][1] /\ 1 \in DOMAIN wire[q]
  BY <1>1
<1>3. SteadyOn(q) => l = Measure(q)
  BY <1>2 DEF SteadyOn, Measure
<1>4. PathOf(packet.hops) = Id(q)
  BY <1>2 DEF PacketsNamePath
<1>5. h \in Host /\ l \in Nat
  BY <1>2, PacketType
<1>6. /\ samples' = [samples EXCEPT ![h] = Cnf!NewSamples(h, Id(q), l)]
      /\ baselines' = Cnf!NewBaselines(h, Id(q), l)
      /\ last_path' = [g \in DOMAIN last_path \cup {h} |->
                         IF g = h THEN Id(q) ELSE last_path[g]]
      /\ wire' = [wire EXCEPT ![q] = Tail(wire[q])]
  BY <1>4 DEF Analyse
<1>7. \/ pending' = pending
      \/ /\ Cnf!IsDegraded(samples'[h], baselines', h)
         /\ \E r : r.path = q /\ pending' = pending \cup {r}
  <2>1. ReportOn(q, packet).path = q
    BY DEF ReportOn
  <2>2. pending' = IF Cnf!IsDegraded(samples'[h], baselines', h)
                   THEN pending \cup {ReportOn(q, packet)} ELSE pending
    BY DEF Analyse
  <2>. QED  BY <2>1, <2>2
<1> HIDE DEF packet, h, l
<1>. QED  BY <1>1, <1>3, <1>5, <1>6, <1>7

(* The cNF's next packet keeps a steady path steady and raises no alarm    *)
(* there, and is itself on a path that is in use.                          *)
LEMMA AnalyseKeeps ==
  ASSUME LoopInv, TypeOK, Consistent, NEW p \in Path, NEW q \in Path, Analyse(q)
  PROVE  /\ Consistent'
         /\ SteadyOn(p) => SteadyOn(p)'
         /\ SteadyOn(q) => pending' = pending
         /\ Unused(p) => p # q /\ Unused(p)'
         /\ pending' = pending \/ \E r : r.path = q /\ pending' = pending \cup {r}
<1>1. PICK h \in Host, l \in Nat :
        /\ samples' = [samples EXCEPT ![h] = Cnf!NewSamples(h, Id(q), l)]
        /\ baselines' = Cnf!NewBaselines(h, Id(q), l)
        /\ last_path' = [g \in DOMAIN last_path \cup {h} |->
                           IF g = h THEN Id(q) ELSE last_path[g]]
        /\ \/ pending' = pending
           \/ /\ Cnf!IsDegraded(samples'[h], baselines', h)
              /\ \E r : r.path = q /\ pending' = pending \cup {r}
        /\ wire' = [wire EXCEPT ![q] = Tail(wire[q])]
        /\ wire[q] \in Seq(Packet) /\ wire[q] # <<>>
        /\ SteadyOn(q) => l = Measure(q)
  BY Analysed DEF Consistent
<1>2. /\ DOMAIN last_path' = DOMAIN last_path \cup {h} /\ last_path'[h] = Id(q)
      /\ \A g \in DOMAIN last_path : g # h => last_path'[g] = last_path[g]
  BY <1>1
<1>3. NewFlowsAreEmpty'
  BY <1>1, <1>2 DEF NewFlowsAreEmpty, Consistent, TypeOK
<1>4. ASSUME SteadyOn(q)
      PROVE  SteadyFlow(h, Measure(q))' /\ ~Cnf!IsDegraded(samples'[h], baselines', h)
  <2>1. SteadyFlow(h, l)' /\ ~Cnf!IsDegraded(samples'[h], baselines', h)
    BY <1>1, <1>4, SteadyPacket DEF Consistent
  <2>2. Measure(q)' = l
    BY <1>1, <1>4 DEF Analyse, Measure
  <2>. QED  BY <2>1, <2>2 DEF SteadyFlow
<1>5. /\ wire' \in [Path -> Seq(Packet)] /\ wire'[q] = Tail(wire[q])
      /\ \A o \in Path : o # q => wire'[o] = wire[o]
  <2>1. wire \in [Path -> Seq(Packet)]
    BY DEF LoopInv, LoopTypes
  <2>2. Tail(wire[q]) \in Seq(Packet)
    BY <1>1
  <2>. QED  BY <1>1, <2>1, <2>2
<1>6. \A i \in DOMAIN Tail(wire[q]) :
        i + 1 \in DOMAIN wire[q] /\ Tail(wire[q])[i] = wire[q][i + 1]
  BY <1>1
<1>7. PacketsNamePath'
  <2>1. ASSUME NEW o \in Path, NEW i \in DOMAIN wire'[o]
        PROVE  PathOf(wire'[o][i].hops) = Id(o)
    <3>1. CASE o = q
      BY <1>5, <1>6, <2>1, <3>1 DEF Consistent, PacketsNamePath
    <3>2. CASE o # q
      BY <1>5, <2>1, <3>2 DEF Consistent, PacketsNamePath
    <3>. QED  BY <3>1, <3>2
  <2>. QED  BY <2>1 DEF PacketsNamePath, PathOf, Id, IntStack, ArrivalAt
<1>8. ASSUME SteadyOn(p) PROVE SteadyOn(p)'
  <2>1. UNCHANGED delay /\ Measure(p)' = Measure(p) /\ Id(p)' = Id(p)
    BY DEF Analyse, Measure, Id
  <2>2. \A i \in DOMAIN wire'[p] : wire'[p][i].hops = IntStack(p, delay)
    <3>0. \A i \in DOMAIN wire[p] : wire[p][i].hops = IntStack(p, delay)
      BY <1>8 DEF SteadyOn
    <3>1. CASE p = q
      <4>1. wire'[p] = Tail(wire[q])
        BY <1>5, <3>1
      <4>2. \A i \in DOMAIN Tail(wire[q]) : Tail(wire[q])[i].hops = IntStack(p, delay)
        BY <1>6, <3>0, <3>1, Zenon
      <4>. QED  BY <4>1, <4>2, Zenon
    <3>2. CASE p # q
      BY <1>5, <3>0, <3>2
    <3>. QED  BY <3>1, <3>2
  <2>3. ASSUME NEW g \in DOMAIN last_path', last_path'[g] = Id(p)
        PROVE  SteadyFlow(g, Measure(p))'
    <3>1. CASE g = h
      <4>1. p = q
        BY <1>2, <2>3, <3>1, Ids DEF Path
      <4>. QED  BY <1>4, <1>8, <3>1, <4>1
    <3>2. CASE g # h
      <4>1. g \in Host /\ SteadyFlow(g, Measure(p))
        BY <1>2, <1>8, <2>3, <3>2 DEF SteadyOn, TypeOK
      <4>2. SteadyFlow(g, Measure(p)) => (\A m : m = Measure(p) => SteadyFlow(g, m)')
        BY <1>1, <3>2, <4>1, OtherFlows
      <4>. QED  BY <2>1, <4>1, <4>2 DEF SteadyFlow
    <3>. QED  BY <3>1, <3>2
  <2>4. (\A i \in DOMAIN wire[p] : wire[p][i].hops = IntStack(p, delay))'
    BY <2>1, <2>2
  <2>5. (\A g \in DOMAIN last_path : last_path[g] = Id(p) => SteadyFlow(g, Measure(p)))'
    BY <2>1, <2>3
  <2>. QED  BY <2>4, <2>5 DEF SteadyOn
<1>9. ASSUME Unused(p) PROVE p # q /\ Unused(p)'
  <2>1. p # q
    BY <1>1, <1>9 DEF Unused
  <2>2. Id(p) # Id(q) /\ Id(p)' = Id(p)
    BY <2>1, Ids DEF Path, Id
  <2>. QED  BY <1>2, <1>5, <1>9, <2>1, <2>2 DEF Unused
<1>. QED  BY <1>1, <1>3, <1>4, <1>8, <1>9, <1>7 DEF Consistent

(* A packet gets the stack of the moment, and uses the path it is sent on. *)
LEMMA SendKeeps ==
  ASSUME LoopInv, NEW p \in Path, NEW h \in Host, SendPacket(h)
  PROVE  /\ Consistent => Consistent'
         /\ SteadyOn(p) => SteadyOn(p)'
         /\ Unused(p) /\ route[h] # p => Unused(p)'
<1> DEFINE packet == [host |-> h, hops |-> IntStack(route[h], delay), born |-> clock]
           q == wire[p]
<1>1. wire \in [Path -> Seq(Packet)] /\ q \in Seq(Packet) /\ route[h] \in Path
  BY DEF LoopInv, LoopTypes
<1>2. wire' = [wire EXCEPT ![route[h]] = Append(wire[route[h]], packet)]
  BY DEF SendPacket
<1>3. wire'[p] = IF route[h] = p THEN Append(q, packet) ELSE q
  BY <1>1, <1>2
<1>4. UNCHANGED <<samples, baselines, last_path, delay>>
  BY DEF SendPacket, cnfState
<1>5. packet.hops = IntStack(route[h], delay)
  OBVIOUS
<1> HIDE DEF packet, q
<1>6. /\ DOMAIN Append(q, packet) = 1..(Len(q) + 1)
      /\ \A i \in 1..Len(q) : Append(q, packet)[i] = q[i]
      /\ Append(q, packet)[Len(q) + 1] = packet
      /\ DOMAIN q = 1..Len(q) /\ Len(q) \in Nat
      /\ \A i \in 1..(Len(q) + 1) : i \in 1..Len(q) \/ i = Len(q) + 1
  BY <1>1
<1>7. ASSUME SteadyOn(p) PROVE SteadyOn(p)'
  <2>1. \A i \in DOMAIN q : q[i].hops = IntStack(p, delay)
    BY <1>7 DEF SteadyOn, q
  <2>2. \A i \in DOMAIN wire'[p] : wire'[p][i].hops = IntStack(p, delay)
    <3>1. CASE route[h] = p
      <4>1. \A i \in 1..(Len(q) + 1) : Append(q, packet)[i].hops = IntStack(p, delay)
        BY <1>5, <1>6, <2>1, <3>1
      <4>. QED  BY <1>3, <1>6, <3>1, <4>1
    <3>2. CASE route[h] # p
      BY <1>3, <2>1, <3>2
    <3>. QED  BY <3>1, <3>2
  <2>3. (\A i \in DOMAIN wire[p] : wire[p][i].hops = IntStack(p, delay))'
    BY <1>4, <2>2
  <2>. QED  BY <1>4, <1>7, <2>3 DEF SteadyOn, SteadyFlow, Measure, Id
<1>8. ASSUME PacketsNamePath PROVE PacketsNamePath'
  <2>1. ASSUME NEW o \in Path, NEW i \in DOMAIN wire'[o]
        PROVE  PathOf(wire'[o][i].hops) = Id(o)
    <3> DEFINE w == wire[o]
    <3>1. w \in Seq(Packet) /\ wire'[o] = IF route[h] = o THEN Append(w, packet) ELSE w
      BY <1>1, <1>2
    <3>2. \A k \in DOMAIN w : PathOf(w[k].hops) = Id(o)
      BY <1>8 DEF PacketsNamePath
    <3> HIDE DEF w
    <3>3. CASE route[h] = o
      <4>1. i \in 1..(Len(w) + 1) /\ Len(w) \in Nat /\ DOMAIN w = 1..Len(w)
        BY <2>1, <3>1, <3>3
      <4>2. CASE i = Len(w) + 1
        <5>1. wire'[o][i] = packet
          BY <3>1, <3>3, <4>2
        <5>. QED  BY <1>5, <3>3, <5>1, Ids
      <4>3. CASE i # Len(w) + 1
        <5>1. i \in DOMAIN w /\ wire'[o][i] = w[i]
          BY <3>1, <3>3, <4>1, <4>3
        <5>. QED  BY <3>2, <5>1
      <4>. QED  BY <4>2, <4>3
    <3>4. CASE route[h] # o
      BY <2>1, <3>1, <3>2, <3>4
    <3>. QED  BY <3>3, <3>4
  <2>. QED  BY <2>1 DEF PacketsNamePath, PathOf, Id, IntStack, ArrivalAt
<1>9. Consistent => Consistent'
  BY <1>4, <1>8 DEF Consistent, NewFlowsAreEmpty
<1>. QED  BY <1>3, <1>4, <1>7, <1>9 DEF Unused, Id, q

(* All other steps leave the cNF and the packets alone.                    *)
LEMMA RestKeeps ==
  ASSUME NEW p \in Path, UNCHANGED <<samples, baselines, last_path, wire, delay>>
  PROVE  /\ Consistent => Consistent'
         /\ SteadyOn(p) => SteadyOn(p)'
         /\ Unused(p) => Unused(p)'
  BY DEF Consistent, NewFlowsAreEmpty, PacketsNamePath, SteadyOn, SteadyFlow, Measure, Id, Unused

(* A change of a delay does not disturb a path that is not used.           *)
LEMMA ShiftKeeps ==
  ASSUME NEW p \in Path, NEW l, NEW d, Shift(l, d)
  PROVE  /\ Consistent => Consistent'
         /\ Unused(p) => Unused(p)' /\ SteadyOn(p)'
<1>1. UNCHANGED <<samples, baselines, last_path, wire>>
  BY DEF Shift, cnfState
<1>2. Unused(p) => Unused(p)'
  BY <1>1 DEF Unused, Id
<1>3. Unused(p)' => SteadyOn(p)'
  BY DEF Unused, SteadyOn
<1>. QED  BY <1>1, <1>2, <1>3 DEF Consistent, NewFlowsAreEmpty, PacketsNamePath, Id

(* te_plugin's steps, and time, leave the cNF and the network alone.       *)
LEMMA PluginLeavesCnf ==
  ASSUME \/ \E r \in pending : Lose(r) \/ Skip(r) \/ Start(r)
         \/ WriteEntry \/ Finish \/ Tick
         \/ \E applied \in BOOLEAN : WriteFails(applied)
  PROVE  UNCHANGED <<samples, baselines, last_path, wire, delay, shifts>>
  BY DEF Lose, Skip, Start, WriteEntry, Finish, Tick, WriteFails, cnfState, network

-----------------------------------------------------------------------------
(***************************************************************************)
(* A network that has not changed: no alarm, no reroute, and only the      *)
(* short path is in use.                                                   *)
(***************************************************************************)
NothingMoves ==
  pc = "idle" /\ pending = {} /\ emitted = <<>> /\ \A h \in Host : route[h] = "short"

Quiet ==
  /\ Consistent
  /\ shifts = 0 => NothingMoves /\ SteadyOn("short") /\ Unused("long")

(* Every step keeps a steady network quiet.                                *)
LEMMA QuietKeeps ==
  LoopInv /\ TypeOK /\ Quiet /\ [Next]_vars => Quiet'
<1> SUFFICES ASSUME LoopInv, TypeOK, Quiet, [Next]_vars PROVE Quiet'
  OBVIOUS
<1> DEFINE Still == NothingMoves /\ SteadyOn("short") /\ Unused("long")
<1>1. "short" \in Path /\ "long" \in Path /\ Consistent
  BY DEF Path, Quiet
<1>2. ASSUME NEW l \in Shifting, NEW d \in Delays, Shift(l, d) PROVE Quiet'
  <2>1. shifts' # 0
    BY <1>2, LoopAssumption DEF Shift, TypeOK
  <2>. QED  BY <1>1, <1>2, <2>1, ShiftKeeps DEF Quiet
<1>3. ASSUME UNCHANGED shifts, Consistent', Still => Still' PROVE Quiet'
  BY <1>3 DEF Quiet
<1>4. ASSUME NEW h \in Host, SendPacket(h) PROVE Quiet'
  <2>1. Still => Still'
    <3>1. NothingMoves => NothingMoves' /\ route[h] # "long"
      BY <1>4 DEF NothingMoves, SendPacket, pluginState
    <3>. QED  BY <1>1, <1>4, <3>1, SendKeeps
  <2>2. Consistent' /\ UNCHANGED shifts
    BY <1>1, <1>4, SendKeeps DEF SendPacket
  <2>. QED  BY <1>3, <2>1, <2>2
<1>5. ASSUME NEW q \in Path, Analyse(q) PROVE Quiet'
  <2>1. Still => Still'
    <3>1. ASSUME Still PROVE q = "short"
      BY <1>1, <1>5, <3>1, AnalyseKeeps DEF Path
    <3>2. ASSUME Still PROVE pending' = pending
      BY <1>1, <1>5, <3>1, <3>2, AnalyseKeeps
    <3>3. ASSUME Still PROVE NothingMoves'
      BY <1>5, <3>2, <3>3 DEF Analyse, NothingMoves, pluginState
    <3>. QED  BY <1>1, <1>5, <3>3, AnalyseKeeps
  <2>2. Consistent' /\ UNCHANGED shifts
    BY <1>1, <1>5, AnalyseKeeps DEF Analyse
  <2>. QED  BY <1>3, <2>1, <2>2
<1>6. ASSUME \/ \E r \in pending : Lose(r) \/ Skip(r) \/ Start(r)
             \/ WriteEntry \/ Finish \/ Tick
             \/ \E applied \in BOOLEAN : WriteFails(applied)
      PROVE  Quiet'
  <2>1. UNCHANGED <<samples, baselines, last_path, wire, delay, shifts>>
    BY <1>6, PluginLeavesCnf
  <2>2. NothingMoves => Tick
    BY <1>6 DEF NothingMoves, WriteEntry, Finish, WriteFails, Plugin!WriteEntry,
                Plugin!Finish, Plugin!WriteFails
  <2>3. NothingMoves => NothingMoves'
    BY <2>2 DEF NothingMoves, Tick, Plugin!Tick, Plugin!pluginVars
  <2>4. Consistent' /\ (SteadyOn("short") => SteadyOn("short")')
          /\ (Unused("long") => Unused("long")')
    BY <1>1, <2>1, RestKeeps
  <2>. QED  BY <1>3, <2>1, <2>3, <2>4
<1>7. ASSUME UNCHANGED vars PROVE Quiet'
  <2>1. UNCHANGED <<samples, baselines, last_path, wire, delay, shifts>>
    BY <1>7 DEF vars, cnfState, network
  <2>2. NothingMoves => NothingMoves'
    BY <1>7 DEF NothingMoves, vars, pluginState
  <2>3. Consistent' /\ (SteadyOn("short") => SteadyOn("short")')
          /\ (Unused("long") => Unused("long")')
    BY <1>1, <2>1, RestKeeps
  <2>. QED  BY <1>3, <2>1, <2>2, <2>3
<1>. QED  BY <1>2, <1>4, <1>5, <1>6, <1>7 DEF Next

(* Nothing is under way at the start.                                      *)
LEMMA QuietInit == Init => Quiet
<1> SUFFICES ASSUME Init PROVE Quiet
  OBVIOUS
<1>1. NothingMoves
  BY DEF Init, Plugin!Init, NothingMoves, Plugin!Host, Host
<1>2. wire["short"] = <<>> /\ wire["long"] = <<>> /\ DOMAIN last_path = {}
  BY DEF Init, Path
<1>3. Consistent
  BY <1>2 DEF Init, Nothing, Path, Consistent, NewFlowsAreEmpty, PacketsNamePath
<1>. QED  BY <1>1, <1>2, <1>3 DEF Quiet, SteadyOn, Unused

(***************************************************************************)
(* Clocks that are apart, and delays of any size, cause no alarm and no    *)
(* reroute as long as no delay changes: what is_degraded compares is then  *)
(* one window's total with itself.                                         *)
(***************************************************************************)
THEOREM SteadyNetwork == Spec => []SteadyNetworkIsQuiet
<1>1. LoopInv /\ TypeOK /\ [Next]_vars => (LoopInv /\ TypeOK)'
  BY LoopStep, LoopTypeStep
<1>2. Spec => [](LoopInv /\ TypeOK)
  BY LoopInit, LoopTypeInit, <1>1, PTL DEF Spec
<1>3. Spec => []Quiet
  BY QuietInit, QuietKeeps, <1>2, PTL DEF Spec
<1>4. Quiet => SteadyNetworkIsQuiet
  BY DEF Quiet, NothingMoves, SteadyNetworkIsQuiet
<1>. QED  BY <1>3, <1>4, PTL

-----------------------------------------------------------------------------
(***************************************************************************)
(* What TEPlugin's theorems say of the routes and the cooldown holds in    *)
(* the loop.  They are about TEPlugin alone; the loop implements it with   *)
(* the foreseen reports for the pending ones, so they carry over.          *)
(***************************************************************************)

Proved == INSTANCE TEPluginProofs WITH pending <- Foreseen

(* The loop's constants are those that TEPlugin assumes.                   *)
LEMMA PluginConstants ==
  /\ NHosts \in Nat \ {0} /\ Cooldown \in Nat \ {0} /\ MaxLag \in Nat /\ MaxWrite \in Nat
  /\ MaxClock \in Nat /\ MaxPending \in Nat /\ MaxFailures \in Nat
  BY LoopAssumption

(* The specification of those theorems is the one that the loop implements. *)
LEMMA SameNext == Abstract!Next <=> Proved!Next
<1> USE DEF Abstract!pluginVars, Proved!pluginVars
<1>1. \A h, k : Abstract!Produce(h, k) <=> Proved!Produce(h, k)
  BY DEF Abstract!Produce, Proved!Produce, Abstract!Cardinality, Proved!Cardinality
<1>2. \A r : Abstract!Lose(r) <=> Proved!Lose(r)
  BY DEF Abstract!Lose, Proved!Lose
<1>3. Abstract!Tick <=> Proved!Tick
  BY DEF Abstract!Tick, Proved!Tick
<1>4. \A r : Abstract!Handle(r) <=> Proved!Handle(r)
  BY DEF Abstract!Handle, Proved!Handle, Abstract!Discard, Proved!Discard, Abstract!Skip,
         Proved!Skip, Abstract!Start, Proved!Start, Abstract!CooldownActive,
         Proved!CooldownActive, Abstract!Other, Proved!Other
<1>5. Abstract!WriteEntry <=> Proved!WriteEntry
  BY DEF Abstract!WriteEntry, Proved!WriteEntry
<1>6. \A applied : Abstract!WriteFails(applied) <=> Proved!WriteFails(applied)
  BY DEF Abstract!WriteFails, Proved!WriteFails
<1>7. Abstract!Finish <=> Proved!Finish
  BY DEF Abstract!Finish, Proved!Finish
<1>. QED  BY <1>1, <1>2, <1>3, <1>4, <1>5, <1>6, <1>7
          DEF Abstract!Next, Proved!Next, Abstract!Host, Proved!Host, Abstract!Kind,
              Proved!Kind

(* So the loop is one of the systems that TEPluginProofs is about.         *)
LEMMA LoopIsPlugin == Spec => Proved!Spec
<1>1. Abstract!Init => Proved!Init
  BY DEF Abstract!Init, Proved!Init, Abstract!Host, Proved!Host
<1>2. [Abstract!Next]_Abstract!vars => [Proved!Next]_Proved!vars
  <2>1. UNCHANGED Abstract!vars => UNCHANGED Proved!vars
    BY DEF Abstract!vars, Proved!vars
  <2>. QED  BY <2>1, SameNext
<1>. QED  BY <1>1, <1>2, LoopImplementsPlugin, PTL
          DEF ImplementsPlugin, Abstract!Spec, Proved!Spec

(***************************************************************************)
(* However the cNF judges the packets of two paths, and whatever writes    *)
(* fail: the hosts that s2 does not route along current_path are the first *)
(* of SUBNET2_HOSTS, and the last announcement names current_path.         *)
(***************************************************************************)
THEOREM LoopKeepsRoutes ==
  Spec => [](Abstract!MovedHostsArePrefix /\ Abstract!EventsNamePath)
<1>1. Proved!MovedHostsArePrefix => Abstract!MovedHostsArePrefix
  BY DEF Proved!MovedHostsArePrefix, Abstract!MovedHostsArePrefix, Proved!Host, Abstract!Host
<1>2. Proved!EventsNamePath => Abstract!EventsNamePath
  BY DEF Proved!EventsNamePath, Abstract!EventsNamePath, Proved!Other, Abstract!Other
<1>. QED  BY <1>1, <1>2, LoopIsPlugin, PluginConstants, Proved!MovedHosts,
             Proved!EventsTellPath, PTL

(***************************************************************************)
(* In the loop, too, completed reroutes are a cooldown apart.              *)
(***************************************************************************)
THEOREM LoopSpacesReroutes == Spec => Abstract!CooldownSpacing
<1>1. UNCHANGED Proved!vars => UNCHANGED Abstract!vars
  BY DEF Abstract!vars, Proved!vars
<1>2. [last_reroute' # last_reroute => last_reroute' - last_reroute >= Cooldown]_Proved!vars
        => [last_reroute' # last_reroute
              => last_reroute' - last_reroute >= Cooldown]_Abstract!vars
  BY <1>1
<1>. QED  BY <1>2, LoopIsPlugin, PluginConstants, Proved!ReroutesAreSpaced, PTL
          DEF Proved!CooldownSpacing, Abstract!CooldownSpacing

(***************************************************************************)
(* When a packet's way to the plugin and a reroute together take less than *)
(* the cooldown, the packet whose report starts a reroute was routed after *)
(* the last reroute completed, although the cNF has seen packets of both   *)
(* paths in any order since.                                               *)
(***************************************************************************)
THEOREM LoopDoesNotFlap ==
  ASSUME MaxWrite + MaxLag < Cooldown
  PROVE  Spec => Abstract!CooldownPreventsFlapping
<1>1. UNCHANGED Proved!vars => UNCHANGED Abstract!vars
  BY DEF Abstract!vars, Proved!vars
<1>2. [pc = "idle" /\ pc' = "writing"
         => \A r \in Foreseen \ Foreseen' : r.born >= finished]_Proved!vars
      => [pc = "idle" /\ pc' = "writing"
            => \A r \in Foreseen \ Foreseen' : r.born >= finished]_Abstract!vars
  BY <1>1
<1>. QED  BY <1>2, LoopIsPlugin, PluginConstants, Proved!NoFlapping, PTL
          DEF Proved!CooldownPreventsFlapping, Abstract!CooldownPreventsFlapping

-----------------------------------------------------------------------------
(***************************************************************************)
(* One change of a delay.  The long path was not in use before it, so it   *)
(* is steady: no report is ever about the long path.  One about the short  *)
(* path that comes when the routes have left it is older than the cooldown *)
(* allows.                                                                 *)
(***************************************************************************)
MovedOnce ==
  /\ emitted = <<>> => current_path = "short"
  /\ emitted # <<>> => /\ Len(emitted) = 1 /\ current_path = "long" /\ pc = "idle"
                       /\ \A h \in Host : route[h] = "long"

Settled ==
  shifts <= 1 => SteadyOn("long") /\ (\A r \in pending : r.path # "long") /\ MovedOnce

(* A straggler's report does not move the routes back.                     *)
LEMMA NoWayBack ==
  ASSUME MaxWrite + MaxLag < Cooldown, Proved!IInv, MovedOnce, emitted # <<>>,
         NEW r \in pending, r.path # "long", Start(r)
  PROVE  FALSE
<1>1. r \in Foreseen
  BY ForeseenMembers
<1>2. Proved!Uniform /\ current_path = "long"
  BY DEF MovedOnce, Proved!Uniform, Proved!Host, Host
<1>3. r.born <= finished
  BY <1>1, <1>2 DEF Proved!IInv, Proved!StaleReportsAreOld
<1>4. clock - r.born <= MaxLag /\ finished - last_reroute <= MaxWrite
  BY <1>1 DEF Proved!IInv, Proved!TimeInv
<1>5. r.born \in Nat /\ clock \in Nat /\ finished \in Nat /\ last_reroute \in Nat
  BY <1>1 DEF Proved!IInv, Proved!TypeOK, Proved!Report
<1>6. ~(clock - last_reroute < Cooldown)
  BY DEF Start, Plugin!Start, Plugin!CooldownActive
<1>. QED  BY <1>3, <1>4, <1>5, <1>6, LoopAssumption

(* The reroute that the change causes moves every flow to the long path.   *)
LEMMA FirstReroute ==
  ASSUME Proved!IInv, MovedOnce, Finish
  PROVE  MovedOnce'
<1>1. pc = "writing" /\ job.next = NHosts + 1 /\ current_path' = job.target
        /\ emitted' = Append(emitted, job.target) /\ pc' = "idle" /\ UNCHANGED route
  BY DEF Finish, Plugin!Finish
<1>2. emitted = <<>> /\ current_path = "short"
  BY <1>1 DEF MovedOnce
<1>3. job.target = "long"
  BY <1>1, <1>2 DEF Proved!IInv, Proved!JobInv, Proved!Other
<1>4. \A h \in Host : route[h] = "long"
  <2> SUFFICES ASSUME NEW h \in Host PROVE route[h] = "long"
    OBVIOUS
  <2>1. h < job.next
    BY <1>1, LoopAssumption DEF Host
  <2>. QED  BY <1>1, <1>3, <2>1 DEF Proved!IInv, Proved!JobInv, Proved!Host, Host
<1>5. emitted' = <<"long">>
  BY <1>1, <1>2, <1>3
<1>6. emitted' # <<>> /\ Len(emitted') = 1
  BY <1>5
<1>. QED  BY <1>1, <1>3, <1>4, <1>6 DEF MovedOnce

(* Every step of the plugin leaves the routes at most once moved.          *)
LEMMA MovedOnceKeeps ==
  ASSUME MaxWrite + MaxLag < Cooldown, Proved!IInv, MovedOnce,
         \A r \in pending : r.path # "long",
         \/ \E r \in pending : Lose(r) \/ Skip(r) \/ Start(r)
         \/ WriteEntry \/ Finish \/ Tick
         \/ \E applied \in BOOLEAN : WriteFails(applied)
  PROVE  MovedOnce' /\ pending' \subseteq pending
<1> USE DEF Plugin!pluginVars
<1>1. ASSUME NEW r \in pending, Lose(r) \/ Skip(r)
      PROVE  MovedOnce' /\ pending' \subseteq pending
  BY <1>1 DEF Lose, Skip, Plugin!Lose, Plugin!Skip, MovedOnce
<1>2. ASSUME NEW r \in pending, Start(r) PROVE MovedOnce' /\ pending' \subseteq pending
  <2>1. emitted = <<>>
    BY <1>2, NoWayBack
  <2>. QED  BY <1>2, <2>1 DEF Start, Plugin!Start, MovedOnce
<1>3. ASSUME WriteEntry \/ \E applied \in BOOLEAN : WriteFails(applied)
      PROVE  MovedOnce' /\ pending' \subseteq pending
  <2>1. pc = "writing" /\ UNCHANGED <<emitted, current_path, pending>>
    BY <1>3 DEF WriteEntry, WriteFails, Plugin!WriteEntry, Plugin!WriteFails
  <2>. QED  BY <2>1 DEF MovedOnce
<1>4. CASE Finish
  BY <1>4, FirstReroute DEF Finish, Plugin!Finish
<1>5. CASE Tick
  BY <1>5 DEF Tick, Plugin!Tick, MovedOnce
<1>. QED  BY <1>1, <1>2, <1>3, <1>4, <1>5

(* Every step keeps the loop settled, the first change of a delay too.     *)
LEMMA SettledKeeps ==
  ASSUME MaxWrite + MaxLag < Cooldown
  PROVE  LoopInv /\ TypeOK /\ Quiet /\ Proved!IInv /\ Settled /\ [Next]_vars => Settled'
<1> SUFFICES ASSUME LoopInv, TypeOK, Quiet, Proved!IInv, Settled, [Next]_vars, shifts' <= 1
             PROVE  (SteadyOn("long") /\ (\A r \in pending : r.path # "long") /\ MovedOnce)'
  BY DEF Settled
<1> DEFINE Goal == SteadyOn("long") /\ (\A r \in pending : r.path # "long") /\ MovedOnce
<1>1. "long" \in Path /\ Consistent
  BY DEF Path, Quiet
<1>2. ASSUME UNCHANGED pluginState PROVE MovedOnce => MovedOnce'
  BY <1>2 DEF MovedOnce, pluginState
<1>3. ASSUME NEW l \in Shifting, NEW d \in Delays, Shift(l, d) PROVE Goal'
  <2>1. shifts = 0 /\ shifts <= 1
    BY <1>3, LoopAssumption DEF Shift, TypeOK
  <2>2. Goal /\ Unused("long")
    BY <2>1 DEF Settled, Quiet
  <2>3. SteadyOn("long")'
    BY <1>1, <1>3, <2>2, ShiftKeeps
  <2>. QED  BY <1>2, <1>3, <2>2, <2>3 DEF Shift
<1>4. ASSUME UNCHANGED shifts PROVE Goal
  BY <1>4 DEF Settled
<1>5. ASSUME NEW h \in Host, SendPacket(h) PROVE Goal'
  <2>1. Goal /\ UNCHANGED <<pluginState, pending>>
    BY <1>4, <1>5 DEF SendPacket
  <2>2. SteadyOn("long")'
    BY <1>1, <1>5, <2>1, SendKeeps
  <2>. QED  BY <1>2, <2>1, <2>2
<1>6. ASSUME NEW q \in Path, Analyse(q) PROVE Goal'
  <2>1. Goal /\ UNCHANGED pluginState
    BY <1>4, <1>6 DEF Analyse
  <2>2. SteadyOn("long")'
    BY <1>1, <1>6, <2>1, AnalyseKeeps
  <2>3. \A r \in pending' : r.path # "long"
    <3>1. CASE q = "long"
      BY <1>1, <1>6, <2>1, <3>1, AnalyseKeeps
    <3>2. CASE q # "long"
      BY <1>1, <1>6, <2>1, <3>2, AnalyseKeeps
    <3>. QED  BY <3>1, <3>2
  <2>. QED  BY <1>2, <2>1, <2>2, <2>3
<1>7. ASSUME \/ \E r \in pending : Lose(r) \/ Skip(r) \/ Start(r)
             \/ WriteEntry \/ Finish \/ Tick
             \/ \E applied \in BOOLEAN : WriteFails(applied)
      PROVE  Goal'
  <2>1. UNCHANGED <<samples, baselines, last_path, wire, delay, shifts>>
    BY <1>7, PluginLeavesCnf
  <2>2. Goal
    BY <1>4, <2>1
  <2>3. SteadyOn("long")'
    BY <1>1, <2>1, <2>2, RestKeeps
  <2>4. MovedOnce' /\ pending' \subseteq pending
    BY <1>7, <2>2, MovedOnceKeeps
  <2>. QED  BY <2>2, <2>3, <2>4
<1>8. ASSUME UNCHANGED vars PROVE Goal'
  <2>1. UNCHANGED <<samples, baselines, last_path, wire, delay, shifts>>
          /\ UNCHANGED <<pluginState, pending>>
    BY <1>8 DEF vars, cnfState, network
  <2>2. Goal
    BY <1>4, <2>1
  <2>3. SteadyOn("long")'
    BY <1>1, <2>1, <2>2, RestKeeps
  <2>. QED  BY <1>2, <2>1, <2>2, <2>3
<1>. QED  BY <1>3, <1>5, <1>6, <1>7, <1>8 DEF Next

(***************************************************************************)
(* When a packet's way to the plugin and a reroute together take less than *)
(* the cooldown, one change of a delay causes at most one completed        *)
(* reroute: whatever link changes and by how much, however large the       *)
(* window, however many packets of both paths are under way, and whatever  *)
(* writes fail.                                                            *)
(***************************************************************************)
THEOREM ChangeMovesOnce ==
  ASSUME MaxWrite + MaxLag < Cooldown
  PROVE  Spec => []OneChangeOneReroute
<1>1. LoopInv /\ TypeOK /\ Quiet /\ [Next]_vars => (LoopInv /\ TypeOK /\ Quiet)'
  BY LoopStep, LoopTypeStep, QuietKeeps
<1>2. Spec => [](LoopInv /\ TypeOK /\ Quiet)
  BY LoopInit, LoopTypeInit, QuietInit, <1>1, PTL DEF Spec
<1>3. Spec => []Proved!IInv
  BY LoopIsPlugin, PluginConstants, Proved!Invariance, PTL
<1>4. Init => Settled
  <2> SUFFICES ASSUME Init PROVE SteadyOn("long") /\ pending = {} /\ MovedOnce
    BY DEF Settled
  <2>1. wire["long"] = <<>> /\ DOMAIN last_path = {}
    BY DEF Init, Path
  <2>. QED  BY <2>1 DEF Init, Plugin!Init, SteadyOn, MovedOnce
<1>5. Spec => []Settled
  BY <1>2, <1>3, <1>4, SettledKeeps, PTL DEF Spec
<1>6. TypeOK /\ Settled => OneChangeOneReroute
  <2> SUFFICES ASSUME TypeOK, Settled, shifts <= 1 PROVE Len(emitted) <= 1
    BY DEF OneChangeOneReroute
  <2>1. MovedOnce
    BY DEF Settled
  <2>2. CASE emitted = <<>>
    <3>1. Len(emitted) = 0
      BY <2>2
    <3>. QED  BY <3>1
  <2>3. CASE emitted # <<>>
    <3>1. Len(emitted) = 1
      BY <2>1, <2>3, Zenon DEF MovedOnce
    <3>. QED  BY <3>1
  <2>. QED  BY <2>2, <2>3
<1>. QED  BY <1>2, <1>5, <1>6, PTL
=============================================================================
