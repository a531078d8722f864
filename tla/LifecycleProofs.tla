-------------------------- MODULE LifecycleProofs --------------------------
(***************************************************************************)
(* What holds for any number of controller processes and any hosts, in     *)
(* whatever order processes start, fail, are killed, and their streams     *)
(* drop.  Mastership: at no time do two processes that are setting up or   *)
(* running hold streams to the same switch.  From it: while a process      *)
(* runs, the switches hold what its setup_plugin wrote, and the routes are *)
(* those of its path unless a reroute of its own failed.  And no call is   *)
(* refused for what it asks: the library builds every write, INSERTs find  *)
(* their keys free, and MODIFYs find their entries.                        *)
(***************************************************************************)
EXTENDS Lifecycle, SetupProofs, TLAPS

Phases == {"none", "setup", "running", "closing", "gone"}

StreamTypes ==
  /\ phase \in [Process -> Phases]
  /\ opened = [c \in Process |-> opened[c]]
  /\ closed = [c \in Process |-> closed[c]]
  /\ session \in [Switch -> {0} \cup Process]

(* A process that controls switches has not closed any stream, and one     *)
(* that has not begun has not opened any.                                  *)
NotClosing ==
  \A c \in Process :
    /\ Controls(c) => closed[c] = {}
    /\ phase[c] = "none" => opened[c] = {} /\ closed[c] = {}

StreamInv == StreamTypes /\ NotClosing /\ StreamsAreHeld

(* No process is up at first, and no stream is open.                       *)
LEMMA StreamInit == Init => StreamInv
  BY DEF Init, StreamInv, StreamTypes, NotClosing, StreamsAreHeld, Controls, Phases

(* Nothing about streams changes.                                          *)
LEMMA QuietStreams ==
  ASSUME StreamInv, UNCHANGED <<phase, opened, closed, session>>
  PROVE  StreamInv'
  BY DEF StreamInv, StreamTypes, NotClosing, StreamsAreHeld, Controls

(* A process stops controlling its switches, and the streams stay.         *)
LEMMA Stopping ==
  ASSUME StreamInv, NEW c \in Process,
         phase' = [phase EXCEPT ![c] = "closing"],
         UNCHANGED <<opened, closed, session>>
  PROVE  StreamInv'
<1>1. \A d \in Process : phase'[d] = IF d = c THEN "closing" ELSE phase[d]
  BY DEF StreamInv, StreamTypes
<1>2. StreamTypes'
  BY DEF StreamInv, StreamTypes, Phases
<1>. QED  BY <1>1, <1>2 DEF StreamInv, NotClosing, StreamsAreHeld, Controls

(* The end of a process takes its memory, not the streams.                 *)
LEMMA Leaving ==
  ASSUME StreamInv, NEW c \in Process, Leave(c)
  PROVE  StreamInv'
<1>1. /\ \A d \in Process : phase'[d] = IF d = c THEN "gone" ELSE phase[d]
      /\ \A d \in Process : opened'[d] = IF d = c THEN {} ELSE opened[d]
      /\ \A d \in Process : closed'[d] = IF d = c THEN {} ELSE closed[d]
      /\ session' = session
  BY DEF StreamInv, StreamTypes, Leave, switch
<1>2. StreamTypes'
  BY DEF StreamInv, StreamTypes, Leave, switch, Phases
<1>. QED  BY <1>1, <1>2 DEF StreamInv, NotClosing, StreamsAreHeld, Controls

(* A stream is opened only if the switch has none: no other process that   *)
(* controls it can have opened one.  The other calls leave streams alone.  *)
LEMMA EffectOnStreams ==
  ASSUME StreamInv, NEW c \in Process, phase[c] = "setup", Succeeds(c), Effect(c)
  PROVE  /\ opened' = [d \in Process |-> opened'[d]]
         /\ session' \in [Switch -> {0} \cup Process]
         /\ \A d \in Process : d # c => opened'[d] = opened[d]
         /\ \A d \in Process, sw \in Switch :
              Controls(d) /\ sw \in opened'[d] => session'[sw] = d
<1> DEFINE w == TheWrite(c)
<1>1. CASE Connecting(c)
  <2>1. session[w.sw] = 0
    BY <1>1 DEF Succeeds, Rejected
  <2>2. /\ session' = [session EXCEPT ![w.sw] = IF session[w.sw] = 0 THEN c ELSE session[w.sw]]
        /\ opened' = [opened EXCEPT ![c] = opened[c] \cup {w.sw}]
    BY <1>1 DEF Effect
  <2> HIDE DEF w
  <2>3. session' \in [Switch -> {0} \cup Process]
    BY <2>1, <2>2 DEF StreamInv, StreamTypes
  <2>4. \A sw \in Switch : session'[sw] = IF sw = w.sw THEN c ELSE session[sw]
    BY <2>1, <2>2 DEF StreamInv, StreamTypes
  <2>5. \A d \in Process :
          opened'[d] = IF d = c THEN opened[d] \cup {w.sw} ELSE opened[d]
    BY <2>2 DEF StreamInv, StreamTypes
  <2>6. opened' = [d \in Process |-> opened'[d]]
    BY <2>2 DEF StreamInv, StreamTypes
  <2>7. \A d \in Process : d # 0
    BY DEF Process
  <2>8. ASSUME NEW d \in Process, NEW sw \in Switch, Controls(d), sw \in opened'[d]
        PROVE  session'[sw] = d
    <3>1. CASE sw \in opened[d]
      <4>1. session[sw] = d /\ d # 0
        BY <2>7, <2>8, <3>1 DEF StreamInv, StreamsAreHeld
      <4>. QED  BY <2>1, <2>4, <4>1
    <3>2. CASE sw \notin opened[d]
      BY <2>4, <2>5, <2>8, <3>2
    <3>. QED  BY <3>1, <3>2
  <2>. QED  BY <2>3, <2>5, <2>6, <2>8
<1>2. CASE ~Connecting(c)
  <2>1. UNCHANGED <<session, opened>>
    BY <1>2 DEF Effect
  <2>. QED  BY <2>1 DEF StreamInv, StreamTypes, StreamsAreHeld
<1>. QED  BY <1>1, <1>2

(* The calls of setup_plugin, whether they return, raise or are cut short. *)
LEMMA SettingStep ==
  ASSUME StreamInv, NEW c \in Process, Setting(c)
  PROVE  StreamInv'
<1>1. CASE CallReturns(c)
  <2>1. phase[c] = "setup" /\ Succeeds(c) /\ Effect(c) /\ closed' = closed
    BY <1>1 DEF CallReturns
  <2>2. PICK p \in {"setup", "running"} : phase' = [phase EXCEPT ![c] = p]
    BY <1>1, <2>1 DEF CallReturns
  <2>3. \A d \in Process : phase'[d] = IF d = c THEN p ELSE phase[d]
    BY <2>2 DEF StreamInv, StreamTypes
  <2>4. phase' \in [Process -> Phases]
    BY <2>2 DEF StreamInv, StreamTypes, Phases
  <2>5. \A d \in Process : Controls(d)' <=> Controls(d)
    BY <2>1, <2>3 DEF Controls
  <2>6. NotClosing'
    BY <2>1, <2>3, <2>5, EffectOnStreams DEF StreamInv, NotClosing
  <2>7. StreamsAreHeld'
    BY <2>1, <2>5, EffectOnStreams DEF StreamsAreHeld
  <2>. QED  BY <2>1, <2>4, <2>6, <2>7, EffectOnStreams DEF StreamInv, StreamTypes
<1>2. ASSUME phase[c] = "setup", Succeeds(c), Effect(c), Stop(c)
      PROVE  StreamInv'
  <2>1. closed' = closed /\ phase' = [phase EXCEPT ![c] = "closing"]
    BY <1>2 DEF Stop
  <2>2. \A d \in Process : phase'[d] = IF d = c THEN "closing" ELSE phase[d]
    BY <2>1 DEF StreamInv, StreamTypes
  <2>3. phase' \in [Process -> Phases]
    BY <2>1 DEF StreamInv, StreamTypes, Phases
  <2>4. \A d \in Process : Controls(d)' => Controls(d) /\ d # c
    BY <2>2 DEF Controls
  <2>5. NotClosing'
    BY <1>2, <2>1, <2>2, <2>4, EffectOnStreams DEF StreamInv, NotClosing
  <2>6. StreamsAreHeld'
    BY <1>2, <2>4, EffectOnStreams DEF StreamsAreHeld
  <2>. QED  BY <1>2, <2>1, <2>3, <2>5, <2>6, EffectOnStreams DEF StreamInv, StreamTypes
<1>3. ASSUME NoEffect, Stop(c) PROVE StreamInv'
  BY <1>3, Stopping DEF NoEffect, Stop, switch
<1>. QED  BY <1>1, <1>2, <1>3 DEF Setting, CallRaises, InterruptSetup

(* A process that closes streams controls nothing any more.                *)
LEMMA EndingStep ==
  ASSUME StreamInv, NEW c \in Process, Ending(c)
  PROVE  StreamInv'
<1>1. CASE InterruptRun(c)
  BY <1>1, Stopping DEF InterruptRun, NoEffect, Stop, switch
<1>2. CASE Exit(c) \/ Kill(c)
  BY <1>2, Leaving DEF Exit, Kill
<1>3. ASSUME NEW i \in DOMAIN Connections, CloseStream(c, i) PROVE StreamInv'
  <2>1. /\ phase[c] = "closing" /\ UNCHANGED <<phase, opened, session>>
        /\ closed' = [closed EXCEPT ![c] = closed[c] \cup {Connections[i]}]
    BY <1>3 DEF CloseStream, switch
  <2>2. /\ closed' = [d \in Process |-> closed'[d]]
        /\ \A d \in Process : d # c => closed'[d] = closed[d]
    BY <2>1 DEF StreamInv, StreamTypes
  <2>. QED  BY <2>1, <2>2 DEF StreamInv, StreamTypes, NotClosing, StreamsAreHeld, Controls
<1>. QED  BY <1>1, <1>2, <1>3 DEF Ending

(* A stream that drops belonged to a process that controls nothing.        *)
LEMMA DropStep ==
  ASSUME StreamInv, NEW c \in Process, NEW sw \in Switch, StreamDrops(c, sw)
  PROVE  StreamInv'
<1>1. UNCHANGED <<phase, opened, closed>> /\ session' = [session EXCEPT ![sw] = 0]
  BY DEF StreamDrops, process
<1>2. ~Controls(c)
  BY DEF StreamDrops, StreamInv, NotClosing, Controls
<1>3. /\ session' \in [Switch -> {0} \cup Process]
      /\ \A s \in Switch : s # sw => session'[s] = session[s]
  BY <1>1 DEF StreamInv, StreamTypes
<1>4. session[sw] = c
  BY DEF StreamDrops
<1>5. StreamsAreHeld'
  BY <1>1, <1>2, <1>3, <1>4 DEF StreamInv, StreamsAreHeld, Controls
<1>. QED  BY <1>1, <1>3, <1>5 DEF StreamInv, StreamTypes, NotClosing, Controls

(* Every step keeps it: those that touch streams, one by one, and the rest. *)
LEMMA StreamStep == StreamInv /\ [Next]_vars => StreamInv'
<1> SUFFICES ASSUME StreamInv, [Next]_vars PROVE StreamInv'
  OBVIOUS
<1>1. ASSUME NEW c \in Process, Launch(c) PROVE StreamInv'
  <2>1. /\ phase[c] = "none" /\ UNCHANGED <<opened, closed, session>>
        /\ phase' = [phase EXCEPT ![c] = "setup"]
    BY <1>1 DEF Launch, switch
  <2>2. \A d \in Process : phase'[d] = IF d = c THEN "setup" ELSE phase[d]
    BY <2>1 DEF StreamInv, StreamTypes
  <2>3. phase' \in [Process -> Phases]
    BY <2>1 DEF StreamInv, StreamTypes, Phases
  <2>. QED  BY <2>1, <2>2, <2>3
            DEF StreamInv, StreamTypes, NotClosing, StreamsAreHeld, Controls
<1>2. ASSUME NEW c \in Process, Rerouting(c) PROVE StreamInv'
  BY <1>2, QuietStreams
     DEF Rerouting, StartReroute, WriteRoute, EndReroute, RouteFails, switch
<1>3. CASE FaultsEnd \/ UNCHANGED vars
  BY <1>3, QuietStreams DEF FaultsEnd, vars, process, switch
<1>. QED  BY <1>1, <1>2, <1>3, SettingStep, EndingStep, DropStep DEF Next

(***************************************************************************)
(* A process that is setting up or running holds every stream it opened:   *)
(* two of them never control the same switch.                              *)
(***************************************************************************)
THEOREM MastershipIsExclusive == Spec => []StreamsAreHeld
<1>1. StreamInv => StreamsAreHeld
  BY DEF StreamInv
<1>. QED  BY <1>1, StreamInit, StreamStep, PTL DEF Spec

-----------------------------------------------------------------------------
(***************************************************************************)
(* The tables.  What a process writes into them, and that nobody else      *)
(* writes between its first pipeline and its end.                          *)
(***************************************************************************)

(* A table has one entry per key. *)
UniqueKeys(table) == \A e, f \in table : e.key = f.key => e = f

Keys(table) == {e.key : e \in table}

(* The effect of an accepted INSERT or MODIFY on a table.                  *)
LEMMA WriteOne ==
  ASSUME NEW table, NEW e
  PROVE  /\ e \in Written(table, e)
         /\ \A f \in table : f.key # e.key => f \in Written(table, e)
         /\ UniqueKeys(table) => UniqueKeys(Written(table, e))
         /\ ~HasKey(table, e.key) => Written(table, e) = table \cup {e}
         /\ HasKey(table, e.key) => Keys(Written(table, e)) = Keys(table)
<1>1. e \in Written(table, e) /\ \A f \in table : f.key # e.key => f \in Written(table, e)
  BY DEF Written
<1>2. UniqueKeys(table) => UniqueKeys(Written(table, e))
  BY DEF Written, UniqueKeys
<1>3. ~HasKey(table, e.key) => Written(table, e) = table \cup {e}
  BY DEF Written, HasKey
<1>4. HasKey(table, e.key) => Keys(Written(table, e)) = Keys(table)
  BY DEF Written, HasKey, Keys
<1>. QED  BY <1>1, <1>2, <1>3, <1>4

(* The key of a route on s2 is its destination's, whatever the path, and   *)
(* tells destinations apart: the P4Info of s2 has the field of ipv4Lpm.    *)
RouteKey(h) == EntryOf(RouteWrite("short", h)).key

(* The write of a route is one to ipv4Lpm of s2.                           *)
LEMMA RouteShape ==
  ASSUME NEW path \in Paths, NEW h
  PROVE  /\ RouteWrite(path, h).sw = "s2" /\ RouteWrite(path, h).op = "lpm"
         /\ RouteWrite(path, h).dst = h
  BY DEF RouteWrite, Route

(* Its rule matches on the destination, which is all the path leaves alone.*)
LEMMA RouteRule ==
  ASSUME NEW path \in Paths, NEW h
  PROVE  LET r == RuleOf(RouteWrite(path, h))
         IN  /\ r.table = "MyIngress." \o "ipv4Lpm" /\ r.priority = 0
             /\ r.match = {On("hdr.ipv4.dstAddr",
                              <<IpAddr(h), IF h = "subnet1" THEN 24 ELSE 32>>)}
<1> DEFINE w == RouteWrite(path, h)
<1>1. w.op = "lpm" /\ w.dst = h
  BY RouteShape
<1> HIDE DEF w
<1>2. RuleOf(w) = Rule("ipv4Lpm",
              {On("hdr.ipv4.dstAddr",
                  <<IpAddr(h), IF h = "subnet1" THEN 24 ELSE 32>>)},
              "forward",
              {On("egressPort", Number(w.port)), On("nextHopMac", MacAddr(w.mac))}, 0)
  BY <1>1 DEF RuleOf
<1>. QED  BY <1>2 DEF Rule, w

(* The P4Info of s2 knows the match field of the rule.                     *)
LEMMA RouteField ==
  Field("hdr.ipv4.dstAddr", "lpm", 32)
    \in GetPart(P4Info("s2").tables, "MyIngress." \o "ipv4Lpm", "hdr.ipv4.dstAddr")
<1> DEFINE lpm == Entity("ipv4Lpm", {Field("hdr.ipv4.dstAddr", "lpm", 32)})
<1>1. P4Info("s2").tables = RouterTables
  BY DEF P4Info, Router
<1>2. lpm \in RouterTables
  BY DEF RouterTables
<1>3. lpm.name = "MyIngress." \o "ipv4Lpm"
        /\ lpm.parts = {Field("hdr.ipv4.dstAddr", "lpm", 32)}
  BY DEF Entity
<1>4. Field("hdr.ipv4.dstAddr", "lpm", 32).name = "hdr.ipv4.dstAddr"
  BY DEF Field
<1> HIDE DEF lpm
<1>. QED  BY <1>1, <1>2, <1>3, <1>4 DEF GetPart

(* So the key of its entry is the table and that one match.                *)
LEMMA RouteKeyShape ==
  ASSUME NEW path \in Paths, NEW h
  PROVE  LET k == EntryOf(RouteWrite(path, h)).key
             part == GetPart(P4Info("s2").tables, "MyIngress." \o "ipv4Lpm",
                             "hdr.ipv4.dstAddr")
         IN  k = [table |-> "MyIngress." \o "ipv4Lpm", priority |-> 0,
                  match |-> {FieldMatch(f, <<IpAddr(h), IF h = "subnet1" THEN 24 ELSE 32>>) :
                              f \in part}]
<1> DEFINE w == RouteWrite(path, h)
           r == RuleOf(w)
           v == <<IpAddr(h), IF h = "subnet1" THEN 24 ELSE 32>>
           m == On("hdr.ipv4.dstAddr", v)
<1>1. w.sw = "s2"
  BY RouteShape
<1>2. r.table = "MyIngress." \o "ipv4Lpm" /\ r.priority = 0 /\ r.match = {m}
  BY RouteRule
<1>3. m.name = "hdr.ipv4.dstAddr" /\ m.value = v
  BY DEF On
<1> HIDE DEF w, r, v, m
<1>4. EntryOf(w) = BuildTableEntry("s2", r)
  BY <1>1 DEF EntryOf, r
<1>5. EntryOf(w).key =
        [table |-> r.table, priority |-> r.priority,
         match |-> UNION {{FieldMatch(f, n.value) :
                            f \in GetPart(P4Info("s2").tables, r.table, n.name)} :
                          n \in r.match}]
  BY <1>4 DEF BuildTableEntry
<1>6. UNION {{FieldMatch(f, n.value) :
               f \in GetPart(P4Info("s2").tables, r.table, n.name)} : n \in {m}}
        = {FieldMatch(f, m.value) : f \in GetPart(P4Info("s2").tables, r.table, m.name)}
  OBVIOUS
<1>. QED  BY <1>2, <1>3, <1>5, <1>6 DEF w, v

(* A route has the same key on both paths, and no two hosts share one.     *)
LEMMA RouteKeysDiffer ==
  /\ \A path \in Paths : \A h : EntryOf(RouteWrite(path, h)).key = RouteKey(h)
  /\ \A g, h : RouteKey(g) = RouteKey(h) => g = h
<1>0. "short" \in Paths
  BY DEF Paths
<1>1. ASSUME NEW path \in Paths, NEW h PROVE EntryOf(RouteWrite(path, h)).key = RouteKey(h)
  BY <1>0, RouteKeyShape DEF RouteKey
<1>2. ASSUME NEW g, NEW h, RouteKey(g) = RouteKey(h) PROVE g = h
  <2> DEFINE v(x) == <<IpAddr(x), IF x = "subnet1" THEN 24 ELSE 32>>
             part == GetPart(P4Info("s2").tables, "MyIngress." \o "ipv4Lpm",
                             "hdr.ipv4.dstAddr")
             f == Field("hdr.ipv4.dstAddr", "lpm", 32)
  <2>1. /\ RouteKey(g).match = {FieldMatch(e, v(g)) : e \in part}
        /\ RouteKey(h).match = {FieldMatch(e, v(h)) : e \in part}
    <3>1. ASSUME NEW x PROVE RouteKey(x).match = {FieldMatch(e, v(x)) : e \in part}
      <4>1. EntryOf(RouteWrite("short", x)).key
              = [table |-> "MyIngress." \o "ipv4Lpm", priority |-> 0,
                 match |-> {FieldMatch(e, v(x)) : e \in part}]
        BY <1>0, RouteKeyShape
      <4> DEFINE all == {FieldMatch(e, v(x)) : e \in part}
      <4> HIDE DEF all
      <4>. QED  BY <4>1 DEF RouteKey, all
    <3>. QED  BY <3>1
  <2>2. f \in part
    BY RouteField
  <2>3. \A x, e : FieldMatch(e, v(x)).value[2] = x
    BY DEF FieldMatch, Encode, IpAddr
  <2> HIDE DEF v, part, f
  <2>4. FieldMatch(f, v(g)) \in {FieldMatch(e, v(h)) : e \in part}
    BY <1>2, <2>1, <2>2
  <2>5. PICK e \in part : FieldMatch(f, v(g)) = FieldMatch(e, v(h))
    BY <2>4
  <2>. QED  BY <2>3, <2>5
<1>. QED  BY <1>1, <1>2

-----------------------------------------------------------------------------
(***************************************************************************)
(* What p4runtime_lib makes of the writes.                                 *)
(***************************************************************************)

(* There is an entity with this name, whose part of that name is this one. *)
Knows(entities, name, part) ==
  Get(entities, "MyIngress." \o name) # {}
    /\ GetPart(entities, "MyIngress." \o name, part.name) = {part}

(* A part whose name no other part has is the one that is found.           *)
LEMMA OnlyPart ==
  ASSUME NEW entities, NEW name, NEW o \in entities, o.name = "MyIngress." \o name,
         NEW p \in o.parts, \A e \in entities : \A q \in e.parts : q.name = p.name => q = p
  PROVE  Knows(entities, name, p)
<1> DEFINE full == "MyIngress." \o name
<1>1. o.name = full
  OBVIOUS
<1> HIDE DEF full
<1>2. Get(entities, full) # {} /\ GetPart(entities, full, p.name) = {p}
  BY <1>1 DEF GetPart, Get
<1>. QED  BY <1>2 DEF Knows, full

(* The entities of each switch's P4Info.                                   *)
LEMMA Programs ==
  /\ \A sw \in Edge :
       /\ P4Info(sw).tables \in {EdgeTables, EdgeTables \cup {MarkingTable}}
       /\ P4Info(sw).actions \in {EdgeActions, EdgeActions \cup {Entity("mark_int", {})}}
  /\ P4Info("s1").tables = EdgeTables \cup {MarkingTable}
  /\ P4Info("s1").actions = EdgeActions \cup {Entity("mark_int", {})}
  /\ \A sw \in Router : P4Info(sw).tables = RouterTables /\ P4Info(sw).actions = RouterActions
<1>1. /\ P4Info("s1").tables = EdgeTables \cup {MarkingTable}
      /\ P4Info("s1").actions = EdgeActions \cup {Entity("mark_int", {})}
  BY DEF P4Info, Router
<1>2. P4Info("s4").tables = EdgeTables /\ P4Info("s4").actions = EdgeActions
  BY DEF P4Info, Router
<1>3. ASSUME NEW sw \in Router
      PROVE  P4Info(sw).tables = RouterTables /\ P4Info(sw).actions = RouterActions
  <2>1. sw # "s1" /\ sw # "s4"
    BY DEF Router
  <2>. QED  BY <2>1 DEF P4Info
<1>. QED  BY <1>1, <1>2, <1>3 DEF Edge

(* What setup's MAC rules refer to.                                        *)
LEMMA KnowsMacRules ==
  ASSUME NEW sw \in Edge
  PROVE  /\ Knows(P4Info(sw).tables, "dMacLookup", Field("hdr.eth.dstAddr", "exact", 48))
         /\ Knows(P4Info(sw).actions, "forward", Param("egress_port", 9))
<1>0. /\ P4Info(sw).tables \in {EdgeTables, EdgeTables \cup {MarkingTable}}
      /\ P4Info(sw).actions \in {EdgeActions, EdgeActions \cup {Entity("mark_int", {})}}
  BY Programs
<1>1. Knows(P4Info(sw).tables, "dMacLookup", Field("hdr.eth.dstAddr", "exact", 48))
  <2> DEFINE o == Entity("dMacLookup", {Field("hdr.eth.dstAddr", "exact", 48)})
             p == Field("hdr.eth.dstAddr", "exact", 48)
  <2>1. o \in P4Info(sw).tables /\ o.name = "MyIngress." \o "dMacLookup" /\ p \in o.parts
    BY <1>0 DEF EdgeTables, MarkingTable, Entity
  <2>2. \A e \in P4Info(sw).tables : \A q \in e.parts : q.name = p.name => q = p
    BY <1>0 DEF EdgeTables, MarkingTable, Entity, Field
  <2> HIDE DEF o, p
  <2>3. Knows(P4Info(sw).tables, "dMacLookup", p)
    BY <2>1, <2>2, OnlyPart
  <2>. QED  BY <2>3 DEF p
<1>2. Knows(P4Info(sw).actions, "forward", Param("egress_port", 9))
  <2> DEFINE o == Entity("forward", {Param("egress_port", 9)})
             p == Param("egress_port", 9)
  <2>1. o \in P4Info(sw).actions /\ o.name = "MyIngress." \o "forward" /\ p \in o.parts
    BY <1>0 DEF EdgeActions, Entity
  <2>2. \A e \in P4Info(sw).actions : \A q \in e.parts : q.name = p.name => q = p
    BY <1>0 DEF EdgeActions, Entity, Param
  <2> HIDE DEF o, p
  <2>3. Knows(P4Info(sw).actions, "forward", p)
    BY <2>1, <2>2, OnlyPart
  <2>. QED  BY <2>3 DEF p
<1>. QED  BY <1>1, <1>2

(* What the routers' rules refer to.                                       *)
LEMMA KnowsRouterRules ==
  ASSUME NEW sw \in Router
  PROVE  /\ Knows(P4Info(sw).tables, "ipv4Lpm", Field("hdr.ipv4.dstAddr", "lpm", 32))
         /\ Knows(P4Info(sw).tables, "internalMacLookup", Field("std_meta.egress_spec", "exact", 9))
         /\ Knows(P4Info(sw).actions, "forward", Param("egressPort", 9))
         /\ Knows(P4Info(sw).actions, "forward", Param("nextHopMac", 48))
         /\ Knows(P4Info(sw).actions, "rewriteMacs", Param("srcMac", 48))
<1>0. P4Info(sw).tables = RouterTables /\ P4Info(sw).actions = RouterActions
  BY Programs
<1>1. Knows(P4Info(sw).tables, "ipv4Lpm", Field("hdr.ipv4.dstAddr", "lpm", 32))
  <2> DEFINE o == Entity("ipv4Lpm", {Field("hdr.ipv4.dstAddr", "lpm", 32)})
             p == Field("hdr.ipv4.dstAddr", "lpm", 32)
  <2>1. o \in P4Info(sw).tables /\ o.name = "MyIngress." \o "ipv4Lpm" /\ p \in o.parts
    BY <1>0 DEF RouterTables, Entity
  <2>2. \A e \in P4Info(sw).tables : \A q \in e.parts : q.name = p.name => q = p
    BY <1>0 DEF RouterTables, Entity, Field
  <2> HIDE DEF o, p
  <2>3. Knows(P4Info(sw).tables, "ipv4Lpm", p)
    BY <2>1, <2>2, OnlyPart
  <2>. QED  BY <2>3 DEF p
<1>2. Knows(P4Info(sw).tables, "internalMacLookup", Field("std_meta.egress_spec", "exact", 9))
  <2> DEFINE o == Entity("internalMacLookup", {Field("std_meta.egress_spec", "exact", 9)})
             p == Field("std_meta.egress_spec", "exact", 9)
  <2>1. o \in P4Info(sw).tables /\ o.name = "MyIngress." \o "internalMacLookup" /\ p \in o.parts
    BY <1>0 DEF RouterTables, Entity
  <2>2. \A e \in P4Info(sw).tables : \A q \in e.parts : q.name = p.name => q = p
    BY <1>0 DEF RouterTables, Entity, Field
  <2> HIDE DEF o, p
  <2>3. Knows(P4Info(sw).tables, "internalMacLookup", p)
    BY <2>1, <2>2, OnlyPart
  <2>. QED  BY <2>3 DEF p
<1>3. Knows(P4Info(sw).actions, "forward", Param("egressPort", 9))
  <2> DEFINE o == Entity("forward", {Param("egressPort", 9), Param("nextHopMac", 48)})
             p == Param("egressPort", 9)
  <2>1. o \in P4Info(sw).actions /\ o.name = "MyIngress." \o "forward" /\ p \in o.parts
    BY <1>0 DEF RouterActions, Entity
  <2>2. \A e \in P4Info(sw).actions : \A q \in e.parts : q.name = p.name => q = p
    BY <1>0 DEF RouterActions, Entity, Param
  <2> HIDE DEF o, p
  <2>3. Knows(P4Info(sw).actions, "forward", p)
    BY <2>1, <2>2, OnlyPart
  <2>. QED  BY <2>3 DEF p
<1>4. Knows(P4Info(sw).actions, "forward", Param("nextHopMac", 48))
  <2> DEFINE o == Entity("forward", {Param("egressPort", 9), Param("nextHopMac", 48)})
             p == Param("nextHopMac", 48)
  <2>1. o \in P4Info(sw).actions /\ o.name = "MyIngress." \o "forward" /\ p \in o.parts
    BY <1>0 DEF RouterActions, Entity
  <2>2. \A e \in P4Info(sw).actions : \A q \in e.parts : q.name = p.name => q = p
    BY <1>0 DEF RouterActions, Entity, Param
  <2> HIDE DEF o, p
  <2>3. Knows(P4Info(sw).actions, "forward", p)
    BY <2>1, <2>2, OnlyPart
  <2>. QED  BY <2>3 DEF p
<1>5. Knows(P4Info(sw).actions, "rewriteMacs", Param("srcMac", 48))
  <2> DEFINE o == Entity("rewriteMacs", {Param("srcMac", 48)})
             p == Param("srcMac", 48)
  <2>1. o \in P4Info(sw).actions /\ o.name = "MyIngress." \o "rewriteMacs" /\ p \in o.parts
    BY <1>0 DEF RouterActions, Entity
  <2>2. \A e \in P4Info(sw).actions : \A q \in e.parts : q.name = p.name => q = p
    BY <1>0 DEF RouterActions, Entity, Param
  <2> HIDE DEF o, p
  <2>3. Knows(P4Info(sw).actions, "rewriteMacs", p)
    BY <2>1, <2>2, OnlyPart
  <2>. QED  BY <2>3 DEF p
<1>. QED  BY <1>1, <1>2, <1>3, <1>4, <1>5

(* What the rules with the switch ids refer to.                            *)
LEMMA KnowsIdRules ==
  ASSUME NEW sw \in Switch
  PROVE  /\ Knows(P4Info(sw).tables, "switchIdTable", Field("meta.constant", "exact", 8))
         /\ Knows(P4Info(sw).actions, "set_switch_id", Param("id", 8))
<1>0. /\ P4Info(sw).tables \in {EdgeTables, EdgeTables \cup {MarkingTable}, RouterTables}
      /\ P4Info(sw).actions
           \in {EdgeActions, EdgeActions \cup {Entity("mark_int", {})}, RouterActions}
  BY Programs DEF Switch
<1>1. Knows(P4Info(sw).tables, "switchIdTable", Field("meta.constant", "exact", 8))
  <2> DEFINE o == Entity("switchIdTable", {Field("meta.constant", "exact", 8)})
             p == Field("meta.constant", "exact", 8)
  <2>1. o \in P4Info(sw).tables /\ o.name = "MyIngress." \o "switchIdTable" /\ p \in o.parts
    BY <1>0 DEF EdgeTables, MarkingTable, RouterTables, Entity
  <2>2. \A e \in P4Info(sw).tables : \A q \in e.parts : q.name = p.name => q = p
    BY <1>0 DEF EdgeTables, MarkingTable, RouterTables, Entity, Field
  <2> HIDE DEF o, p
  <2>3. Knows(P4Info(sw).tables, "switchIdTable", p)
    BY <2>1, <2>2, OnlyPart
  <2>. QED  BY <2>3 DEF p
<1>2. Knows(P4Info(sw).actions, "set_switch_id", Param("id", 8))
  <2> DEFINE o == Entity("set_switch_id", {Param("id", 8)})
             p == Param("id", 8)
  <2>1. o \in P4Info(sw).actions /\ o.name = "MyIngress." \o "set_switch_id" /\ p \in o.parts
    BY <1>0 DEF EdgeActions, RouterActions, Entity
  <2>2. \A e \in P4Info(sw).actions : \A q \in e.parts : q.name = p.name => q = p
    BY <1>0 DEF EdgeActions, RouterActions, Entity, Param
  <2> HIDE DEF o, p
  <2>3. Knows(P4Info(sw).actions, "set_switch_id", p)
    BY <2>1, <2>2, OnlyPart
  <2>. QED  BY <2>3 DEF p
<1>. QED  BY <1>1, <1>2

(* What s1's marking rule refers to.                                       *)
LEMMA KnowsMarkingRule ==
  /\ Knows(P4Info("s1").tables, "intMarkingTable", Field("hdr.ipv4.srcAddr", "ternary", 32))
  /\ Knows(P4Info("s1").tables, "intMarkingTable", Field("hdr.ipv4.dstAddr", "ternary", 32))
  /\ Get(P4Info("s1").actions, "MyIngress." \o "mark_int") # {}
<1>0. /\ P4Info("s1").tables = EdgeTables \cup {MarkingTable}
      /\ P4Info("s1").actions = EdgeActions \cup {Entity("mark_int", {})}
  BY Programs
<1>1. Knows(P4Info("s1").tables, "intMarkingTable", Field("hdr.ipv4.srcAddr", "ternary", 32))
  <2> DEFINE o == Entity("intMarkingTable", {Field("hdr.ipv4.srcAddr", "ternary", 32),
                                          Field("hdr.ipv4.dstAddr", "ternary", 32)})
             p == Field("hdr.ipv4.srcAddr", "ternary", 32)
  <2>1. o \in P4Info("s1").tables /\ o.name = "MyIngress." \o "intMarkingTable" /\ p \in o.parts
    BY <1>0 DEF EdgeTables, MarkingTable, Entity
  <2>2. \A e \in P4Info("s1").tables : \A q \in e.parts : q.name = p.name => q = p
    BY <1>0 DEF EdgeTables, MarkingTable, Entity, Field
  <2> HIDE DEF o, p
  <2>3. Knows(P4Info("s1").tables, "intMarkingTable", p)
    BY <2>1, <2>2, OnlyPart
  <2>. QED  BY <2>3 DEF p
<1>2. Knows(P4Info("s1").tables, "intMarkingTable", Field("hdr.ipv4.dstAddr", "ternary", 32))
  <2> DEFINE o == Entity("intMarkingTable", {Field("hdr.ipv4.srcAddr", "ternary", 32),
                                          Field("hdr.ipv4.dstAddr", "ternary", 32)})
             p == Field("hdr.ipv4.dstAddr", "ternary", 32)
  <2>1. o \in P4Info("s1").tables /\ o.name = "MyIngress." \o "intMarkingTable" /\ p \in o.parts
    BY <1>0 DEF EdgeTables, MarkingTable, Entity
  <2>2. \A e \in P4Info("s1").tables : \A q \in e.parts : q.name = p.name => q = p
    BY <1>0 DEF EdgeTables, MarkingTable, Entity, Field
  <2> HIDE DEF o, p
  <2>3. Knows(P4Info("s1").tables, "intMarkingTable", p)
    BY <2>1, <2>2, OnlyPart
  <2>. QED  BY <2>3 DEF p
<1>3. Get(P4Info("s1").actions, "MyIngress." \o "mark_int") # {}
  <2> DEFINE o == Entity("mark_int", {})
  <2>1. o \in P4Info("s1").actions /\ o.name = "MyIngress." \o "mark_int"
    BY <1>0 DEF Entity
  <2> HIDE DEF o
  <2>. QED  BY <2>1 DEF Get
<1>. QED  BY <1>1, <1>2, <1>3

(* The library makes a message of the write w. *)
Builds(w) == RuleBuilds(w.sw, RuleOf(w))

(* Its entry matches on this field alone, and on what has this value.      *)
Matches(w, field, value) ==
  LET match == EntryOf(w).key.match
  IN  match # {} /\ \A e \in match : e.field = field /\ e.value[2] = value

(* What fits: addresses, ports of nine bits and ids of eight.              *)
LEMMA Encodings ==
  /\ \A a : Encodes(MacAddr(a), 48) /\ Encode(MacAddr(a), 48)[2] = a
  /\ \A a : Encodes(IpAddr(a), 32) /\ Encode(IpAddr(a), 32)[2] = a
  /\ \A n \in 0..511 : Encodes(Number(n), 9) /\ Encode(Number(n), 9)[2] = n
  /\ \A n \in 0..255 : Encodes(Number(n), 8) /\ Encode(Number(n), 8)[2] = n
<1>1. /\ BitwidthToBytes(48) = 6 /\ BitwidthToBytes(32) = 4
      /\ BitwidthToBytes(9) = 2 /\ BitwidthToBytes(8) = 1
  BY DEF BitwidthToBytes
<1>2. 2 ^ 9 = 512 /\ 2 ^ 8 = 256 /\ 2 ^ (9 - 1) = 256 /\ 2 ^ (8 - 1) = 128
  OBVIOUS
<1>3. 256 ^ BitwidthToBytes(9) = 65536 /\ 256 ^ BitwidthToBytes(8) = 256
  BY DEF BitwidthToBytes
<1>4. \A a : Encodes(MacAddr(a), 48) /\ Encode(MacAddr(a), 48)[2] = a
  BY <1>1 DEF Encodes, Encode, MacAddr
<1>5. \A a : Encodes(IpAddr(a), 32) /\ Encode(IpAddr(a), 32)[2] = a
  BY <1>1 DEF Encodes, Encode, IpAddr
<1>6. ASSUME NEW n \in 0..511 PROVE Encodes(Number(n), 9) /\ Encode(Number(n), 9)[2] = n
  <2> DEFINE x == Number(n)
  <2>1. x.form = "int" /\ x.of = n
    BY DEF Number
  <2>2. n % 2 ^ 9 = n /\ -(2 ^ (9 - 1)) <= n /\ n < 2 ^ 9 /\ n < 256 ^ BitwidthToBytes(9)
    <3>1. n % 512 = n /\ -256 <= n /\ n < 512 /\ n < 65536
      OBVIOUS
    <3>2. n % 2 ^ 9 = n /\ n < 2 ^ 9
      BY <1>2, <3>1
    <3>3. -(2 ^ (9 - 1)) <= n
      BY <1>2, <3>1
    <3>4. n < 256 ^ BitwidthToBytes(9)
      BY <1>3, <3>1
    <3>. QED  BY <3>2, <3>3, <3>4
  <2> HIDE DEF x
  <2>3. Encodes(x, 9)
    BY <2>1, <2>2, Zenon DEF Encodes
  <2>4. Encode(x, 9)[2] = n
    BY <2>1, <2>2 DEF Encode
  <2>. QED  BY <2>3, <2>4 DEF x
<1>7. ASSUME NEW n \in 0..255 PROVE Encodes(Number(n), 8) /\ Encode(Number(n), 8)[2] = n
  <2> DEFINE x == Number(n)
  <2>1. x.form = "int" /\ x.of = n
    BY DEF Number
  <2>2. n % 2 ^ 8 = n /\ -(2 ^ (8 - 1)) <= n /\ n < 2 ^ 8 /\ n < 256 ^ BitwidthToBytes(8)
    <3>1. n % 256 = n /\ -128 <= n /\ n < 256 /\ n < 256
      OBVIOUS
    <3>2. n % 2 ^ 8 = n /\ n < 2 ^ 8
      BY <1>2, <3>1
    <3>3. -(2 ^ (8 - 1)) <= n
      BY <1>2, <3>1
    <3>4. n < 256 ^ BitwidthToBytes(8)
      BY <1>3, <3>1
    <3>. QED  BY <3>2, <3>3, <3>4
  <2> HIDE DEF x
  <2>3. Encodes(x, 8)
    BY <2>1, <2>2, Zenon DEF Encodes
  <2>4. Encode(x, 8)[2] = n
    BY <2>1, <2>2 DEF Encode
  <2>. QED  BY <2>3, <2>4 DEF x
<1>. QED  BY <1>4, <1>5, <1>6, <1>7

(* A rule that matches on one field of a table, and of which the library   *)
(* knows all that it refers to.                                            *)
WellMade(w, t, f, v, a, ps, n) ==
  /\ RuleOf(w) = Rule(t, {On(f.name, v)}, a, ps, n)
  /\ Knows(P4Info(w.sw).tables, t, f) /\ FieldBuilds(f, v)
  /\ Get(P4Info(w.sw).actions, "MyIngress." \o a) # {}
  /\ \A x \in ps : \E p : Knows(P4Info(w.sw).actions, a, p) /\ p.name = x.name
                            /\ Encodes(x.value, p.width)

(* It is built, and its entry has that match.                              *)
LEMMA OneField ==
  ASSUME NEW w, NEW t, NEW f, NEW v, NEW a, NEW ps, NEW n, WellMade(w, t, f, v, a, ps, n)
  PROVE  Builds(w) /\ EntryOf(w).key.match = {FieldMatch(f, v)}
<1> DEFINE r == RuleOf(w)
           m == On(f.name, v)
           tname == "MyIngress." \o t
           sw == w.sw
           aname == "MyIngress." \o a
<1>1. r.table = tname /\ r.match = {m} /\ r.action = aname /\ r.params = ps
  BY DEF Rule, WellMade
<1>2. m.name = f.name /\ m.value = v
  BY DEF On
<1>3. Get(P4Info(sw).tables, tname) # {} /\ GetPart(P4Info(sw).tables, tname, f.name) = {f}
  BY DEF Knows, WellMade
<1>4. \A x \in ps : \E p \in GetPart(P4Info(sw).actions, aname, x.name) :
        Encodes(x.value, p.width)
  BY DEF Knows, WellMade
<1>5. Get(P4Info(sw).actions, aname) # {} /\ FieldBuilds(f, v)
  BY DEF WellMade
<1> HIDE DEF r, m, tname, aname, sw
<1>6. RuleBuilds(sw, r)
  BY <1>1, <1>2, <1>3, <1>4, <1>5 DEF RuleBuilds
<1>7. BuildTableEntry(sw, r).key.match
        = UNION {{FieldMatch(g, x.value) : g \in GetPart(P4Info(sw).tables, r.table, x.name)} :
                 x \in r.match}
  BY DEF BuildTableEntry
<1>8. BuildTableEntry(sw, r).key.match = {FieldMatch(f, v)}
  BY <1>1, <1>2, <1>3, <1>7
<1>. QED  BY <1>6, <1>8 DEF Builds, EntryOf, r, sw

(* One field that is not ternary.                                          *)
LEMMA PlainField ==
  ASSUME NEW f, NEW v, f.type # "ternary", Encodes(v[1], f.width)
  PROVE  /\ FieldBuilds(f, v)
         /\ FieldMatch(f, v).field = f.name /\ FieldMatch(f, v).value = Encode(v[1], f.width)
  BY DEF FieldBuilds, FieldMatch

(* A host's MAC rule.                                                      *)
LEMMA BuildsMac ==
  ASSUME NEW sw \in Edge, NEW mac, NEW port \in 0..511
  PROVE  LET w == L2(sw, mac, port)
         IN  Builds(w) /\ Matches(w, "hdr.eth.dstAddr", mac)
<1> DEFINE w == L2(sw, mac, port)
           f == Field("hdr.eth.dstAddr", "exact", 48)
           v == <<MacAddr(mac)>>
           p == Param("egress_port", 9)
           x == On("egress_port", Number(port))
<1>1. w.sw = sw /\ w.op = "dMac" /\ w.mac = mac /\ w.port = port
  BY DEF L2
<1>2. f.name = "hdr.eth.dstAddr" /\ f.type # "ternary" /\ f.width = 48 /\ v[1] = MacAddr(mac)
  BY DEF Field
<1>3. /\ p.name = x.name /\ p.width = 9 /\ x.value = Number(port)
  BY DEF Param, On
<1> HIDE DEF w
<1>4. RuleOf(w) = Rule("dMacLookup", {On(f.name, v)}, "forward", {x}, 0)
  BY <1>1, <1>2 DEF RuleOf
<1>5. /\ Knows(P4Info(sw).tables, "dMacLookup", f)
      /\ Knows(P4Info(sw).actions, "forward", p)
  BY KnowsMacRules
<1> HIDE DEF f, v, p, x
<1>6. /\ Encodes(v[1], f.width) /\ Encode(v[1], f.width)[2] = mac
      /\ Encodes(x.value, p.width)
  <2>1. /\ Encodes(MacAddr(mac), 48) /\ Encode(MacAddr(mac), 48)[2] = mac
        /\ Encodes(Number(port), 9)
    BY Encodings
  <2>. QED  BY <1>2, <1>3, <2>1
<1>7. FieldBuilds(f, v) /\ FieldMatch(f, v).field = f.name /\ FieldMatch(f, v).value[2] = mac
  BY <1>2, <1>6, PlainField
<1>8. Get(P4Info(sw).actions, "MyIngress." \o "forward") # {}
  BY <1>5 DEF Knows
<1>9. \A z \in {x} : \E u : Knows(P4Info(sw).actions, "forward", u) /\ u.name = z.name
                            /\ Encodes(z.value, u.width)
  BY <1>3, <1>5, <1>6
<1>10. WellMade(w, "dMacLookup", f, v, "forward", {x}, 0)
  BY <1>1, <1>4, <1>5, <1>7, <1>8, <1>9 DEF WellMade
<1>11. Builds(w) /\ EntryOf(w).key.match = {FieldMatch(f, v)}
  BY <1>10, OneField
<1>. QED  BY <1>2, <1>7, <1>11 DEF Matches, w

(* A route, on either router and either path.                              *)
LEMMA BuildsRoute ==
  ASSUME NEW sw \in Router, NEW dst, NEW port \in 0..511, NEW mac
  PROVE  LET w == Route(sw, dst, port, mac)
         IN  Builds(w) /\ Matches(w, "hdr.ipv4.dstAddr", dst)
<1> DEFINE w == Route(sw, dst, port, mac)
           f == Field("hdr.ipv4.dstAddr", "lpm", 32)
           v == <<IpAddr(dst), IF dst = "subnet1" THEN 24 ELSE 32>>
           p == Param("egressPort", 9)
           x == On("egressPort", Number(port))
           q == Param("nextHopMac", 48)
           y == On("nextHopMac", MacAddr(mac))
<1>1. w.sw = sw /\ w.op = "lpm" /\ w.dst = dst /\ w.port = port /\ w.mac = mac
  BY DEF Route
<1>2. f.name = "hdr.ipv4.dstAddr" /\ f.type # "ternary" /\ f.width = 32 /\ v[1] = IpAddr(dst)
  BY DEF Field
<1>3. /\ p.name = x.name /\ p.width = 9 /\ x.value = Number(port)
      /\ q.name = y.name /\ q.width = 48 /\ y.value = MacAddr(mac)
  BY DEF Param, On
<1> HIDE DEF w
<1>4. RuleOf(w) = Rule("ipv4Lpm", {On(f.name, v)}, "forward", {x, y}, 0)
  BY <1>1, <1>2 DEF RuleOf
<1>5. /\ Knows(P4Info(sw).tables, "ipv4Lpm", f)
      /\ Knows(P4Info(sw).actions, "forward", p)
      /\ Knows(P4Info(sw).actions, "forward", q)
  BY KnowsRouterRules
<1> HIDE DEF f, v, p, x, q, y
<1>6. /\ Encodes(v[1], f.width) /\ Encode(v[1], f.width)[2] = dst
      /\ Encodes(x.value, p.width)
      /\ Encodes(y.value, q.width)
  <2>1. /\ Encodes(IpAddr(dst), 32) /\ Encode(IpAddr(dst), 32)[2] = dst
        /\ Encodes(Number(port), 9)
        /\ Encodes(MacAddr(mac), 48)
    BY Encodings
  <2>. QED  BY <1>2, <1>3, <2>1
<1>7. FieldBuilds(f, v) /\ FieldMatch(f, v).field = f.name /\ FieldMatch(f, v).value[2] = dst
  BY <1>2, <1>6, PlainField
<1>8. Get(P4Info(sw).actions, "MyIngress." \o "forward") # {}
  BY <1>5 DEF Knows
<1>9. \A z \in {x, y} : \E u : Knows(P4Info(sw).actions, "forward", u) /\ u.name = z.name
                            /\ Encodes(z.value, u.width)
  BY <1>3, <1>5, <1>6
<1>10. WellMade(w, "ipv4Lpm", f, v, "forward", {x, y}, 0)
  BY <1>1, <1>4, <1>5, <1>7, <1>8, <1>9 DEF WellMade
<1>11. Builds(w) /\ EntryOf(w).key.match = {FieldMatch(f, v)}
  BY <1>10, OneField
<1>. QED  BY <1>2, <1>7, <1>11 DEF Matches, w

(* The rewriting of a router port's MAC addresses.                         *)
LEMMA BuildsRewrite ==
  ASSUME NEW sw \in Router, NEW port \in 0..511, NEW mac
  PROVE  LET w == Rewrite(sw, port, mac)
         IN  Builds(w) /\ Matches(w, "std_meta.egress_spec", port)
<1> DEFINE w == Rewrite(sw, port, mac)
           f == Field("std_meta.egress_spec", "exact", 9)
           v == <<Number(port)>>
           p == Param("srcMac", 48)
           x == On("srcMac", MacAddr(mac))
<1>1. w.sw = sw /\ w.op = "rewrite" /\ w.port = port /\ w.mac = mac
  BY DEF Rewrite
<1>2. f.name = "std_meta.egress_spec" /\ f.type # "ternary" /\ f.width = 9 /\ v[1] = Number(port)
  BY DEF Field
<1>3. /\ p.name = x.name /\ p.width = 48 /\ x.value = MacAddr(mac)
  BY DEF Param, On
<1> HIDE DEF w
<1>4. RuleOf(w) = Rule("internalMacLookup", {On(f.name, v)}, "rewriteMacs", {x}, 0)
  BY <1>1, <1>2 DEF RuleOf
<1>5. /\ Knows(P4Info(sw).tables, "internalMacLookup", f)
      /\ Knows(P4Info(sw).actions, "rewriteMacs", p)
  BY KnowsRouterRules
<1> HIDE DEF f, v, p, x
<1>6. /\ Encodes(v[1], f.width) /\ Encode(v[1], f.width)[2] = port
      /\ Encodes(x.value, p.width)
  <2>1. /\ Encodes(Number(port), 9) /\ Encode(Number(port), 9)[2] = port
        /\ Encodes(MacAddr(mac), 48)
    BY Encodings
  <2>. QED  BY <1>2, <1>3, <2>1
<1>7. FieldBuilds(f, v) /\ FieldMatch(f, v).field = f.name /\ FieldMatch(f, v).value[2] = port
  BY <1>2, <1>6, PlainField
<1>8. Get(P4Info(sw).actions, "MyIngress." \o "rewriteMacs") # {}
  BY <1>5 DEF Knows
<1>9. \A z \in {x} : \E u : Knows(P4Info(sw).actions, "rewriteMacs", u) /\ u.name = z.name
                            /\ Encodes(z.value, u.width)
  BY <1>3, <1>5, <1>6
<1>10. WellMade(w, "internalMacLookup", f, v, "rewriteMacs", {x}, 0)
  BY <1>1, <1>4, <1>5, <1>7, <1>8, <1>9 DEF WellMade
<1>11. Builds(w) /\ EntryOf(w).key.match = {FieldMatch(f, v)}
  BY <1>10, OneField
<1>. QED  BY <1>2, <1>7, <1>11 DEF Matches, w

(* A switch's id.                                                          *)
LEMMA BuildsId ==
  ASSUME NEW sw \in Switch, NEW id \in 0..255
  PROVE  LET w == Id(sw, id)
         IN  Builds(w) /\ Matches(w, "meta.constant", 1)
<1> DEFINE w == Id(sw, id)
           f == Field("meta.constant", "exact", 8)
           v == <<Number(1)>>
           p == Param("id", 8)
           x == On("id", Number(id))
<1>1. w.sw = sw /\ w.op = "switchId" /\ w.id = id
  BY DEF Id
<1>2. f.name = "meta.constant" /\ f.type # "ternary" /\ f.width = 8 /\ v[1] = Number(1)
  BY DEF Field
<1>3. /\ p.name = x.name /\ p.width = 8 /\ x.value = Number(id)
  BY DEF Param, On
<1> HIDE DEF w
<1>4. RuleOf(w) = Rule("switchIdTable", {On(f.name, v)}, "set_switch_id", {x}, 0)
  BY <1>1, <1>2 DEF RuleOf
<1>5. /\ Knows(P4Info(sw).tables, "switchIdTable", f)
      /\ Knows(P4Info(sw).actions, "set_switch_id", p)
  BY KnowsIdRules
<1> HIDE DEF f, v, p, x
<1>6. /\ Encodes(v[1], f.width) /\ Encode(v[1], f.width)[2] = 1
      /\ Encodes(x.value, p.width)
  <2>1. /\ Encodes(Number(1), 8) /\ Encode(Number(1), 8)[2] = 1
        /\ Encodes(Number(id), 8)
    <3>1. 1 \in 0..255
      OBVIOUS
    <3>2. \A n \in 0..255 : Encodes(Number(n), 8) /\ Encode(Number(n), 8)[2] = n
      BY Encodings
    <3>. QED  BY <3>1, <3>2
  <2>. QED  BY <1>2, <1>3, <2>1
<1>7. FieldBuilds(f, v) /\ FieldMatch(f, v).field = f.name /\ FieldMatch(f, v).value[2] = 1
  BY <1>2, <1>6, PlainField
<1>8. Get(P4Info(sw).actions, "MyIngress." \o "set_switch_id") # {}
  BY <1>5 DEF Knows
<1>9. \A z \in {x} : \E u : Knows(P4Info(sw).actions, "set_switch_id", u) /\ u.name = z.name
                            /\ Encodes(z.value, u.width)
  BY <1>3, <1>5, <1>6
<1>10. WellMade(w, "switchIdTable", f, v, "set_switch_id", {x}, 0)
  BY <1>1, <1>4, <1>5, <1>7, <1>8, <1>9 DEF WellMade
<1>11. Builds(w) /\ EntryOf(w).key.match = {FieldMatch(f, v)}
  BY <1>10, OneField
<1>. QED  BY <1>2, <1>7, <1>11 DEF Matches, w

(* The marking rule, which matches on two fields.                          *)
LEMMA BuildsMark ==
  Builds(Mark) /\ \E e \in EntryOf(Mark).key.match : e.field = "hdr.ipv4.srcAddr"
<1> DEFINE f == Field("hdr.ipv4.srcAddr", "ternary", 32)
           g == Field("hdr.ipv4.dstAddr", "ternary", 32)
           v == <<IpAddr("10.0.1.0"), IpAddr("255.255.255.0")>>
           u == <<IpAddr("10.0.2.0"), IpAddr("255.255.255.0")>>
           r == RuleOf(Mark)
           tname == "MyIngress." \o "intMarkingTable"
<1>1. Mark.sw = "s1" /\ Mark.op = "marking"
  BY DEF Mark
<1>2. /\ f.name = "hdr.ipv4.srcAddr" /\ f.width = 32
      /\ g.name = "hdr.ipv4.dstAddr" /\ g.width = 32
  BY DEF Field
<1>3. /\ r.table = tname /\ r.match = {On("hdr.ipv4.srcAddr", v), On("hdr.ipv4.dstAddr", u)}
      /\ r.action = "MyIngress." \o "mark_int" /\ r.params = {}
  BY <1>1 DEF RuleOf, Rule
<1>4. /\ Knows(P4Info("s1").tables, "intMarkingTable", f)
      /\ Knows(P4Info("s1").tables, "intMarkingTable", g)
      /\ Get(P4Info("s1").actions, "MyIngress." \o "mark_int") # {}
  BY KnowsMarkingRule
<1>5. /\ Encodes(v[1], f.width) /\ Encodes(v[2], f.width)
      /\ Encodes(u[1], g.width) /\ Encodes(u[2], g.width)
  BY <1>2, Encodings
<1> HIDE DEF f, g, v, u, r, tname
<1>6. FieldBuilds(f, v) /\ FieldBuilds(g, u)
  BY <1>5 DEF FieldBuilds
<1>7. /\ Get(P4Info("s1").tables, r.table) # {}
      /\ GetPart(P4Info("s1").tables, r.table, "hdr.ipv4.srcAddr") = {f}
      /\ GetPart(P4Info("s1").tables, r.table, "hdr.ipv4.dstAddr") = {g}
  BY <1>2, <1>3, <1>4 DEF Knows, tname
<1>8. \A m \in r.match :
        \E e \in GetPart(P4Info("s1").tables, r.table, m.name) : FieldBuilds(e, m.value)
  BY <1>3, <1>6, <1>7 DEF On
<1>9. RuleBuilds("s1", r)
  BY <1>3, <1>4, <1>7, <1>8 DEF RuleBuilds
<1>10. FieldMatch(f, v) \in BuildTableEntry("s1", r).key.match
  <2>1. On("hdr.ipv4.srcAddr", v).name = "hdr.ipv4.srcAddr"
          /\ On("hdr.ipv4.srcAddr", v).value = v
    BY DEF On
  <2>. QED  BY <1>3, <1>7, <2>1 DEF BuildTableEntry
<1>11. FieldMatch(f, v).field = "hdr.ipv4.srcAddr"
  BY <1>2 DEF FieldMatch
<1>. QED  BY <1>1, <1>9, <1>10, <1>11 DEF Builds, EntryOf, r

(* The writes that make table entries. *)
TableWrites == L2Writes \cup L3Writes \cup IdWrites \cup {Mark}

(* Setup's table writes are built, and what each of them matches on.       *)
LEMMA WritesMatch ==
  /\ \A w \in L2Writes : Builds(w) /\ Matches(w, "hdr.eth.dstAddr", w.mac)
  /\ \A w \in L3Writes :
       /\ Builds(w)
       /\ w.op = "lpm" => Matches(w, "hdr.ipv4.dstAddr", w.dst)
       /\ w.op = "rewrite" => Matches(w, "std_meta.egress_spec", w.port)
  /\ \A w \in IdWrites : Builds(w) /\ Matches(w, "meta.constant", 1)
<1>1. ASSUME NEW w \in L2Writes PROVE Builds(w) /\ Matches(w, "hdr.eth.dstAddr", w.mac)
  <2>0. "s1" \in Edge /\ "s4" \in Edge /\ 4 \in 0..511 /\ 5 \in 0..511 /\ 510 \in 0..511
    BY DEF Edge
  <2>1. PICK sw \in Edge, port \in 0..511 : \E mac : w = L2(sw, mac, port)
    <3>1. CASE \E h \in Hosts1 \cup Hosts2 : w = L2("s1", h, AccessPort(h))
                                          \/ w = L2("s4", h, AccessPort(h))
      <4>1. PICK h \in Hosts1 \cup Hosts2 : w = L2("s1", h, AccessPort(h))
                                          \/ w = L2("s4", h, AccessPort(h))
        BY <3>1
      <4>2. AccessPort(h) \in 0..511
        <5>1. AccessPort(h) \in 1..3
          BY AccessPorts DEF Host
        <5>. QED  BY <5>1
      <4>. QED  BY <2>0, <4>1, <4>2
    <3>2. CASE w \in {L2("s1", "cc21", 4), L2("s4", "cc23", 4), L2("s4", "cc32", 5),
                     L2("s4", "ctrl", 510)}
      BY <2>0, <3>2
    <3>. QED  BY <3>1, <3>2 DEF L2Writes
  <2>2. PICK mac : w = L2(sw, mac, port)
    BY <2>1
  <2>3. w.mac = mac
    BY <2>2 DEF L2
  <2>. QED  BY <2>2, <2>3, BuildsMac
<1>2. ASSUME NEW w \in L3Writes
      PROVE  /\ Builds(w)
             /\ w.op = "lpm" => Matches(w, "hdr.ipv4.dstAddr", w.dst)
             /\ w.op = "rewrite" => Matches(w, "std_meta.egress_spec", w.port)
  <2>0. "s2" \in Router /\ "s3" \in Router /\ 1 \in 0..511 /\ 2 \in 0..511 /\ 3 \in 0..511
    BY DEF Router
  <2>1. \/ \E sw \in Router, port \in 0..511 : \E dst, mac : w = Route(sw, dst, port, mac)
        \/ \E sw \in Router, port \in 0..511 : \E mac : w = Rewrite(sw, port, mac)
    <3>1. CASE \E h : \/ w = Route("s2", h, 1, h) \/ w = Route("s2", h, 3, h)
                     \/ w = Route("s3", h, 2, h)
      BY <2>0, <3>1
    <3>2. CASE w = Route("s3", "subnet1", 1, "cc22")
      BY <2>0, <3>2
    <3>3. CASE \E sw \in {"s2", "s3"}, port \in {1, 2, 3} : \E mac : w = Rewrite(sw, port, mac)
      BY <2>0, <3>3
    <3>. QED  BY <3>1, <3>2, <3>3 DEF L3Writes
  <2>2. CASE \E sw \in Router, port \in 0..511 : \E dst, mac : w = Route(sw, dst, port, mac)
    <3>0. PICK sw \in Router, port \in 0..511 : \E dst, mac : w = Route(sw, dst, port, mac)
      BY <2>2
    <3>1. PICK dst, mac : w = Route(sw, dst, port, mac)
      BY <3>0
    <3>2. w.op = "lpm" /\ w.dst = dst
      BY <3>1 DEF Route
    <3>3. Builds(w) /\ Matches(w, "hdr.ipv4.dstAddr", dst)
      BY <3>1, BuildsRoute
    <3>. QED  BY <3>2, <3>3
  <2>3. CASE \E sw \in Router, port \in 0..511 : \E mac : w = Rewrite(sw, port, mac)
    <3>0. PICK sw \in Router, port \in 0..511 : \E mac : w = Rewrite(sw, port, mac)
      BY <2>3
    <3>1. PICK mac : w = Rewrite(sw, port, mac)
      BY <3>0
    <3>2. w.op = "rewrite" /\ w.port = port
      BY <3>1 DEF Rewrite
    <3>3. Builds(w) /\ Matches(w, "std_meta.egress_spec", port)
      BY <3>1, BuildsRewrite
    <3>. QED  BY <3>2, <3>3
  <2>. QED  BY <2>1, <2>2, <2>3
<1>3. ASSUME NEW w \in IdWrites PROVE Builds(w) /\ Matches(w, "meta.constant", 1)
  <2>1. PICK sw \in Switch, id \in 0..255 : w = Id(sw, id)
    BY Switches DEF IdWrites
  <2>. QED  BY <2>1, BuildsId
<1>. QED  BY <1>1, <1>2, <1>3

(* No two of them write to one switch about the same thing.                *)
LEMMA WritesDiffer ==
  /\ \A w, v \in L2Writes : w.sw = v.sw /\ w.mac = v.mac => w = v
  /\ \A w, v \in L3Writes :
       /\ w.op = "lpm" /\ v.op = "lpm" /\ w.sw = v.sw /\ w.dst = v.dst => w = v
       /\ w.op = "rewrite" /\ v.op = "rewrite" /\ w.sw = v.sw /\ w.port = v.port => w = v
  /\ \A w, v \in IdWrites : w.sw = v.sw => w = v
<1>1. \A w, v \in L2Writes : w.sw = v.sw /\ w.mac = v.mac => w = v
  BY OtherNamesAreNoHosts DEF L2Writes, L2
<1>2. \A w, v \in L3Writes :
        w.op = "lpm" /\ v.op = "lpm" /\ w.sw = v.sw /\ w.dst = v.dst => w = v
  BY OtherNamesAreNoHosts DEF L3Writes, Route, Rewrite
<1>3. \A w, v \in L3Writes :
        w.op = "rewrite" /\ v.op = "rewrite" /\ w.sw = v.sw /\ w.port = v.port => w = v
  BY DEF L3Writes, Route, Rewrite
<1>4. \A w, v \in IdWrites : w.sw = v.sw => w = v
  BY DEF IdWrites, Id
<1>. QED  BY <1>1, <1>2, <1>3, <1>4

(* Equal keys match on the same field and on the same value.               *)
LEMMA SameMatch ==
  ASSUME NEW w, NEW v, EntryOf(w).key = EntryOf(v).key,
         NEW f, NEW g, NEW x, NEW y, Matches(w, f, x), Matches(v, g, y)
  PROVE  f = g /\ x = y
<1> DEFINE match == EntryOf(w).key.match
<1>1. match = EntryOf(v).key.match
  OBVIOUS
<1>2. match # {} /\ \A e \in match : e.field = f /\ e.value[2] = x
  BY DEF Matches
<1>3. \A e \in match : e.field = g /\ e.value[2] = y
  BY <1>1 DEF Matches
<1> HIDE DEF match
<1>. QED  BY <1>2, <1>3

(* So setup never inserts a key twice: it builds every table write, and    *)
(* those to one switch have different keys.                                *)
LEMMA KeysTellWritesApart ==
  /\ \A w \in TableWrites : Builds(w)
  /\ \A w, v \in TableWrites : w.sw = v.sw /\ EntryOf(w).key = EntryOf(v).key => w = v
<1> DEFINE IsMac(w) == w \in L2Writes /\ Matches(w, "hdr.eth.dstAddr", w.mac)
           IsRoute(w) == /\ w \in L3Writes /\ w.op = "lpm"
                         /\ Matches(w, "hdr.ipv4.dstAddr", w.dst)
           IsRewrite(w) == /\ w \in L3Writes /\ w.op = "rewrite"
                           /\ Matches(w, "std_meta.egress_spec", w.port)
           IsId(w) == w \in IdWrites /\ Matches(w, "meta.constant", 1)
           Field1(w, f) == \E x : Matches(w, f, x)
<1>1. \A w \in TableWrites : Builds(w)
  BY WritesMatch, BuildsMark DEF TableWrites
<1>2. \A w \in TableWrites : IsMac(w) \/ IsRoute(w) \/ IsRewrite(w) \/ IsId(w) \/ w = Mark
  BY WritesMatch, WriteKinds DEF TableWrites
<1>3. ASSUME NEW w \in TableWrites, NEW v \in TableWrites, w.sw = v.sw,
             EntryOf(w).key = EntryOf(v).key
      PROVE  w = v
  <2>1. \A f, g : Field1(w, f) /\ Field1(v, g) => f = g
    BY <1>3, SameMatch
  <2>2. ASSUME NEW u, NEW f, Field1(u, f), EntryOf(u).key = EntryOf(Mark).key
        PROVE  f = "hdr.ipv4.srcAddr"
    <3>1. PICK e \in EntryOf(u).key.match : e.field = "hdr.ipv4.srcAddr"
      BY <2>2, BuildsMark
    <3>. QED  BY <2>2, <3>1 DEF Matches
  <2>3. /\ \A u : IsMac(u) => Field1(u, "hdr.eth.dstAddr")
        /\ \A u : IsRoute(u) => Field1(u, "hdr.ipv4.dstAddr")
        /\ \A u : IsRewrite(u) => Field1(u, "std_meta.egress_spec")
        /\ \A u : IsId(u) => Field1(u, "meta.constant")
    OBVIOUS
  <2>4. CASE w = Mark \/ v = Mark
    <3> HIDE DEF Field1, IsMac, IsRoute, IsRewrite, IsId
    <3>. QED  BY <1>2, <1>3, <2>2, <2>3, <2>4
  <2>5. CASE IsMac(w) /\ IsMac(v)
    <3>1. w.mac = v.mac
      BY <1>3, <2>5, SameMatch
    <3>. QED  BY <1>3, <2>5, <3>1, WritesDiffer
  <2>6. CASE IsRoute(w) /\ IsRoute(v)
    <3>1. w.dst = v.dst
      BY <1>3, <2>6, SameMatch
    <3>. QED  BY <1>3, <2>6, <3>1, WritesDiffer
  <2>7. CASE IsRewrite(w) /\ IsRewrite(v)
    <3>1. w.port = v.port
      BY <1>3, <2>7, SameMatch
    <3>. QED  BY <1>3, <2>7, <3>1, WritesDiffer
  <2>8. CASE IsId(w) /\ IsId(v)
    BY <1>3, <2>8, WritesDiffer
  <2> HIDE DEF Field1, IsMac, IsRoute, IsRewrite, IsId
  <2>. QED  BY <1>2, <2>1, <2>3, <2>4, <2>5, <2>6, <2>7, <2>8
<1>. QED  BY <1>1, <1>3

(* Nor does it create a group or a session twice.                          *)
LEMMA GroupsDiffer ==
  \A w, v \in ReplicationWrites :
    w.sw = v.sw /\ BuildPreEntry(w).key = BuildPreEntry(v).key => w = v
<1> DEFINE groups == {Group("s1", 1..4), Group("s4", 1..5)}
           sessions == {Session("s1", 100), Session("s4", 100), Session("s4", 200)}
<1>1. ReplicationWrites = groups \cup sessions
  BY DEF ReplicationWrites
<1>2. \A w \in groups : BuildPreEntry(w).key = <<"group", 1>>
  BY DEF Group, BuildPreEntry
<1>3. \A w \in sessions : BuildPreEntry(w).key = <<"session", w.session>>
  BY DEF Session, BuildPreEntry
<1>4. \A w, v \in groups : w.sw = v.sw => w = v
  <2>1. Group("s1", 1..4).sw = "s1" /\ Group("s4", 1..5).sw = "s4"
    BY DEF Group
  <2>. QED  BY <2>1
<1>5. \A w, v \in sessions : w.sw = v.sw /\ w.session = v.session => w = v
  BY DEF Session
<1> HIDE DEF groups, sessions
<1>. QED  BY <1>1, <1>2, <1>3, <1>4, <1>5

-----------------------------------------------------------------------------
(***************************************************************************)
(* The invariant about tables.                                             *)
(***************************************************************************)

HasPipeline(sw, k) == \E i \in 1..k : Setup[i] = Push(sw)

(* The entries of the first k writes to sw. *)
Done(sw, k) ==
  {EntryOf(Setup[i]) : i \in {j \in 1..k : Setup[j].sw = sw /\ Setup[j].op \in TableOps}}

RunFits(table) ==
  \A sw \in Switch :
    /\ Keys(table[sw]) = Keys(SetupEntries[sw])
    /\ {e \in SetupEntries[sw] : sw # "s2" \/ e.key \notin RouteKeys} \subseteq table[sw]

RoutesFit(path, j, table) ==
  \A i \in DOMAIN Subnet2 :
    EntryOf(RouteWrite(IF i < j THEN Other(path) ELSE path, Subnet2[i])) \in table["s2"]

(* The switches are as a process in this phase, with k writes done, takes  *)
(* them to be: where its pipeline is, its entries so far are; its groups   *)
(* and sessions are there; and when it runs, everything is.                *)
Fits(p, k, path, j, bad, table, engine) ==
  /\ p = "setup" => \A sw \in Switch : HasPipeline(sw, k) => table[sw] = Done(sw, k)
  /\ p \in {"setup", "running"} =>
       \A i \in 1..k :
         Setup[i].op \in PreOps => BuildPreEntry(Setup[i]) \in engine[Setup[i].sw]
  /\ p = "running" => RunFits(table)
  /\ p = "running" /\ ~bad => RoutesFit(path, j, table)

FitInv ==
  \A c \in Process :
    Fits(phase[c], step[c], current_path[c], job[c], failed[c], entries, pre)

(* Whoever has done a write holds a stream to s1, where setup begins; a    *)
(* process in setup has not begun to reroute, and one that runs has ended  *)
(* its setup.                                                              *)
Advances(p, k, path, j, bad, streams) ==
  /\ p \in {"none", "gone"} => k = 0 /\ j = 0 /\ ~bad
  /\ p = "setup" => k < Len(Setup) /\ path = "short" /\ j = 0 /\ ~bad
  /\ p = "running" => k = Len(Setup)
  /\ k > 0 => "s1" \in streams

Progress ==
  \A c \in Process :
    Advances(phase[c], step[c], current_path[c], job[c], failed[c], opened[c])

(* Beside a process that controls switches and has written to one, no      *)
(* other, not even a dying one, has written to any.                        *)
Alone ==
  \A c, d \in Process : Controls(c) /\ step[c] > 0 /\ d # c => step[d] = 0

Memory ==
  /\ failed \in [Process -> BOOLEAN]
  /\ entries = [sw \in Switch |-> entries[sw]]
  /\ pre = [sw \in Switch |-> pre[sw]]
  /\ \A sw \in Switch : pre[sw] \subseteq SetupPre[sw]

TablesInv == TypeOK /\ StreamInv /\ Memory /\ Progress /\ Alone /\ FitInv

-----------------------------------------------------------------------------

(* What a write of setup adds to those before it.                          *)
LEMMA OneMoreWrite ==
  ASSUME NEW k \in 1..Len(Setup), NEW sw \in Switch
  PROVE  /\ Setup[k].sw = sw /\ Setup[k].op \in TableOps =>
              Done(sw, k) = Done(sw, k - 1) \cup {EntryOf(Setup[k])}
         /\ ~(Setup[k].sw = sw /\ Setup[k].op \in TableOps) => Done(sw, k) = Done(sw, k - 1)
         /\ k <= 4 => Done(sw, k) = {}
         /\ k > 4 => HasPipeline(sw, k - 1)
         /\ HasPipeline(sw, k) /\ ~HasPipeline(sw, k - 1) => Setup[k] = Push(sw)
<1>1. k \in Nat /\ k >= 1 /\ Len(Setup) \in Nat
  BY SetupOrder
<1>2. \A i \in 1..k : i \in 1..(k - 1) \/ i = k
  BY <1>1
<1>3. \A i \in 1..(k - 1) : i \in 1..k
  BY <1>1
<1>4. k \in 1..k
  BY <1>1
<1>5. Setup[k].sw = sw /\ Setup[k].op \in TableOps =>
        Done(sw, k) = Done(sw, k - 1) \cup {EntryOf(Setup[k])}
  BY <1>2, <1>3, <1>4 DEF Done
<1>6. ~(Setup[k].sw = sw /\ Setup[k].op \in TableOps) => Done(sw, k) = Done(sw, k - 1)
  BY <1>2, <1>3 DEF Done
<1>7. ASSUME k <= 4 PROVE Done(sw, k) = {}
  <2>1. \A i \in 1..k : i \in 1..Len(Setup) /\ i <= 4
    BY <1>1, <1>7
  <2>2. \A i \in 1..k : Setup[i].op = "pipeline"
    BY <2>1, SetupOrder
  <2>. QED  BY <2>2 DEF Done, TableOps
<1>8. ASSUME k > 4 PROVE HasPipeline(sw, k - 1)
  <2>1. PICK i \in 1..4 : Setup[i] = Push(sw)
    BY SetupOrder
  <2>2. i \in 1..(k - 1)
    BY <1>1, <1>8
  <2>. QED  BY <2>1, <2>2 DEF HasPipeline
<1>9. HasPipeline(sw, k) /\ ~HasPipeline(sw, k - 1) => Setup[k] = Push(sw)
  BY <1>2 DEF HasPipeline
<1>. QED  BY <1>5, <1>6, <1>7, <1>8, <1>9

(* The write a process that is setting up makes next.                      *)
LEMMA NextWrite ==
  ASSUME TablesInv, NEW c \in Process, phase[c] = "setup"
  PROVE  /\ step[c] \in Nat /\ step[c] + 1 \in 1..Len(Setup)
         /\ TheWrite(c) = Setup[step[c] + 1]
         /\ TheWrite(c).sw \in Switch
         /\ step[c] + 1 <= 4 => TheWrite(c) = Push(TheWrite(c).sw)
         /\ TheWrite(c).op = "pipeline" <=> step[c] + 1 <= 4
         /\ TheWrite(c).op \in {"pipeline"} \cup TableOps \cup PreOps
         /\ step[c] = 0 => TheWrite(c) = Push("s1")
<1>1. step[c] \in 0..Len(Setup) /\ step[c] < Len(Setup) /\ Len(Setup) \in Nat
  BY SetupOrder DEF TablesInv, TypeOK, Progress, Advances
<1>2. step[c] \in Nat /\ step[c] + 1 \in 1..Len(Setup)
  BY <1>1
<1>3. step[c] + 1 <= 4 \/ step[c] + 1 > 4
  BY <1>2
<1>4. step[c] = 0 => TheWrite(c) = Push("s1")
  BY SetupOrder DEF TheWrite
<1>. QED  BY <1>2, <1>3, <1>4, SetupOrder DEF TheWrite

(* s1 gives only one of them a stream, and nobody gets past s1 without.    *)
LEMMA OnlyWriter ==
  ASSUME TablesInv, NEW c \in Process, NEW d \in Process, d # c, Controls(c), step[c] > 0
  PROVE  ~Serving(d) /\ (phase[d] = "setup" => Connecting(d))
<1>1. step[d] = 0
  BY DEF TablesInv, Alone
<1>2. ~Serving(d)
  BY <1>1, SetupOrder DEF Serving
<1>3. ASSUME phase[d] = "setup", ~Connecting(d) PROVE FALSE
  <2>1. TheWrite(d) = Push("s1")
    BY <1>1, <1>3, NextWrite
  <2>2. "s1" \in opened[d]
    BY <1>3, <2>1 DEF Connecting, Push
  <2>3. "s1" \in opened[c]
    BY DEF TablesInv, Progress, Advances
  <2>4. "s1" \in Switch
    BY Switches
  <2>5. session["s1"] = c /\ session["s1"] = d
    BY <1>3, <2>2, <2>3, <2>4 DEF TablesInv, StreamInv, StreamsAreHeld, Controls
  <2>. QED  BY <2>5
<1>. QED  BY <1>2, <1>3

(* What a call of setup that succeeds does to the tables, the replication  *)
(* engines and the set of streams.                                         *)
LEMMA EffectOnTables ==
  ASSUME TablesInv, NEW c \in Process, phase[c] = "setup", Succeeds(c), Effect(c)
  PROVE  /\ entries' = [sw \in Switch |-> entries'[sw]]
         /\ pre' = [sw \in Switch |-> pre'[sw]]
         /\ opened' \in [Process -> SUBSET Switch]
         /\ \A d \in Process : opened[d] \subseteq opened'[d]
         /\ \A sw \in Switch : /\ UniqueKeys(entries'[sw]) /\ UniqueKeys(pre'[sw])
                               /\ pre'[sw] \subseteq SetupPre[sw]
         /\ Connecting(c) => UNCHANGED <<entries, pre>>
         /\ ~Connecting(c) => Fits("setup", step[c] + 1, "short", 0, FALSE, entries', pre')
<1> DEFINE w == TheWrite(c)
           k == step[c] + 1
<1>1. /\ k \in 1..Len(Setup) /\ w = Setup[k] /\ w.sw \in Switch
      /\ k <= 4 => w = Push(w.sw)
      /\ w.op = "pipeline" <=> k <= 4
      /\ w.op \in {"pipeline"} \cup TableOps \cup PreOps
      /\ k \in Nat /\ step[c] \in Nat /\ k - 1 = step[c]
  BY NextWrite
<1>2. /\ \A sw \in Switch : HasPipeline(sw, k - 1) => entries[sw] = Done(sw, k - 1)
      /\ \A i \in 1..(k - 1) :
           Setup[i].op \in PreOps => BuildPreEntry(Setup[i]) \in pre[Setup[i].sw]
  BY <1>1 DEF TablesInv, FitInv, Fits
<1>3. /\ entries = [sw \in Switch |-> entries[sw]] /\ pre = [sw \in Switch |-> pre[sw]]
      /\ opened \in [Process -> SUBSET Switch]
      /\ \A sw \in Switch : /\ UniqueKeys(entries[sw]) /\ UniqueKeys(pre[sw])
                            /\ pre[sw] \subseteq SetupPre[sw]
  BY DEF TablesInv, TypeOK, Memory, UniqueKeys
<1>4. \A i \in 1..k : i \in 1..(k - 1) \/ i = k
  BY <1>1
<1>5. CASE Connecting(c)
  <2>1. opened' = [opened EXCEPT ![c] = opened[c] \cup {w.sw}] /\ UNCHANGED <<entries, pre>>
    BY <1>5 DEF Effect
  <2>. QED  BY <1>1, <1>3, <1>5, <2>1
<1>6. CASE ~Connecting(c) /\ w.op = "pipeline"
  <2>1. /\ opened' = opened /\ entries' = [entries EXCEPT ![w.sw] = {}]
        /\ pre' = pre \/ pre' = [pre EXCEPT ![w.sw] = {}]
    BY <1>6 DEF Effect, Pushed
  <2> HIDE DEF w, k
  <2>2. \A sw \in Switch : entries'[sw] = IF sw = w.sw THEN {} ELSE entries[sw]
    BY <1>1, <1>3, <2>1
  <2>3. \A sw \in Switch : pre'[sw] = pre[sw] \/ pre'[sw] = {}
    BY <1>1, <1>3, <2>1
  <2>4. UniqueKeys({})
    BY DEF UniqueKeys
  <2>5. ASSUME NEW sw \in Switch, HasPipeline(sw, k) PROVE entries'[sw] = Done(sw, k)
    <3>1. k <= 4 /\ w = Push(w.sw)
      BY <1>1, <1>6
    <3>2. Done(sw, k) = {}
      BY <1>1, <3>1, OneMoreWrite
    <3>3. CASE sw = w.sw
      BY <2>2, <3>2, <3>3
    <3>4. CASE sw # w.sw
      <4>1. w # Push(sw)
        BY <3>4 DEF Push
      <4>2. HasPipeline(sw, k - 1)
        BY <1>1, <2>5, <4>1, OneMoreWrite
      <4>3. w.op \notin TableOps
        BY <1>6 DEF TableOps
      <4>4. entries[sw] = Done(sw, k)
        BY <1>1, <1>2, <4>2, <4>3, OneMoreWrite
      <4>. QED  BY <2>2, <3>4, <4>4
    <3>. QED  BY <3>3, <3>4
  <2>6. \A i \in 1..k : Setup[i].op \notin PreOps
    <3>1. \A i \in 1..k : i \in 1..Len(Setup) /\ i <= 4
      BY <1>1, <1>6, SetupOrder
    <3>2. \A i \in 1..k : Setup[i].op = "pipeline"
      BY <3>1, SetupOrder
    <3>. QED  BY <3>2 DEF PreOps
  <2>7. entries' = [sw \in Switch |-> entries'[sw]] /\ pre' = [sw \in Switch |-> pre'[sw]]
    BY <1>3, <2>1
  <2>8. Fits("setup", k, "short", 0, FALSE, entries', pre')
    BY <2>5, <2>6 DEF Fits
  <2>. QED  BY <1>3, <1>6, <2>1, <2>2, <2>3, <2>4, <2>7, <2>8 DEF k
<1>7. CASE ~Connecting(c) /\ w.op \in PreOps
  <2>1. /\ opened' = opened /\ entries' = entries
        /\ pre' = [pre EXCEPT ![w.sw] = pre[w.sw] \cup {BuildPreEntry(w)}]
        /\ ~HasKey(pre[w.sw], BuildPreEntry(w).key)
    BY <1>7 DEF Effect, Succeeds, PreOps
  <2> HIDE DEF w, k
  <2>2. \A sw \in Switch :
          pre'[sw] = IF sw = w.sw THEN pre[sw] \cup {BuildPreEntry(w)} ELSE pre[sw]
    BY <1>1, <1>3, <2>1
  <2>3. UniqueKeys(pre'[w.sw])
    BY <1>1, <1>3, <2>1, <2>2 DEF UniqueKeys, HasKey
  <2>4. BuildPreEntry(w) \in SetupPre[w.sw]
    <3>1. w \in ToSet(Setup)
      BY <1>1, SetupOrder DEF ToSet
    <3>2. w \in WritesTo(w.sw, {"mcast", "clone"})
      BY <1>7, <3>1 DEF WritesTo, PreOps
    <3>. QED  BY <1>1, <3>2 DEF SetupPre
  <2>5. ASSUME NEW sw \in Switch, HasPipeline(sw, k) PROVE entries'[sw] = Done(sw, k)
    <3>1. w.op # "pipeline" /\ w.op \notin TableOps
      BY <1>7 DEF PreOps, TableOps
    <3>2. HasPipeline(sw, k - 1)
      <4>1. Setup[k] # Push(sw)
        BY <1>1, <3>1 DEF Push
      <4>. QED  BY <1>1, <2>5, <4>1, OneMoreWrite
    <3>. QED  BY <1>1, <1>2, <2>1, <3>1, <3>2, OneMoreWrite
  <2>6. ASSUME NEW i \in 1..k, Setup[i].op \in PreOps
        PROVE  BuildPreEntry(Setup[i]) \in pre'[Setup[i].sw]
    <3>1. Setup[i].sw \in Switch
      BY <1>1, SetupOrder
    <3>. QED  BY <1>1, <1>2, <1>4, <2>2, <2>6, <3>1
  <2>7. entries' = [sw \in Switch |-> entries'[sw]] /\ pre' = [sw \in Switch |-> pre'[sw]]
    BY <1>3, <2>1
  <2>8. Fits("setup", k, "short", 0, FALSE, entries', pre')
    BY <2>5, <2>6 DEF Fits
  <2>9. ASSUME NEW sw \in Switch
        PROVE  UniqueKeys(pre'[sw]) /\ pre'[sw] \subseteq SetupPre[sw]
    BY <1>3, <2>2, <2>3, <2>4
  <2>. QED  BY <1>3, <1>7, <2>1, <2>7, <2>8, <2>9 DEF k
<1>8. CASE ~Connecting(c) /\ w.op \in TableOps
  <2>0. w.op \notin PreOps /\ w.op \notin {"mcast", "clone"} /\ w.op # "pipeline"
    BY <1>8 DEF TableOps, PreOps
  <2>1. /\ opened' = opened /\ pre' = pre
        /\ entries' = [entries EXCEPT ![w.sw] = Written(entries[w.sw], EntryOf(w))]
    BY <1>8, <2>0 DEF Effect
  <2>2. ~HasKey(entries[w.sw], EntryOf(w).key)
    BY <1>8, <2>0 DEF Succeeds
  <2> HIDE DEF w, k
  <2>3. \A sw \in Switch :
          entries'[sw] = IF sw = w.sw THEN entries[sw] \cup {EntryOf(w)} ELSE entries[sw]
    BY <1>1, <1>3, <2>1, <2>2, WriteOne
  <2>4. UniqueKeys(entries'[w.sw])
    BY <1>1, <1>3, <2>1, WriteOne
  <2>5. ASSUME NEW sw \in Switch, HasPipeline(sw, k) PROVE entries'[sw] = Done(sw, k)
    <3>1. HasPipeline(sw, k - 1)
      <4>1. Setup[k] # Push(sw)
        BY <1>1, <2>0 DEF Push
      <4>. QED  BY <1>1, <2>5, <4>1, OneMoreWrite
    <3>2. entries[sw] = Done(sw, k - 1)
      BY <1>2, <3>1
    <3>. QED  BY <1>1, <1>8, <2>3, <3>2, OneMoreWrite
  <2>6. \A i \in 1..k :
          Setup[i].op \in PreOps => BuildPreEntry(Setup[i]) \in pre'[Setup[i].sw]
    BY <1>1, <1>2, <1>4, <2>0, <2>1
  <2>7. entries' = [sw \in Switch |-> entries'[sw]] /\ pre' = [sw \in Switch |-> pre'[sw]]
    BY <1>3, <2>1
  <2>8. Fits("setup", k, "short", 0, FALSE, entries', pre')
    BY <2>5, <2>6 DEF Fits
  <2>9. ASSUME NEW sw \in Switch PROVE UniqueKeys(entries'[sw])
    BY <1>3, <2>3, <2>4
  <2>. QED  BY <1>3, <1>8, <2>1, <2>7, <2>8, <2>9 DEF k
<1>. QED  BY <1>1, <1>5, <1>6, <1>7, <1>8

-----------------------------------------------------------------------------
(***************************************************************************)
(* The steps, each with what it changes of one process and of the          *)
(* switches; the other processes are as they were.                         *)
(***************************************************************************)

SwitchesOK ==
  /\ entries = [sw \in Switch |-> entries[sw]] /\ pre = [sw \in Switch |-> pre[sw]]
  /\ \A sw \in Switch : /\ UniqueKeys(entries[sw]) /\ UniqueKeys(pre[sw])
                        /\ pre[sw] \subseteq SetupPre[sw]

Processes ==
  /\ step \in [Process -> 0..Len(Setup)] /\ opened \in [Process -> SUBSET Switch]
  /\ \A c \in Process : closed[c] \subseteq opened[c]
  /\ current_path \in [Process -> Paths] /\ job \in [Process -> 0..(Len(Subnet2) + 1)]
  /\ failed \in [Process -> BOOLEAN] /\ preSurvives \in BOOLEAN /\ calm \in BOOLEAN

(* TypeOK and Memory, put together otherwise. *)
LEMMA Parts ==
  /\ StreamInv => ((TypeOK /\ Memory) <=> (SwitchesOK /\ Processes))
  /\ StreamInv' => ((TypeOK /\ Memory)' <=> (SwitchesOK /\ Processes)')
  BY DEF StreamInv, StreamTypes, Phases, TypeOK, Memory, SwitchesOK, Processes, UniqueKeys

(* Nothing of process d changes. *)
Same(d) ==
  /\ phase'[d] = phase[d] /\ step'[d] = step[d] /\ opened'[d] = opened[d]
  /\ current_path'[d] = current_path[d] /\ job'[d] = job[d] /\ failed'[d] = failed[d]

(* What c may do at the switches does not concern the other processes.     *)
LEMMA Elsewhere ==
  ASSUME TablesInv, NEW c \in Process, NEW d \in Process, d # c, Same(d),
         \/ UNCHANGED <<entries, pre>>
         \/ Serving(c)
         \/ phase[c] = "setup" /\ ~Connecting(c)
  PROVE  /\ Fits(phase[d], step[d], current_path[d], job[d], failed[d], entries, pre)'
         /\ Advances(phase[d], step[d], current_path[d], job[d], failed[d], opened[d])'
<1>1. Advances(phase[d], step[d], current_path[d], job[d], failed[d], opened[d])'
  BY DEF Same, TablesInv, Progress
<1>2. CASE UNCHANGED <<entries, pre>>
  BY <1>1, <1>2 DEF Same, TablesInv, FitInv
<1>3. CASE ~UNCHANGED <<entries, pre>>
  <2>1. ~(Controls(d) /\ step[d] > 0)
    BY <1>3, OnlyWriter
  <2>2. step[d] \in Nat /\ Len(Setup) \in Nat /\ Len(Setup) > 0
    BY SetupOrder DEF TablesInv, TypeOK
  <2>3. phase[d] # "running"
    BY <2>1, <2>2 DEF TablesInv, Progress, Advances, Controls
  <2>4. phase[d] = "setup" => step[d] = 0
    BY <2>1, <2>2 DEF Controls
  <2>5. \A sw : ~HasPipeline(sw, 0)
    BY DEF HasPipeline
  <2>. QED  BY <1>1, <2>3, <2>4, <2>5 DEF Same, Fits
<1>. QED  BY <1>2, <1>3

(* Only a process that makes its first write can end Alone.                *)
LEMMA AloneKept ==
  ASSUME TablesInv, \A d \in Process : step'[d] = step[d] \/ step'[d] = 0,
         \A d \in Process : Controls(d)' /\ step'[d] > 0 => Controls(d) /\ step[d] > 0
  PROVE  Alone'
  BY DEF TablesInv, Alone

(* A process that starts has not written and remembers nothing.            *)
LEMMA LaunchTables ==
  ASSUME TablesInv, StreamInv', NEW c \in Process, Launch(c)
  PROVE  TablesInv'
<1>1. /\ phase[c] = "none" /\ phase' = [phase EXCEPT ![c] = "setup"]
      /\ current_path' = [current_path EXCEPT ![c] = "short"]
      /\ UNCHANGED <<step, opened, closed, job, failed, entries, pre, preSurvives, calm>>
  BY DEF Launch, FirstPath, switch
<1>2. SwitchesOK /\ Processes
  BY Parts DEF TablesInv
<1>3. /\ phase'[c] = "setup" /\ current_path'[c] = "short"
      /\ \A d \in Process : d # c => Same(d)
  BY <1>1, <1>2 DEF TablesInv, StreamInv, StreamTypes, Processes, Same
<1>4. step[c] = 0 /\ job[c] = 0 /\ ~failed[c]
  BY <1>1 DEF TablesInv, Progress, Advances
<1>5. SwitchesOK' /\ Processes'
  BY <1>1, <1>2 DEF SwitchesOK, Processes, Paths
<1>6. Alone'
  <2>1. \A d \in Process : Controls(d)' /\ step'[d] > 0 => Controls(d) /\ step[d] > 0
    BY <1>1, <1>3, <1>4 DEF Same, Controls
  <2>. QED  BY <1>1, <2>1, AloneKept
<1>7. /\ Advances(phase[c], step[c], current_path[c], job[c], failed[c], opened[c])'
      /\ Fits(phase[c], step[c], current_path[c], job[c], failed[c], entries, pre)'
  <2>1. 0 < Len(Setup)
    BY SetupOrder
  <2>. QED  BY <1>1, <1>3, <1>4, <2>1 DEF Advances, Fits, HasPipeline
<1>8. Progress' /\ FitInv'
  BY <1>1, <1>3, <1>7, Elsewhere DEF Progress, FitInv
<1>. QED  BY <1>5, <1>6, <1>8, Parts DEF TablesInv

(* A process stops controlling its switches: the one call it was making,   *)
(* if any, was carried out or not.                                         *)
LEMMA StopTables ==
  ASSUME TablesInv, StreamInv', NEW c \in Process, phase[c] \in {"setup", "running"}, Stop(c),
         SwitchesOK', opened' \in [Process -> SUBSET Switch],
         \A d \in Process : opened[d] \subseteq opened'[d],
         \A d \in Process : d # c => opened'[d] = opened[d],
         UNCHANGED <<entries, pre>> \/ (phase[c] = "setup" /\ ~Connecting(c))
  PROVE  TablesInv'
<1>1. /\ phase' = [phase EXCEPT ![c] = "closing"]
      /\ UNCHANGED <<step, closed, current_path, job, failed, preSurvives, calm>>
  BY DEF Stop
<1>2. SwitchesOK /\ Processes
  BY Parts DEF TablesInv
<1>3. /\ phase'[c] = "closing" /\ \A d \in Process : d # c => Same(d)
  BY <1>1 DEF TablesInv, StreamInv, StreamTypes, Same
<1>4. SwitchesOK' /\ Processes'
  BY <1>1, <1>2 DEF SwitchesOK, Processes
<1>5. Alone'
  <2>1. \A d \in Process : Controls(d)' /\ step'[d] > 0 => Controls(d) /\ step[d] > 0
    BY <1>1, <1>3 DEF Same, Controls
  <2>. QED  BY <1>1, <2>1, AloneKept
<1>6. /\ Advances(phase[c], step[c], current_path[c], job[c], failed[c], opened[c])'
      /\ Fits(phase[c], step[c], current_path[c], job[c], failed[c], entries, pre)'
  BY <1>1, <1>3 DEF TablesInv, Progress, Advances, Fits
<1>7. Progress' /\ FitInv'
  BY <1>1, <1>3, <1>6, Elsewhere DEF Progress, FitInv
<1>. QED  BY <1>4, <1>5, <1>7, Parts DEF TablesInv

(* A process is gone, and so is what it remembered.                        *)
LEMMA LeaveTables ==
  ASSUME TablesInv, StreamInv', NEW c \in Process, Leave(c)
  PROVE  TablesInv'
<1>1. /\ phase' = [phase EXCEPT ![c] = "gone"] /\ step' = [step EXCEPT ![c] = 0]
      /\ opened' = [opened EXCEPT ![c] = {}] /\ closed' = [closed EXCEPT ![c] = {}]
      /\ job' = [job EXCEPT ![c] = 0] /\ failed' = [failed EXCEPT ![c] = FALSE]
      /\ UNCHANGED <<current_path, entries, pre, preSurvives, calm>>
  BY DEF Leave, switch
<1>2. SwitchesOK /\ Processes
  BY Parts DEF TablesInv
<1>3. /\ phase'[c] = "gone" /\ step'[c] = 0 /\ job'[c] = 0 /\ ~failed'[c]
      /\ \A d \in Process : d # c => Same(d)
  BY <1>1, <1>2 DEF TablesInv, StreamInv, StreamTypes, Processes, Same
<1>4. SwitchesOK'
  BY <1>1, <1>2 DEF SwitchesOK
<1>5. Processes'
  <2>1. closed = [d \in Process |-> closed[d]]
    BY DEF TablesInv, StreamInv, StreamTypes
  <2>2. \A d \in Process : closed'[d] \subseteq opened'[d]
    BY <1>1, <1>2, <2>1 DEF Processes
  <2>3. 0 \in 0..Len(Setup) /\ 0 \in 0..(Len(Subnet2) + 1)
    BY SetupOrder, HostSeqs
  <2>. QED  BY <1>1, <1>2, <2>2, <2>3 DEF Processes
<1>6. Alone'
  <2>1. \A d \in Process : step'[d] = step[d] \/ step'[d] = 0
    BY <1>3 DEF Same
  <2>2. \A d \in Process : Controls(d)' /\ step'[d] > 0 => Controls(d) /\ step[d] > 0
    BY <1>3 DEF Same, Controls
  <2>. QED  BY <2>1, <2>2, AloneKept
<1>7. /\ Advances(phase[c], step[c], current_path[c], job[c], failed[c], opened[c])'
      /\ Fits(phase[c], step[c], current_path[c], job[c], failed[c], entries, pre)'
  BY <1>3 DEF Advances, Fits
<1>8. Progress' /\ FitInv'
  BY <1>1, <1>3, <1>7, Elsewhere DEF Progress, FitInv
<1>. QED  BY <1>4, <1>5, <1>6, <1>8, Parts DEF TablesInv

(* Nothing of tables and processes changes but streams that are closed.    *)
LEMMA QuietTables ==
  ASSUME TablesInv, StreamInv', Processes', UNCHANGED <<entries, pre>>,
         \A c \in Process : Same(c)
  PROVE  TablesInv'
<1>1. SwitchesOK /\ Processes
  BY Parts DEF TablesInv
<1>2. SwitchesOK'
  BY <1>1 DEF SwitchesOK
<1>3. Alone'
  <2>1. \A d \in Process : Controls(d)' /\ step'[d] > 0 => Controls(d) /\ step[d] > 0
    BY DEF Same, Controls
  <2>. QED  BY <2>1, AloneKept DEF Same
<1>4. Progress' /\ FitInv'
  BY DEF TablesInv, Progress, FitInv, Same
<1>. QED  BY <1>2, <1>3, <1>4, Parts DEF TablesInv

(* When setup_plugin is through, the tables are as a running process takes *)
(* them to be: all entries are there, those of the short path among them.  *)
LEMMA SetupDone ==
  ASSUME NEW table, NEW engine, Fits("setup", Len(Setup), "short", 0, FALSE, table, engine)
  PROVE  Fits("running", Len(Setup), "short", 0, FALSE, table, engine)
<1>1. ASSUME NEW sw \in Switch PROVE table[sw] = SetupEntries[sw]
  <2>1. PICK i \in 1..4 : Setup[i] = Push(sw)
    BY SetupOrder
  <2>2. i \in 1..Len(Setup)
    BY SetupOrder
  <2>3. table[sw] = Done(sw, Len(Setup))
    BY <2>1, <2>2 DEF Fits, HasPipeline
  <2>4. WritesTo(sw, TableOps) =
          {Setup[n] : n \in {j \in 1..Len(Setup) : Setup[j].sw = sw /\ Setup[j].op \in TableOps}}
    BY SetupOrder DEF WritesTo, ToSet
  <2>5. SetupEntries[sw] = {EntryOf(w) : w \in WritesTo(sw, TableOps)}
    BY DEF SetupEntries, TableOps
  <2>. QED  BY <2>3, <2>4, <2>5 DEF Done
<1>2. RunFits(table)
  BY <1>1 DEF RunFits
<1>3. RoutesFit("short", 0, table)
  <2> SUFFICES ASSUME NEW i \in DOMAIN Subnet2
               PROVE  EntryOf(RouteWrite("short", Subnet2[i])) \in table["s2"]
    BY HostSeqs DEF RoutesFit
  <2>1. Occurs(Route("s2", Subnet2[i], 3, Subnet2[i]), Setup)
    BY HostSeqs, SetupParts DEF L3Writes
  <2>2. RouteWrite("short", Subnet2[i]) = Route("s2", Subnet2[i], 3, Subnet2[i])
    BY DEF RouteWrite
  <2>3. RouteWrite("short", Subnet2[i]).sw = "s2" /\ RouteWrite("short", Subnet2[i]).op = "lpm"
    BY RouteShape DEF Paths
  <2>4. RouteWrite("short", Subnet2[i]) \in WritesTo("s2", TableOps)
    BY <2>1, <2>2, <2>3, SetupOrder DEF Occurs, WritesTo, ToSet, TableOps
  <2>5. EntryOf(RouteWrite("short", Subnet2[i])) \in SetupEntries["s2"]
    BY <2>4, Switches DEF SetupEntries, TableOps
  <2>. QED  BY <1>1, <2>5, Switches
<1>. QED  BY <1>2, <1>3 DEF Fits

(* A call of setup_plugin returns: the process has one more write done, or *)
(* one more stream.                                                        *)
LEMMA ReturnTables ==
  ASSUME TablesInv, StreamInv', NEW c \in Process, CallReturns(c)
  PROVE  TablesInv'
<1> DEFINE k == IF Connecting(c) THEN step[c] ELSE step[c] + 1
           p == IF k = Len(Setup) THEN "running" ELSE "setup"
<1>1. /\ phase[c] = "setup" /\ Succeeds(c) /\ Undisturbed(c) /\ Effect(c)
      /\ step' = [step EXCEPT ![c] = k]
      /\ UNCHANGED <<closed, current_path, job, failed, preSurvives, calm>>
  BY DEF CallReturns
<1>2. SwitchesOK /\ Processes
  BY Parts DEF TablesInv
<1>3. step[c] \in Nat /\ step[c] + 1 \in 1..Len(Setup) /\ Len(Setup) \in Nat
  BY <1>1, NextWrite, SetupOrder
<1>4. k \in 0..Len(Setup) /\ (Connecting(c) => k # Len(Setup))
  BY <1>3
<1>5. /\ step'[c] = k /\ phase' = [phase EXCEPT ![c] = p]
      /\ \A d \in Process : d # c => step'[d] = step[d]
  BY <1>1, <1>2 DEF CallReturns, Processes
<1>6. /\ opened' \in [Process -> SUBSET Switch]
      /\ \A d \in Process : opened[d] \subseteq opened'[d] /\ (d # c => opened'[d] = opened[d])
      /\ Connecting(c) => UNCHANGED <<entries, pre>>
      /\ ~Connecting(c) => Fits("setup", k, "short", 0, FALSE, entries', pre')
      /\ SwitchesOK'
  BY <1>1, EffectOnTables, EffectOnStreams DEF TablesInv, SwitchesOK
<1>7. step[c] = 0 /\ ~Connecting(c) => "s1" \in opened[c]
  BY <1>1, NextWrite DEF Connecting, Push
<1>8. \A d \in Process : step[d] \in Nat
  BY <1>2, <1>3 DEF Processes
<1> HIDE DEF k
<1>9. phase'[c] = p /\ \A d \in Process : d # c => Same(d)
  BY <1>1, <1>5, <1>6 DEF TablesInv, StreamInv, StreamTypes, Same
<1>10. Processes'
  BY <1>1, <1>2, <1>4, <1>6 DEF Processes
<1>11. /\ current_path[c] = "short" /\ job[c] = 0 /\ failed[c] = FALSE
       /\ current_path'[c] = "short" /\ job'[c] = 0 /\ failed'[c] = FALSE
  BY <1>1, <1>2 DEF TablesInv, Progress, Advances, Processes
<1>12. Advances(phase[c], step[c], current_path[c], job[c], failed[c], opened[c])'
  <2>1. k > 0 => "s1" \in opened'[c]
    BY <1>3, <1>6, <1>7 DEF k, TablesInv, Progress, Advances
  <2>. QED  BY <1>4, <1>5, <1>9, <1>11, <2>1, <1>3 DEF Advances
<1>13. Fits(phase[c], step[c], current_path[c], job[c], failed[c], entries, pre)'
  <2>1. CASE Connecting(c)
    <3>1. phase'[c] = "setup" /\ step'[c] = step[c]
      BY <1>4, <1>5, <1>9, <2>1 DEF k
    <3>2. Fits("setup", step[c], "short", 0, FALSE, entries, pre)
      BY <1>1, <1>11 DEF TablesInv, FitInv
    <3>. QED  BY <1>6, <1>11, <2>1, <3>1, <3>2
  <2>2. CASE ~Connecting(c)
    BY <1>5, <1>6, <1>9, <1>11, <2>2, SetupDone
  <2>. QED  BY <2>1, <2>2
<1>14. Alone'
  <2>1. CASE Connecting(c)
    <3>1. \A d \in Process : step'[d] = step[d]
      BY <1>5, <2>1 DEF k
    <3>2. \A d \in Process : Controls(d)' /\ step'[d] > 0 => Controls(d) /\ step[d] > 0
      BY <1>1, <1>9, <3>1 DEF Same, Controls
    <3>. QED  BY <3>1, <3>2, AloneKept
  <2>2. CASE ~Connecting(c)
    <3> SUFFICES ASSUME NEW a \in Process, NEW b \in Process,
                        Controls(a)', step'[a] > 0, b # a
                 PROVE  step'[b] = 0
      BY DEF Alone
    <3>1. CASE a = c
      <4>1. step'[b] = step[b] /\ Controls(c)
        BY <1>1, <1>5, <3>1 DEF Controls
      <4>2. CASE step[c] > 0
        BY <3>1, <4>1, <4>2 DEF TablesInv, Alone
      <4>3. CASE step[c] = 0
        <5>1. phase[b] # "closing"
          BY <1>1, <2>2, <3>1, <4>3 DEF Undisturbed
        <5>2. ASSUME step[b] > 0 PROVE FALSE
          <6>1. phase[b] \notin {"none", "gone"}
            BY <5>2 DEF TablesInv, Progress, Advances
          <6>2. Controls(b)
            BY <5>1, <6>1 DEF TablesInv, StreamInv, StreamTypes, Phases, Controls
          <6>. QED  BY <1>1, <2>2, <3>1, <5>2, <6>2, OnlyWriter
        <5>. QED  BY <1>8, <4>1, <5>2
      <4>. QED  BY <1>3, <4>2, <4>3
    <3>2. CASE a # c
      <4>1. Controls(a) /\ step[a] > 0
        BY <1>9, <3>2 DEF Same, Controls
      <4>2. b # c
        BY <1>1, <2>2, <3>2, <4>1, OnlyWriter
      <4>. QED  BY <1>5, <4>1, <4>2 DEF TablesInv, Alone
    <3>. QED  BY <3>1, <3>2
  <2>. QED  BY <2>1, <2>2
<1>15. Progress' /\ FitInv'
  <2>1. ASSUME NEW d \in Process, d # c
        PROVE  /\ Fits(phase[d], step[d], current_path[d], job[d], failed[d], entries, pre)'
               /\ Advances(phase[d], step[d], current_path[d], job[d], failed[d], opened[d])'
    <3>1. Same(d)
      BY <1>9, <2>1
    <3>2. UNCHANGED <<entries, pre>> \/ (phase[c] = "setup" /\ ~Connecting(c))
      BY <1>1, <1>6
    <3>. QED  BY <2>1, <3>1, <3>2, Elsewhere
  <2>. QED  BY <1>12, <1>13, <2>1 DEF Progress, FitInv
<1>. QED  BY <1>6, <1>10, <1>14, <1>15, Parts DEF TablesInv

(* A step of te_plugin's thread keeps all but, perhaps, the routes.        *)
LEMMA ServingTables ==
  ASSUME TablesInv, StreamInv', NEW c \in Process, Serving(c), SwitchesOK', Processes',
         UNCHANGED <<phase, step, opened, pre>>, \A d \in Process : d # c => Same(d),
         phase[c] = "running" => RunFits(entries'),
         phase[c] = "running" /\ ~failed'[c] =>
           RoutesFit(current_path'[c], job'[c], entries')
  PROVE  TablesInv'
<1>1. Alone'
  <2>1. \A d \in Process : Controls(d)' /\ step'[d] > 0 => Controls(d) /\ step[d] > 0
    BY DEF Controls
  <2>. QED  BY <2>1, AloneKept
<1>2. Advances(phase[c], step[c], current_path[c], job[c], failed[c], opened[c])'
  BY DEF TablesInv, Progress, Advances, Serving
<1>3. Fits(phase[c], step[c], current_path[c], job[c], failed[c], entries, pre)'
  <2>1. phase[c] # "setup"
    BY DEF Serving
  <2>2. phase[c] = "running" =>
          \A i \in 1..step[c] :
            Setup[i].op \in PreOps => BuildPreEntry(Setup[i]) \in pre[Setup[i].sw]
    BY DEF TablesInv, FitInv, Fits
  <2>. QED  BY <2>1, <2>2 DEF Fits
<1>4. Progress' /\ FitInv'
  BY <1>2, <1>3, Elsewhere DEF Progress, FitInv
<1>. QED  BY <1>1, <1>4, Parts DEF TablesInv

(* A route that te_plugin modifies is the one of its next host, and of no  *)
(* other; the keys of the table stay.                                      *)
LEMMA ModifyTables ==
  ASSUME TablesInv, NEW c \in Process, Writing(c), ModifySucceeds(c), Modify(c), pre' = pre
  PROVE  /\ SwitchesOK'
         /\ RunFits(entries) => RunFits(entries')
         /\ RoutesFit(current_path[c], job[c], entries) =>
              RoutesFit(current_path[c], job[c] + 1, entries')
<1> DEFINE h == Subnet2[job[c]]
           new == Other(current_path[c])
           e == EntryOf(RouteWrite(new, h))
<1>0. SwitchesOK /\ Processes
  BY Parts DEF TablesInv
<1>1. job[c] \in DOMAIN Subnet2 /\ job[c] \in Nat /\ DOMAIN Subnet2 \subseteq Nat
  BY HostSeqs DEF Writing
<1>2. current_path[c] \in Paths /\ new \in Paths
  BY <1>0 DEF Processes, Paths, Other
<1>3. e.key = RouteKey(h) /\ h \in Hosts2
  BY <1>1, <1>2, HostSeqs, RouteKeysDiffer
<1>4. "s2" \in Switch
  BY Switches
<1>5. /\ entries' = [entries EXCEPT !["s2"] = Written(entries["s2"], e)]
      /\ HasKey(entries["s2"], e.key)
  BY DEF Modify, ModifySucceeds, NextRoute
<1>6. \A i \in DOMAIN Subnet2, path \in Paths :
        EntryOf(RouteWrite(path, Subnet2[i])).key = RouteKey(Subnet2[i])
  BY RouteKeysDiffer
<1>7. \A i \in DOMAIN Subnet2 : RouteKey(Subnet2[i]) = RouteKey(h) => i = job[c]
  BY <1>1, RouteKeysDiffer, SubnetAssumption
<1>8. e.key \in RouteKeys
  BY <1>3 DEF RouteKeys, RouteKey
<1>9. e = EntryOf(RouteWrite(Other(current_path[c]), Subnet2[job[c]]))
  OBVIOUS
<1> HIDE DEF e, h, new
<1>10. \A sw \in Switch : entries'[sw] = IF sw = "s2" THEN Written(entries["s2"], e)
                                        ELSE entries[sw]
  BY <1>0, <1>4, <1>5 DEF SwitchesOK
<1>11. SwitchesOK'
  <2>1. entries' = [sw \in Switch |-> entries'[sw]]
    BY <1>0, <1>5 DEF SwitchesOK
  <2>2. \A sw \in Switch : UniqueKeys(entries'[sw])
    BY <1>0, <1>4, <1>10, WriteOne DEF SwitchesOK
  <2>. QED  BY <1>0, <2>1, <2>2 DEF SwitchesOK
<1>12. ASSUME RunFits(entries) PROVE RunFits(entries')
  <2>1. Keys(entries'["s2"]) = Keys(entries["s2"])
    BY <1>4, <1>5, <1>10, WriteOne
  <2>2. \A sw \in Switch : Keys(entries'[sw]) = Keys(SetupEntries[sw])
    BY <1>10, <1>12, <2>1 DEF RunFits
  <2>3. ASSUME NEW sw \in Switch, NEW f \in SetupEntries[sw], sw # "s2" \/ f.key \notin RouteKeys
        PROVE  f \in entries'[sw]
    <3>1. f \in entries[sw]
      BY <1>12, <2>3 DEF RunFits
    <3>2. CASE sw # "s2"
      BY <1>10, <3>1, <3>2
    <3>3. CASE sw = "s2"
      <4>1. f.key # e.key
        BY <1>8, <2>3, <3>3
      <4>. QED  BY <1>10, <3>1, <3>3, <4>1, WriteOne
    <3>. QED  BY <3>2, <3>3
  <2>. QED  BY <2>2, <2>3 DEF RunFits
<1>13. ASSUME RoutesFit(current_path[c], job[c], entries)
       PROVE  RoutesFit(current_path[c], job[c] + 1, entries')
  <2> SUFFICES ASSUME NEW i \in DOMAIN Subnet2
               PROVE  EntryOf(RouteWrite(IF i < job[c] + 1 THEN Other(current_path[c])
                                         ELSE current_path[c], Subnet2[i])) \in entries'["s2"]
    BY DEF RoutesFit
  <2>1. i \in Nat
    BY <1>1
  <2>2. CASE i = job[c]
    <3>1. i < job[c] + 1
      BY <1>1, <2>2
    <3>2. e \in entries'["s2"]
      BY <1>4, <1>10, WriteOne
    <3>. QED  BY <1>9, <2>2, <3>1, <3>2
  <2>3. CASE i # job[c]
    <3> DEFINE path == IF i < job[c] THEN Other(current_path[c]) ELSE current_path[c]
               f == EntryOf(RouteWrite(path, Subnet2[i]))
    <3>1. i < job[c] + 1 <=> i < job[c]
      BY <1>1, <2>1, <2>3
    <3>2. f \in entries["s2"]
      BY <1>13 DEF RoutesFit
    <3>3. path \in Paths
      BY <1>2 DEF new
    <3>4. f.key # e.key
      BY <1>3, <1>6, <1>7, <2>3, <3>3
    <3>5. f \in entries'["s2"]
      BY <1>4, <1>10, <3>2, <3>4, WriteOne
    <3>. QED  BY <3>1, <3>5
  <2>. QED  BY <2>2, <2>3
<1>. QED  BY <1>11, <1>12, <1>13

(* te_plugin's thread only changes routes, and only of its own process.    *)
LEMMA ReroutingTables ==
  ASSUME TablesInv, StreamInv', NEW c \in Process, Rerouting(c)
  PROVE  TablesInv'
<1>1. SwitchesOK /\ Processes
  BY Parts DEF TablesInv
<1>2. Len(Subnet2) \in Nat /\ DOMAIN Subnet2 = 1..Len(Subnet2)
  BY HostSeqs
<1>3. phase[c] = "running" =>
        RunFits(entries) /\ (~failed[c] => RoutesFit(current_path[c], job[c], entries))
  BY DEF TablesInv, FitInv, Fits
<1>4. job[c] \in 0..(Len(Subnet2) + 1) /\ current_path[c] \in Paths
  BY <1>1 DEF Processes
<1>5. CASE StartReroute(c)
  <2>1. /\ Serving(c) /\ job[c] = 0 /\ job' = [job EXCEPT ![c] = 1]
        /\ UNCHANGED <<phase, step, opened, closed, current_path, failed, entries, pre,
                       preSurvives, calm>>
    BY <1>5 DEF StartReroute, switch
  <2>2. Processes'
    BY <1>1, <1>2, <2>1 DEF Processes
  <2>3. job'[c] = 1 /\ \A d \in Process : d # c => Same(d)
    BY <1>1, <2>1 DEF Processes, Same
  <2>4. RoutesFit(current_path[c], 0, entries) => RoutesFit(current_path[c], 1, entries)
    BY <1>2 DEF RoutesFit
  <2>5. SwitchesOK'
    BY <1>1, <2>1 DEF SwitchesOK
  <2>. QED  BY <1>3, <2>1, <2>2, <2>3, <2>4, <2>5, ServingTables
<1>6. CASE WriteRoute(c)
  <2>1. /\ Writing(c) /\ ModifySucceeds(c) /\ Modify(c)
        /\ job' = [job EXCEPT ![c] = job[c] + 1]
        /\ UNCHANGED <<phase, step, opened, closed, current_path, failed, pre,
                       preSurvives, calm>>
    BY <1>6 DEF WriteRoute
  <2>2. Serving(c) /\ job[c] \in 1..Len(Subnet2)
    BY <2>1 DEF Writing
  <2>3. Processes'
    BY <1>1, <1>2, <2>1, <2>2 DEF Processes
  <2>4. job'[c] = job[c] + 1 /\ \A d \in Process : d # c => Same(d)
    BY <1>1, <2>1 DEF Processes, Same
  <2>. QED  BY <1>3, <2>1, <2>2, <2>3, <2>4, ModifyTables, ServingTables
<1>7. CASE EndReroute(c)
  <2>1. /\ Serving(c) /\ job[c] = Len(Subnet2) + 1 /\ job' = [job EXCEPT ![c] = 0]
        /\ current_path' = [current_path EXCEPT ![c] = Other(current_path[c])]
        /\ UNCHANGED <<phase, step, opened, closed, failed, entries, pre, preSurvives, calm>>
    BY <1>7 DEF EndReroute, switch
  <2>2. Other(current_path[c]) \in Paths
    BY DEF Other, Paths
  <2>3. Processes'
    BY <1>1, <1>2, <2>1, <2>2 DEF Processes
  <2>4. /\ job'[c] = 0 /\ current_path'[c] = Other(current_path[c])
        /\ \A d \in Process : d # c => Same(d)
    BY <1>1, <2>1 DEF Processes, Same
  <2>5. RoutesFit(current_path[c], Len(Subnet2) + 1, entries)
          => RoutesFit(Other(current_path[c]), 0, entries)
    BY <1>2 DEF RoutesFit
  <2>6. SwitchesOK'
    BY <1>1, <2>1 DEF SwitchesOK
  <2>. QED  BY <1>3, <2>1, <2>3, <2>4, <2>5, <2>6, ServingTables
<1>8. ASSUME NEW applied \in BOOLEAN, RouteFails(c, applied) PROVE TablesInv'
  <2>1. /\ Writing(c) /\ job' = [job EXCEPT ![c] = 0]
        /\ failed' = [failed EXCEPT ![c] = TRUE]
        /\ UNCHANGED <<phase, step, opened, closed, current_path, pre, preSurvives, calm>>
    BY <1>8 DEF RouteFails
  <2>2. (ModifySucceeds(c) /\ Modify(c)) \/ entries' = entries
    BY <1>8 DEF RouteFails
  <2>3. Processes'
    BY <1>1, <1>2, <2>1 DEF Processes
  <2>4. failed'[c] = TRUE /\ \A d \in Process : d # c => Same(d)
    BY <1>1, <2>1 DEF Processes, Same
  <2>5. SwitchesOK' /\ (RunFits(entries) => RunFits(entries'))
    <3>1. CASE entries' = entries
      BY <1>1, <2>1, <3>1 DEF SwitchesOK
    <3>2. CASE ModifySucceeds(c) /\ Modify(c)
      BY <2>1, <3>2, ModifyTables
    <3>. QED  BY <2>2, <3>1, <3>2
  <2>. QED  BY <1>3, <2>1, <2>3, <2>4, <2>5, ServingTables DEF Writing
<1>. QED  BY <1>5, <1>6, <1>7, <1>8 DEF Rerouting

(* setup_plugin's calls, with their interruptions.                         *)
LEMMA SettingTables ==
  ASSUME TablesInv, StreamInv', NEW c \in Process, Setting(c)
  PROVE  TablesInv'
<1>1. SwitchesOK /\ Processes
  BY Parts DEF TablesInv
<1>2. CASE CallReturns(c)
  BY <1>2, ReturnTables
<1>3. ASSUME phase[c] \in {"setup", "running"}, NoEffect, Stop(c) PROVE TablesInv'
  <2>1. UNCHANGED <<opened, entries, pre>>
    BY <1>3 DEF NoEffect, switch
  <2>2. SwitchesOK'
    BY <1>1, <2>1 DEF SwitchesOK
  <2>. QED  BY <1>1, <1>3, <2>1, <2>2, StopTables DEF Processes
<1>4. ASSUME phase[c] = "setup", Succeeds(c), Effect(c), Stop(c) PROVE TablesInv'
  <2>1. /\ SwitchesOK' /\ opened' \in [Process -> SUBSET Switch]
        /\ \A d \in Process : opened[d] \subseteq opened'[d]
        /\ Connecting(c) => UNCHANGED <<entries, pre>>
    BY <1>4, EffectOnTables DEF SwitchesOK
  <2>2. \A d \in Process : d # c => opened'[d] = opened[d]
    BY <1>4, EffectOnStreams DEF TablesInv
  <2>. QED  BY <1>4, <2>1, <2>2, StopTables
<1>. QED  BY <1>2, <1>3, <1>4 DEF Setting, CallRaises, InterruptSetup

(* The end of a process changes no table.                                  *)
LEMMA EndingTables ==
  ASSUME TablesInv, StreamInv', NEW c \in Process, Ending(c)
  PROVE  TablesInv'
<1>1. SwitchesOK /\ Processes
  BY Parts DEF TablesInv
<1>2. CASE InterruptRun(c)
  <2>1. phase[c] = "running" /\ Stop(c) /\ UNCHANGED <<opened, entries, pre>>
    BY <1>2 DEF InterruptRun, NoEffect, switch
  <2>2. SwitchesOK'
    BY <1>1, <2>1 DEF SwitchesOK
  <2>. QED  BY <1>1, <2>1, <2>2, StopTables DEF Processes
<1>3. CASE Exit(c) \/ Kill(c)
  BY <1>3, LeaveTables DEF Exit, Kill
<1>4. ASSUME NEW i \in DOMAIN Connections, CloseStream(c, i) PROVE TablesInv'
  <2>1. /\ Connections[i] \in opened[c]
        /\ closed' = [closed EXCEPT ![c] = closed[c] \cup {Connections[i]}]
        /\ UNCHANGED <<phase, step, opened, current_path, job, failed, entries, pre,
                       preSurvives, calm>>
    BY <1>4 DEF CloseStream, switch
  <2>2. closed = [d \in Process |-> closed[d]]
    BY DEF TablesInv, StreamInv, StreamTypes
  <2>3. \A d \in Process : closed'[d] \subseteq opened[d]
    BY <1>1, <2>1, <2>2 DEF Processes
  <2>4. Processes'
    BY <1>1, <2>1, <2>3 DEF Processes
  <2>5. \A d \in Process : Same(d)
    BY <2>1 DEF Same
  <2>. QED  BY <2>1, <2>4, <2>5, QuietTables
<1>. QED  BY <1>2, <1>3, <1>4 DEF Ending

(* Nothing is written at first.                                            *)
LEMMA TablesInit == Init => TablesInv
<1> SUFFICES ASSUME Init PROVE TablesInv
  OBVIOUS
<1>1. StreamInv
  BY StreamInit
<1>2. \A sw \in Switch : UniqueKeys(entries[sw]) /\ UniqueKeys(pre[sw]) /\ pre[sw] = {}
  BY DEF Init, UniqueKeys
<1>3. SwitchesOK
  BY <1>2 DEF Init, SwitchesOK
<1>4. Processes
  <2>1. 0 \in 0..Len(Setup) /\ 0 \in 0..(Len(Subnet2) + 1)
    BY SetupOrder, HostSeqs
  <2>. QED  BY <2>1 DEF Init, Processes, Paths
<1>5. Progress /\ Alone /\ FitInv
  BY DEF Init, Progress, Advances, Alone, FitInv, Fits, Controls
<1>. QED  BY <1>1, <1>3, <1>4, <1>5, Parts DEF TablesInv

(* Every step keeps the tables as the processes take them to be.           *)
LEMMA TablesStep == TablesInv /\ [Next]_vars => TablesInv'
<1> SUFFICES ASSUME TablesInv, [Next]_vars PROVE TablesInv'
  OBVIOUS
<1>1. StreamInv'
  BY StreamStep DEF TablesInv
<1>2. ASSUME NEW c \in Process, Launch(c) \/ Setting(c) \/ Rerouting(c) \/ Ending(c)
      PROVE  TablesInv'
  BY <1>1, <1>2, LaunchTables, SettingTables, ReroutingTables, EndingTables
<1>3. SwitchesOK /\ Processes
  BY Parts DEF TablesInv
<1>4. ASSUME NEW c \in Process, NEW sw \in Switch, StreamDrops(c, sw) PROVE TablesInv'
  <2>1. UNCHANGED <<process, entries, pre, preSurvives, calm>>
    BY <1>4 DEF StreamDrops
  <2>2. Processes' /\ \A d \in Process : Same(d)
    BY <1>3, <2>1 DEF Processes, Same, process
  <2>. QED  BY <1>1, <2>1, <2>2, QuietTables
<1>5. CASE FaultsEnd \/ UNCHANGED vars
  <2>1. UNCHANGED <<process, entries, pre, preSurvives>> /\ calm' \in BOOLEAN
    BY <1>3, <1>5 DEF FaultsEnd, vars, switch, Processes
  <2>2. Processes' /\ \A d \in Process : Same(d)
    BY <1>3, <2>1 DEF Processes, Same, process
  <2>. QED  BY <1>1, <2>1, <2>2, QuietTables
<1>. QED  BY <1>2, <1>4, <1>5 DEF Next

(* So they always are.                                                     *)
LEMMA TablesHold == Spec => []TablesInv
  BY TablesInit, TablesStep, PTL DEF Spec

(* No table and no replication engine ever has two entries with one key,   *)
(* and every variable keeps its type.                                      *)
THEOREM TypeCorrect == Spec => []TypeOK
<1>1. TablesInv => TypeOK
  BY DEF TablesInv
<1>. QED  BY <1>1, TablesHold, PTL

(***************************************************************************)
(* While a process runs, the replication engines hold what setup_plugin    *)
(* wrote, no more and no less, the tables have an entry for each of its    *)
(* keys and for no other, and only routes of s2 differ from what it wrote. *)
(***************************************************************************)
THEOREM SetupCorrect == Spec => []SetupIsComplete
<1>1. TablesInv => SetupIsComplete
  <2> SUFFICES ASSUME TablesInv, NEW c \in Process, phase[c] = "running", NEW sw \in Switch
               PROVE  /\ pre[sw] = SetupPre[sw]
                      /\ Keys(entries[sw]) = Keys(SetupEntries[sw])
                      /\ {e \in SetupEntries[sw] : sw # "s2" \/ e.key \notin RouteKeys}
                           \subseteq entries[sw]
    BY DEF SetupIsComplete, Keys
  <2>1. RunFits(entries)
    BY DEF TablesInv, FitInv, Fits
  <2>2. ASSUME NEW w \in WritesTo(sw, {"mcast", "clone"}) PROVE BuildPreEntry(w) \in pre[sw]
    <3>1. PICK i \in 1..Len(Setup) : w = Setup[i]
      BY SetupOrder DEF WritesTo, ToSet
    <3>2. w.sw = sw /\ w.op \in PreOps
      BY DEF WritesTo, PreOps
    <3>3. step[c] = Len(Setup)
      BY DEF TablesInv, Progress, Advances
    <3>. QED  BY <3>1, <3>2, <3>3 DEF TablesInv, FitInv, Fits
  <2>3. SetupPre[sw] \subseteq pre[sw]
    BY <2>2 DEF SetupPre
  <2>4. pre[sw] \subseteq SetupPre[sw]
    BY DEF TablesInv, Memory
  <2>. QED  BY <2>1, <2>3, <2>4 DEF RunFits
<1>. QED  BY <1>1, TablesHold, PTL

(***************************************************************************)
(* While a process runs and no reroute of its own has failed, the routes   *)
(* on s2 are those of its path, whatever was there when it started.        *)
(***************************************************************************)
THEOREM RoutesCorrect == Spec => []RoutesFollowPath
<1>1. TablesInv => RoutesFollowPath
  BY DEF TablesInv, FitInv, Fits, RoutesFit, RoutesFollowPath
<1>. QED  BY <1>1, TablesHold, PTL

-----------------------------------------------------------------------------
(***************************************************************************)
(* No call is refused for what it asks: the same for replication engines,  *)
(* where a new pipeline empties them.                                      *)
(***************************************************************************)

(* The groups and sessions of the first k writes to sw. *)
DonePre(sw, k) ==
  {BuildPreEntry(Setup[i]) : i \in {j \in 1..k : Setup[j].sw = sw /\ Setup[j].op \in PreOps}}

EngineInv ==
  ~preSurvives =>
    \A c \in Process, sw \in Switch :
      phase[c] = "setup" /\ HasPipeline(sw, step[c]) => pre[sw] = DonePre(sw, step[c])

(* What a write of setup adds to the groups and sessions before it.        *)
LEMMA OneMoreGroup ==
  ASSUME NEW k \in 1..Len(Setup), NEW sw \in Switch
  PROVE  /\ Setup[k].sw = sw /\ Setup[k].op \in PreOps =>
              DonePre(sw, k) = DonePre(sw, k - 1) \cup {BuildPreEntry(Setup[k])}
         /\ ~(Setup[k].sw = sw /\ Setup[k].op \in PreOps) => DonePre(sw, k) = DonePre(sw, k - 1)
         /\ k <= 4 => DonePre(sw, k) = {}
<1>1. k \in Nat /\ k >= 1 /\ Len(Setup) \in Nat
  BY SetupOrder
<1>2. \A i \in 1..k : i \in 1..(k - 1) \/ i = k
  BY <1>1
<1>3. \A i \in 1..(k - 1) : i \in 1..k
  BY <1>1
<1>4. k \in 1..k
  BY <1>1
<1>5. Setup[k].sw = sw /\ Setup[k].op \in PreOps =>
        DonePre(sw, k) = DonePre(sw, k - 1) \cup {BuildPreEntry(Setup[k])}
  BY <1>2, <1>3, <1>4 DEF DonePre
<1>6. ~(Setup[k].sw = sw /\ Setup[k].op \in PreOps) => DonePre(sw, k) = DonePre(sw, k - 1)
  BY <1>2, <1>3 DEF DonePre
<1>7. ASSUME k <= 4 PROVE DonePre(sw, k) = {}
  <2>1. \A i \in 1..k : i \in 1..Len(Setup) /\ i <= 4
    BY <1>1, <1>7
  <2>2. \A i \in 1..k : Setup[i].op = "pipeline"
    BY <2>1, SetupOrder
  <2>. QED  BY <2>2 DEF DonePre, PreOps
<1>. QED  BY <1>5, <1>6, <1>7

(* While no replication engine changes, a process has written no more.     *)
LEMMA EnginesKept ==
  ASSUME EngineInv, UNCHANGED <<pre, preSurvives>>,
         \A d \in Process :
           phase'[d] = "setup" => step'[d] = 0 \/ (phase[d] = "setup" /\ step'[d] = step[d])
  PROVE  EngineInv'
<1>1. \A sw : ~HasPipeline(sw, 0)
  BY DEF HasPipeline
<1>. QED  BY <1>1 DEF EngineInv

(* A call of setup other than a connect: only its process is past s1.      *)
LEMMA EnginesFilled ==
  ASSUME TablesInv, EngineInv, NEW c \in Process,
         phase[c] = "setup", ~Connecting(c), Succeeds(c), Effect(c),
         preSurvives' = preSurvives,
         \A d \in Process : d # c => phase'[d] = phase[d] /\ step'[d] = step[d],
         phase'[c] = "setup" => step'[c] = step[c] + 1
  PROVE  EngineInv'
<1> DEFINE w == TheWrite(c)
           k == step[c] + 1
<1> SUFFICES ASSUME ~preSurvives, NEW d \in Process, NEW sw \in Switch,
                    phase'[d] = "setup", HasPipeline(sw, step'[d])
             PROVE  pre'[sw] = DonePre(sw, step'[d])
  BY DEF EngineInv
<1>1. /\ k \in 1..Len(Setup) /\ w = Setup[k] /\ w.sw \in Switch
      /\ k <= 4 => w = Push(w.sw)
      /\ w.op = "pipeline" <=> k <= 4
      /\ w.op \in {"pipeline"} \cup TableOps \cup PreOps
      /\ k \in Nat /\ k - 1 = step[c]
  BY NextWrite
<1>2. d = c
  <2>1. ASSUME d # c PROVE FALSE
    <3>1. phase[d] = "setup" /\ step'[d] = step[d] /\ step[d] \in Nat
      BY <2>1 DEF TablesInv, TypeOK
    <3>2. step[d] = 0
      BY <2>1, <3>1, OnlyWriter DEF Controls
    <3>. QED  BY <3>1, <3>2 DEF HasPipeline
  <2>. QED  BY <2>1
<1>3. HasPipeline(sw, k) /\ step'[d] = k
  BY <1>2
<1>4. HasPipeline(sw, k - 1) => pre[sw] = DonePre(sw, k - 1)
  BY <1>1 DEF EngineInv
<1>5. pre = [s \in Switch |-> pre[s]]
  BY DEF TablesInv, Memory
<1>6. HasPipeline(sw, k - 1) \/ w = Push(sw)
  BY <1>1, <1>3, OneMoreWrite
<1>7. CASE w.op = "pipeline"
  <2>1. pre' = [pre EXCEPT ![w.sw] = {}]
    BY <1>7 DEF Effect
  <2> HIDE DEF w, k
  <2>2. DonePre(sw, k) = {} /\ w.op \notin PreOps
    BY <1>1, <1>7, OneMoreGroup DEF PreOps
  <2>3. CASE sw = w.sw
    BY <1>1, <1>3, <1>5, <2>1, <2>2, <2>3
  <2>4. CASE sw # w.sw
    <3>1. w # Push(sw)
      BY <2>4 DEF Push
    <3>2. pre'[sw] = pre[sw] /\ pre[sw] = DonePre(sw, k - 1)
      BY <1>4, <1>5, <1>6, <2>1, <2>4, <3>1
    <3>. QED  BY <1>1, <1>3, <2>2, <3>2, OneMoreGroup
  <2>. QED  BY <2>3, <2>4
<1>8. CASE w.op \in PreOps
  <2>1. pre' = [pre EXCEPT ![w.sw] = pre[w.sw] \cup {BuildPreEntry(w)}]
    BY <1>8 DEF Effect, PreOps
  <2>2. w # Push(sw)
    BY <1>8 DEF Push, PreOps
  <2> HIDE DEF w, k
  <2>3. pre'[sw] = IF sw = w.sw THEN pre[sw] \cup {BuildPreEntry(w)} ELSE pre[sw]
    BY <1>1, <1>5, <2>1
  <2>4. pre[sw] = DonePre(sw, k - 1)
    BY <1>4, <1>6, <2>2
  <2>. QED  BY <1>1, <1>3, <1>8, <2>3, <2>4, OneMoreGroup
<1>9. CASE w.op \in TableOps
  <2>1. w.op \notin PreOps /\ w.op # "pipeline"
    BY <1>9 DEF PreOps, TableOps
  <2>2. pre' = pre
    BY <1>9, <2>1 DEF Effect, PreOps
  <2>3. w # Push(sw)
    BY <2>1 DEF Push
  <2> HIDE DEF w, k
  <2>. QED  BY <1>1, <1>3, <1>4, <1>6, <2>1, <2>2, <2>3, OneMoreGroup
<1>. QED  BY <1>1, <1>7, <1>8, <1>9

(* Every step keeps the engines as the process in setup takes them to be.  *)
LEMMA EngineStep == TablesInv /\ EngineInv /\ [Next]_vars => EngineInv'
<1> SUFFICES ASSUME TablesInv, EngineInv, [Next]_vars PROVE EngineInv'
  OBVIOUS
<1>1. SwitchesOK /\ Processes /\ phase = [d \in Process |-> phase[d]]
  BY Parts DEF TablesInv, StreamInv, StreamTypes
<1>2. ASSUME NEW c \in Process, Launch(c) PROVE EngineInv'
  <2>1. step' = step /\ step[c] = 0 /\ UNCHANGED <<pre, preSurvives>>
    BY <1>2 DEF Launch, switch, TablesInv, Progress, Advances
  <2>2. \A d \in Process : d # c => phase'[d] = phase[d]
    BY <1>1, <1>2 DEF Launch
  <2>. QED  BY <2>1, <2>2, EnginesKept
<1>3. ASSUME NEW c \in Process, Setting(c) PROVE EngineInv'
  <2>1. CASE CallReturns(c)
    <3>1. /\ phase[c] = "setup" /\ Succeeds(c) /\ Effect(c) /\ preSurvives' = preSurvives
          /\ step'[c] = IF Connecting(c) THEN step[c] ELSE step[c] + 1
          /\ \A d \in Process : d # c => phase'[d] = phase[d] /\ step'[d] = step[d]
      BY <1>1, <2>1 DEF CallReturns, Processes
    <3>2. CASE Connecting(c)
      <4>1. pre' = pre
        BY <3>1, <3>2 DEF Effect
      <4>. QED  BY <3>1, <3>2, <4>1, EnginesKept
    <3>3. CASE ~Connecting(c)
      BY <3>1, <3>3, EnginesFilled
    <3>. QED  BY <3>2, <3>3
  <2>2. ASSUME Stop(c), NoEffect PROVE EngineInv'
    <3>1. step' = step /\ UNCHANGED <<pre, preSurvives>>
      BY <2>2 DEF Stop, NoEffect, switch
    <3>2. \A d \in Process : phase'[d] = "setup" => phase[d] = "setup"
      BY <1>1, <2>2 DEF Stop
    <3>. QED  BY <3>1, <3>2, EnginesKept
  <2>3. ASSUME phase[c] = "setup", Succeeds(c), Effect(c), Stop(c) PROVE EngineInv'
    <3>1. /\ step' = step /\ preSurvives' = preSurvives /\ phase'[c] = "closing"
          /\ \A d \in Process : d # c => phase'[d] = phase[d]
      BY <1>1, <2>3 DEF Stop
    <3>2. CASE Connecting(c)
      <4>1. pre' = pre
        BY <2>3, <3>2 DEF Effect
      <4>2. \A d \in Process : phase'[d] = "setup" => phase[d] = "setup"
        BY <3>1
      <4>. QED  BY <3>1, <4>1, <4>2, EnginesKept
    <3>3. CASE ~Connecting(c)
      BY <2>3, <3>1, <3>3, EnginesFilled
    <3>. QED  BY <3>2, <3>3
  <2>. QED  BY <1>3, <2>1, <2>2, <2>3 DEF Setting, CallRaises, InterruptSetup
<1>4. ASSUME NEW c \in Process, Rerouting(c) PROVE EngineInv'
  <2>1. UNCHANGED <<phase, step, pre, preSurvives>>
    BY <1>4 DEF Rerouting, StartReroute, WriteRoute, EndReroute, RouteFails, switch
  <2>. QED  BY <2>1, EnginesKept
<1>5. ASSUME NEW c \in Process, Ending(c) PROVE EngineInv'
  <2>1. UNCHANGED <<pre, preSurvives>>
    BY <1>5 DEF Ending, InterruptRun, NoEffect, Stop, Exit, Kill, Leave, CloseStream, switch
  <2>2. CASE InterruptRun(c) \/ \E i \in DOMAIN Connections : CloseStream(c, i)
    <3>1. step' = step /\ \A d \in Process : phase'[d] = "setup" => phase[d] = "setup"
      BY <1>1, <2>2 DEF InterruptRun, Stop, CloseStream
    <3>. QED  BY <2>1, <3>1, EnginesKept
  <2>3. CASE Leave(c)
    <3>1. /\ phase'[c] = "gone"
          /\ \A d \in Process : d # c => phase'[d] = phase[d] /\ step'[d] = step[d]
      BY <1>1, <2>3 DEF Leave, Processes
    <3>. QED  BY <2>1, <3>1, EnginesKept
  <2>. QED  BY <1>5, <2>2, <2>3 DEF Ending, Exit, Kill
<1>6. ASSUME \/ \E c \in Process, sw \in Switch : StreamDrops(c, sw)
             \/ FaultsEnd \/ UNCHANGED vars
      PROVE  EngineInv'
  <2>1. UNCHANGED <<phase, step, pre, preSurvives>>
    BY <1>6 DEF StreamDrops, FaultsEnd, vars, process, switch
  <2>. QED  BY <2>1, EnginesKept
<1>. QED  BY <1>2, <1>3, <1>4, <1>5, <1>6 DEF Next

(* Every write of setup by its kind, and each once.                        *)
LEMMA SetupWrites ==
  /\ \A i \in 1..Len(Setup) :
       /\ Setup[i].op \in TableOps => Setup[i] \in TableWrites
       /\ Setup[i].op \in PreOps => Setup[i] \in ReplicationWrites
  /\ \A i, j \in 1..Len(Setup) : Setup[i] = Setup[j] => i = j
<1>1. \A i \in 1..Len(Setup) :
        Setup[i] \in PushWrites \cup ReplicationWrites \cup TableWrites
  BY SetupParts DEF TableWrites
<1>2. /\ \A w \in PushWrites : w.op \notin TableOps \cup PreOps
      /\ \A w \in ReplicationWrites : w.op \notin TableOps
      /\ \A w \in TableWrites : w.op \notin PreOps
  BY WriteKinds DEF TableWrites, TableOps, PreOps
<1>. QED  BY <1>1, <1>2, SetupParts

(* The route te_plugin is to write has an entry while its process runs.    *)
LEMMA RouteAccepted ==
  ASSUME TablesInv, NEW c \in Process, phase[c] = "running", Writing(c)
  PROVE  ModifySucceeds(c)
<1> DEFINE h == Subnet2[job[c]]
           path == Other(current_path[c])
           r == RouteWrite(path, h)
           s == Route("s2", h, 3, h)
<1>1. h \in Hosts2 /\ path \in Paths /\ "s2" \in Router /\ "s2" \in Switch
  BY HostSeqs, Switches DEF Writing, Other, Paths, Router
<1>2. r.sw = "s2" /\ r = NextRoute(c)
  BY <1>1, RouteShape DEF NextRoute
<1>3. Builds(r)
  <2>1. 2 \in 0..511 /\ 3 \in 0..511
    OBVIOUS
  <2>2. Builds(Route("s2", h, 3, h)) /\ Builds(Route("s2", h, 2, "cc31"))
    BY <1>1, <2>1, BuildsRoute
  <2>. QED  BY <2>2 DEF RouteWrite
<1>4. s \in WritesTo("s2", {"dMac", "lpm", "rewrite", "switchId", "marking"})
  <2>1. s \in L3Writes /\ s.sw = "s2" /\ s.op = "lpm"
    BY <1>1 DEF L3Writes, Route
  <2>2. s \in ToSet(Setup)
    BY <2>1, SetupParts DEF Occurs, ToSet
  <2>. QED  BY <2>1, <2>2 DEF WritesTo
<1>5. RouteKey(h) = EntryOf(s).key
  BY DEF RouteKey, RouteWrite
<1>6. EntryOf(r).key = RouteKey(h)
  BY <1>1, RouteKeysDiffer
<1>7. RunFits(entries)
  BY DEF TablesInv, FitInv, Fits
<1> HIDE DEF h, path, r, s
<1>8. EntryOf(s) \in SetupEntries["s2"]
  BY <1>1, <1>4 DEF SetupEntries
<1>9. RouteKey(h) \in Keys(entries["s2"])
  BY <1>1, <1>5, <1>7, <1>8 DEF RunFits, Keys
<1>. QED  BY <1>2, <1>3, <1>6, <1>9 DEF ModifySucceeds, HasKey, Keys, Builds

(* setup_plugin's next call is accepted, if it has its stream.             *)
LEMMA CallAccepted ==
  ASSUME TablesInv, EngineInv, NEW c \in Process, phase[c] = "setup", ~Connecting(c),
         preSurvives => TheWrite(c).op \notin {"mcast", "clone"}
  PROVE  Succeeds(c)
<1> DEFINE w == TheWrite(c)
           k == step[c] + 1
<1>1. /\ k \in 1..Len(Setup) /\ w = Setup[k] /\ w.sw \in Switch
      /\ w.op = "pipeline" <=> k <= 4
      /\ w.op \in {"pipeline"} \cup TableOps \cup PreOps
      /\ k \in Nat /\ k - 1 = step[c]
  BY NextWrite
<1>2. \A i \in 1..(k - 1) : i \in 1..Len(Setup) /\ i # k
  BY <1>1
<1>3. CASE w.op = "pipeline"
  BY <1>3 DEF Succeeds
<1>4. CASE w.op \in TableOps
  <2>1. w.op \notin {"mcast", "clone"} /\ w.op # "pipeline"
    BY <1>4 DEF TableOps
  <2>2. w \in TableWrites
    BY <1>1, <1>4, SetupWrites
  <2>3. RuleBuilds(w.sw, RuleOf(w))
    BY <2>2, KeysTellWritesApart DEF Builds
  <2>4. ~HasKey(entries[w.sw], EntryOf(w).key)
    <3> HIDE DEF w, k
    <3>1. entries[w.sw] = Done(w.sw, k - 1)
      <4>1. HasPipeline(w.sw, k - 1)
        BY <1>1, <2>1, OneMoreWrite
      <4>. QED  BY <1>1, <4>1 DEF TablesInv, FitInv, Fits
    <3>2. ASSUME NEW i \in 1..(k - 1), Setup[i].sw = w.sw, Setup[i].op \in TableOps,
                 EntryOf(Setup[i]).key = EntryOf(w).key
          PROVE  FALSE
      <4>1. Setup[i] \in TableWrites
        BY <1>2, <3>2, SetupWrites
      <4>2. Setup[i] = w
        BY <2>2, <3>2, <4>1, KeysTellWritesApart
      <4>. QED  BY <1>1, <1>2, <4>2, SetupWrites
    <3>. QED  BY <3>1, <3>2 DEF HasKey, Done
  <2>. QED  BY <2>1, <2>3, <2>4 DEF Succeeds
<1>5. CASE w.op \in PreOps
  <2>1. w.op \in {"mcast", "clone"} /\ w.op # "pipeline" /\ ~preSurvives
    BY <1>5 DEF PreOps
  <2>2. w \in ReplicationWrites
    BY <1>1, <1>5, SetupWrites
  <2>3. ~HasKey(pre[w.sw], BuildPreEntry(w).key)
    <3> HIDE DEF w, k
    <3>1. pre[w.sw] = DonePre(w.sw, k - 1)
      <4>1. HasPipeline(w.sw, k - 1)
        BY <1>1, <2>1, OneMoreWrite
      <4>. QED  BY <1>1, <2>1, <4>1 DEF EngineInv
    <3>2. ASSUME NEW i \in 1..(k - 1), Setup[i].sw = w.sw, Setup[i].op \in PreOps,
                 BuildPreEntry(Setup[i]).key = BuildPreEntry(w).key
          PROVE  FALSE
      <4>1. Setup[i] \in ReplicationWrites
        BY <1>2, <3>2, SetupWrites
      <4>2. Setup[i] = w
        BY <2>2, <3>2, <4>1, GroupsDiffer
      <4>. QED  BY <1>1, <1>2, <4>2, SetupWrites
    <3>. QED  BY <3>1, <3>2 DEF HasKey, DonePre
  <2>. QED  BY <2>1, <2>3 DEF Succeeds
<1>. QED  BY <1>1, <1>3, <1>4, <1>5

(***************************************************************************)
(* Whatever earlier processes left, the library builds each write of setup *)
(* and its INSERT finds the key free, and the MODIFYs of a running process *)
(* find their entries: no call fails for what it asks, but for a target    *)
(* that keeps its groups and sessions across a new pipeline.               *)
(***************************************************************************)
THEOREM CallsSucceed == Spec => []CallsAreAccepted
<1>1. Init => EngineInv
  BY DEF Init, EngineInv
<1>2. TablesInv /\ EngineInv => CallsAreAccepted
  BY CallAccepted, RouteAccepted DEF CallsAreAccepted
<1>3. Spec => []EngineInv
  BY <1>1, EngineStep, TablesHold, PTL DEF Spec
<1>. QED  BY <1>2, <1>3, TablesHold, PTL
=============================================================================
