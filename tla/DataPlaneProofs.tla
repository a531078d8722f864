-------------------------- MODULE DataPlaneProofs --------------------------
(***************************************************************************)
(* What holds in the data plane for any hosts, any number of frames and    *)
(* reroutes, at every moment of setup: the safety properties of DataPlane. *)
(* Two facts carry them.  The tables hold only entries that setup_plugin   *)
(* or te_plugin wrote, the MAC tables all of theirs before the first       *)
(* route; so a frame comes to a switch on one of a few ways, and which one *)
(* tells its destination MAC and its INT stack.                            *)
(***************************************************************************)
EXTENDS DataPlane, SetupProofs

(***************************************************************************)
(* What the tables hold: entries that setup_plugin or te_plugin wrote,     *)
(* those of the writes done so far, and nothing else.                      *)
(***************************************************************************)

MacPort(sw, m, p) ==
  \/ sw = "s1" /\ m = "cc21" /\ p = 4
  \/ sw = "s1" /\ m \in Hosts1 /\ p = AccessPort(m)
  \/ sw = "s4" /\ m = "cc23" /\ p = 4
  \/ sw = "s4" /\ m = "cc32" /\ p = 5
  \/ sw = "s4" /\ m \in Hosts2 /\ p = AccessPort(m)
  \/ sw = "s4" /\ m = "ctrl" /\ p = 510

RouteTo(sw, x, r) ==
  \/ sw = "s2" /\ x \in Hosts1 /\ r = [port |-> 1, mac |-> x]
  \/ sw = "s2" /\ x \in Hosts2 /\ r \in {ShortRoute(x), LongRoute(x)}
  \/ sw = "s3" /\ x = "subnet1" /\ r = [port |-> 1, mac |-> "cc22"]
  \/ sw = "s3" /\ x \in Hosts2 /\ r = [port |-> 2, mac |-> x]

InterfaceMacs == {"cc21", "cc22", "cc23", "cc31", "cc32"}

Did(w) == \E i \in 1..installed : Setup[i] = w

Counters ==
  /\ installed \in 0..Len(Setup)
  /\ reroutes \in 0..MaxReroutes /\ frames \in 0..MaxFrames

Replicas ==
  /\ pipeline \subseteq Switch
  /\ mcast \in [Edge -> SUBSET (1..5)] /\ mcast["s1"] \subseteq 1..4
  /\ clone \in [Edge -> SUBSET {100, 200}]

MacTables ==
  /\ dMac = [sw \in Edge |-> dMac[sw]]
  /\ \A sw \in Edge :
       /\ \A m \in DOMAIN dMac[sw] : MacPort(sw, m, dMac[sw][m])
       /\ \A m, p : Did(L2(sw, m, p)) => m \in DOMAIN dMac[sw]

RouteTables ==
  /\ lpm = [sw \in Router |-> lpm[sw]] /\ rewrite = [sw \in Router |-> rewrite[sw]]
  /\ \A sw \in Router :
       /\ \A x \in DOMAIN lpm[sw] : RouteTo(sw, x, lpm[sw][x]) /\ installed > L2End
       /\ \A p \in DOMAIN rewrite[sw] : p \in 1..3 /\ rewrite[sw][p] \in InterfaceMacs

IdTables ==
  /\ switchId = [sw \in Switch |-> switchId[sw]]
  /\ \A sw \in Switch :
       /\ switchId[sw] \in {0, NumberOf(sw)}
       /\ Did(Id(sw, NumberOf(sw))) => switchId[sw] = NumberOf(sw)
  /\ marking \in BOOLEAN /\ (marking => Ready)

TablesInv == Counters /\ Replicas /\ MacTables /\ RouteTables /\ IdTables

-----------------------------------------------------------------------------

(* The names of hosts are no other addresses, and no host is in both       *)
(* subnets.                                                                *)
LEMMA Names ==
  /\ Hosts1 \subseteq Host /\ Hosts2 \subseteq Host /\ Host = Hosts1 \cup Hosts2
  /\ \A h \in Hosts1 : h \notin Hosts2
  /\ \A h \in Host : h \notin OtherNames
  /\ \A h \in Host :
       h \notin {"cc21", "cc22", "cc23", "cc31", "cc32", "ctrl", "subnet1", "cnf", "bcast",
                 "controller", "none"}
  BY SubnetAssumption DEF Host, OtherNames

(* A MAC has one port at a switch.                                         *)
LEMMA OnePort ==
  ASSUME NEW sw \in Edge, NEW m, NEW p, NEW q, MacPort(sw, m, p), MacPort(sw, m, q)
  PROVE  p = q
  BY Names DEF MacPort

(* The entries that setup_plugin writes are those the invariant allows.    *)
LEMMA EntriesWritten ==
  /\ \A w \in L2Writes : w.sw \in Edge /\ MacPort(w.sw, w.mac, w.port)
                         /\ w = L2(w.sw, w.mac, w.port)
  /\ \A w \in L3Writes :
       /\ w.sw \in Router
       /\ w.op = "lpm" => RouteTo(w.sw, w.dst, [port |-> w.port, mac |-> w.mac])
       /\ w.op = "rewrite" => w.port \in 1..3 /\ w.mac \in InterfaceMacs
  /\ \A w \in IdWrites : w.id = NumberOf(w.sw)
  /\ \A sw, m, p : MacPort(sw, m, p) => L2(sw, m, p) \in L2Writes
  /\ \A sw \in Switch : Id(sw, NumberOf(sw)) \in IdWrites
<1>1. \A w \in L2Writes : w.sw \in Edge /\ MacPort(w.sw, w.mac, w.port)
                         /\ w = L2(w.sw, w.mac, w.port)
  BY DEF L2Writes, L2, MacPort, Edge
<1>2. \A w \in L3Writes :
       /\ w.sw \in Router
       /\ w.op = "lpm" => RouteTo(w.sw, w.dst, [port |-> w.port, mac |-> w.mac])
       /\ w.op = "rewrite" => w.port \in 1..3 /\ w.mac \in InterfaceMacs
  BY DEF L3Writes, Route, Rewrite, RouteTo, Router, ShortRoute, InterfaceMacs
<1>3. \A w \in IdWrites : w.id = NumberOf(w.sw)
  BY DEF IdWrites, Id, NumberOf
<1>4. \A sw, m, p : MacPort(sw, m, p) => L2(sw, m, p) \in L2Writes
  BY DEF L2Writes, MacPort
<1>5. \A sw \in Switch : Id(sw, NumberOf(sw)) \in IdWrites
  BY Switches DEF IdWrites, NumberOf
<1>. QED  BY <1>1, <1>2, <1>3, <1>4, <1>5

(***************************************************************************)
(* The write that comes next, by its operation: which entry it makes and   *)
(* what has been written before it.                                        *)
(***************************************************************************)
LEMMA WriteAt ==
  ASSUME Counters, ~Ready
  PROVE  /\ installed + 1 \in 1..Len(Setup) /\ L2End \in Nat
         /\ TheWrite.op = "pipeline" => TheWrite.sw \in Switch
         /\ TheWrite.op \in PreOps => TheWrite \in ReplicationWrites
         /\ TheWrite.op = "dMac" => TheWrite \in L2Writes
         /\ TheWrite.op \in {"lpm", "rewrite"} => TheWrite \in L3Writes /\ installed + 1 > L2End
         /\ TheWrite.op = "switchId" => TheWrite \in IdWrites
         /\ TheWrite.op = "marking" => installed + 1 = Len(Setup)
<1> DEFINE i == installed + 1
           x == Setup[i]
<1>1. /\ Len(Setup) \in Nat /\ L2End \in Nat /\ 4 <= L2End /\ L2End < Len(Setup)
      /\ i \in 1..Len(Setup) /\ TheWrite = x
  <2>1. Len(Setup) \in Nat /\ L2End \in Nat /\ 4 <= L2End /\ L2End < Len(Setup)
    BY SetupParts
  <2>2. installed \in 0..Len(Setup) /\ installed # Len(Setup)
    BY DEF Counters, Ready
  <2>. QED  BY <2>1, <2>2 DEF TheWrite
<1>2. x.sw \in Switch
  BY <1>1, SetupOrder
<1>3. CASE i <= 4
  <2>1. x.op = "pipeline"
    BY <1>1, <1>3, SetupOrder
  <2>. QED  BY <1>1, <1>2, <2>1 DEF PreOps
<1>4. CASE i \in 5..L2End
  <2>1. x \in ReplicationWrites \cup L2Writes
    BY <1>4, SetupParts
  <2>2. x \in ReplicationWrites => x.op \in PreOps
    BY WriteKinds
  <2>3. x \in L2Writes => x.op = "dMac"
    BY WriteKinds
  <2> HIDE DEF x
  <2>. QED  BY <1>1, <1>2, <2>1, <2>2, <2>3 DEF PreOps
<1>5. CASE i \in (L2End + 1)..(Len(Setup) - 1)
  <2>1. x \in L3Writes \cup IdWrites
    BY <1>5, SetupParts
  <2>2. x \in L3Writes => x.op \in {"lpm", "rewrite"}
    BY WriteKinds
  <2>3. x \in IdWrites => x.op = "switchId"
    BY WriteKinds
  <2>4. i > L2End
    BY <1>1, <1>5
  <2> HIDE DEF x
  <2>. QED  BY <1>1, <1>2, <2>1, <2>2, <2>3, <2>4 DEF PreOps
<1>6. CASE i = Len(Setup)
  <2>1. x.op = "marking"
    BY <1>6, SetupParts, WriteKinds
  <2> HIDE DEF x
  <2>. QED  BY <1>1, <1>2, <1>6, <2>1 DEF PreOps
<1>7. i <= 4 \/ i \in 5..L2End \/ i \in (L2End + 1)..(Len(Setup) - 1) \/ i = Len(Setup)
  BY <1>1
<1>. QED  BY <1>3, <1>4, <1>5, <1>6, <1>7

(* How far setup is, one write later.                                      *)
LEMMA OneWrite ==
  ASSUME NEW op, Counters, Write(op)
  PROVE  /\ ~Ready /\ TheWrite.op = op /\ Counters'
         /\ installed' = installed + 1 /\ installed \in Nat
         /\ \A w : Did(w)' <=> Did(w) \/ TheWrite = w
<1>1. ~Ready /\ TheWrite.op = op /\ installed' = installed + 1
      /\ reroutes' = reroutes /\ frames' = frames
  BY DEF Write, TheWrite
<1>2. installed \in 0..Len(Setup) /\ Len(Setup) \in Nat /\ installed # Len(Setup)
  BY <1>1, SetupParts DEF Counters, Ready
<1>3. Counters'
  BY <1>1, <1>2 DEF Counters
<1>4. 1..installed' = 1..installed \cup {installed + 1}
  BY <1>1, <1>2
<1>5. \A w : Did(w)' <=> Did(w) \/ TheWrite = w
  BY <1>4 DEF Did, TheWrite
<1>. QED  BY <1>1, <1>2, <1>3, <1>5

(* Another table's write leaves the MAC tables as good as they were.       *)
LEMMA SameMacTables ==
  ASSUME MacTables, UNCHANGED dMac, \A sw, m, p : Did(L2(sw, m, p))' => Did(L2(sw, m, p))
  PROVE  MacTables'
  BY DEF MacTables

(* A step that leaves the routes alone keeps what is true of them.         *)
LEMMA SameRouteTables ==
  ASSUME RouteTables, UNCHANGED <<lpm, rewrite>>, Counters, Counters', installed' >= installed
  PROVE  RouteTables'
<1>1. installed \in Nat /\ installed' \in Nat /\ L2End \in Nat
  BY SetupParts DEF Counters
<1>2. installed > L2End => installed' > L2End
  BY <1>1
<1>. QED  BY <1>2 DEF RouteTables

(* The same for the switch ids and s1's marking rule.                      *)
LEMMA SameIdTables ==
  ASSUME IdTables, UNCHANGED <<switchId, marking>>, Ready => Ready',
         \A sw, n : Did(Id(sw, n))' => Did(Id(sw, n))
  PROVE  IdTables'
  BY DEF IdTables

(***************************************************************************)
(* Each of setup_plugin's writes makes the entry that the invariant says.  *)
(***************************************************************************)
LEMMA SetupTables ==
  ASSUME TablesInv, SetupStep
  PROVE  TablesInv'
<1>1. Counters /\ Replicas /\ MacTables /\ RouteTables /\ IdTables
  BY DEF TablesInv
<1>2. ASSUME NEW op, Write(op)
      PROVE  /\ Counters' /\ installed' >= installed /\ (Ready => Ready')
             /\ op # "dMac" => \A sw, m, p : Did(L2(sw, m, p))' => Did(L2(sw, m, p))
             /\ op # "switchId" => \A sw, n : Did(Id(sw, n))' => Did(Id(sw, n))
  <2>1. /\ ~Ready /\ TheWrite.op = op /\ Counters'
        /\ installed' = installed + 1 /\ installed \in Nat
        /\ \A w : Did(w)' <=> Did(w) \/ TheWrite = w
    BY <1>1, <1>2, OneWrite
  <2>2. \A sw, m, p : L2(sw, m, p).op = "dMac"
    BY DEF L2
  <2>3. \A sw, n : Id(sw, n).op = "switchId"
    BY DEF Id
  <2>. QED  BY <2>1, <2>2, <2>3
<1>3. CASE PushPipeline
  <2>1. Write("pipeline") /\ pipeline' = pipeline \cup {TheWrite.sw}
        /\ UNCHANGED <<mcast, clone, dMac, lpm, rewrite, switchId, marking>>
    BY <1>3 DEF PushPipeline
  <2>2. TheWrite.sw \in Switch
    BY <1>1, <2>1, OneWrite, WriteAt
  <2>3. Replicas'
    BY <1>1, <2>1, <2>2 DEF Replicas
  <2>. QED  BY <1>1, <1>2, <2>1, <2>3, SameMacTables, SameRouteTables, SameIdTables DEF TablesInv
<1>4. CASE InstallMulticastGroup
  <2>1. Write("mcast") /\ mcast' = [mcast EXCEPT ![TheWrite.sw] = TheWrite.ports]
        /\ UNCHANGED <<pipeline, clone, dMac, lpm, rewrite, switchId, marking>>
    BY <1>4 DEF InstallMulticastGroup
  <2>2. TheWrite \in ReplicationWrites /\ TheWrite.op = "mcast"
    BY <1>1, <2>1, OneWrite, WriteAt DEF PreOps
  <2>3. \/ TheWrite.sw = "s1" /\ TheWrite.ports = 1..4
        \/ TheWrite.sw = "s4" /\ TheWrite.ports = 1..5
    BY <2>2 DEF ReplicationWrites, Group, Session
  <2>4. Replicas'
    BY <1>1, <2>1, <2>3 DEF Replicas, Edge
  <2>. QED  BY <1>1, <1>2, <2>1, <2>4, SameMacTables, SameRouteTables, SameIdTables DEF TablesInv
<1>5. CASE InstallCloneSession
  <2>1. Write("clone") /\ clone' = [clone EXCEPT ![TheWrite.sw] = @ \cup {TheWrite.session}]
        /\ UNCHANGED <<pipeline, mcast, dMac, lpm, rewrite, switchId, marking>>
    BY <1>5 DEF InstallCloneSession
  <2>2. TheWrite \in ReplicationWrites /\ TheWrite.op = "clone"
    BY <1>1, <2>1, OneWrite, WriteAt DEF PreOps
  <2>3. TheWrite.sw \in Edge /\ TheWrite.session \in {100, 200}
    BY <2>2 DEF ReplicationWrites, Group, Session, Edge
  <2>4. Replicas'
    BY <1>1, <2>1, <2>3 DEF Replicas
  <2>. QED  BY <1>1, <1>2, <2>1, <2>4, SameMacTables, SameRouteTables, SameIdTables DEF TablesInv
<1>6. CASE InstallL2Rule
  <2> DEFINE x == TheWrite
             s == x.sw
  <2>1. /\ Write("dMac") /\ dMac' = [dMac EXCEPT ![s] = With(@, x.mac, x.port)]
        /\ UNCHANGED <<pipeline, mcast, clone, lpm, rewrite, switchId, marking>>
    BY <1>6 DEF InstallL2Rule
  <2>2. x \in L2Writes
    BY <1>1, <2>1, OneWrite, WriteAt
  <2>3. s \in Edge /\ MacPort(s, x.mac, x.port) /\ x = L2(s, x.mac, x.port)
    BY <2>2, EntriesWritten
  <2>4. \A w : Did(w)' <=> Did(w) \/ x = w
    BY <1>1, <2>1, OneWrite
  <2> HIDE DEF x
  <2>5. \A sw \in Edge : dMac'[sw] = IF sw = s THEN With(dMac[sw], x.mac, x.port) ELSE dMac[sw]
    BY <1>1, <2>1, <2>3 DEF MacTables
  <2>6. dMac' = [sw \in Edge |-> dMac'[sw]]
    BY <1>1, <2>1 DEF MacTables
  <2>7. /\ DOMAIN dMac'[s] = DOMAIN dMac[s] \cup {x.mac}
        /\ \A m \in DOMAIN dMac'[s] : dMac'[s][m] = IF m = x.mac THEN x.port ELSE dMac[s][m]
    BY <2>3, <2>5 DEF With
  <2>8. ASSUME NEW sw \in Edge, NEW m, NEW p, Did(L2(sw, m, p))'
        PROVE  m \in DOMAIN dMac'[sw]
    <3>1. Did(L2(sw, m, p)) \/ x = L2(sw, m, p)
      BY <2>4, <2>8
    <3>2. x = L2(sw, m, p) => sw = s /\ m = x.mac
      BY DEF L2
    <3>. QED  BY <1>1, <2>5, <2>7, <3>1, <3>2 DEF MacTables
  <2>9. ASSUME NEW sw \in Edge, NEW m \in DOMAIN dMac'[sw]
        PROVE  MacPort(sw, m, dMac'[sw][m])
    BY <1>1, <2>3, <2>5, <2>7 DEF MacTables
  <2>10. MacTables'
    BY <2>6, <2>8, <2>9 DEF MacTables
  <2>11. Replicas'
    BY <1>1, <2>1 DEF Replicas
  <2>. QED  BY <1>1, <1>2, <2>1, <2>10, <2>11, SameRouteTables, SameIdTables DEF TablesInv
<1>7. CASE InstallRoute
  <2> DEFINE x == TheWrite
             s == x.sw
             r == [port |-> x.port, mac |-> x.mac]
  <2>1. /\ Write("lpm") /\ lpm' = [lpm EXCEPT ![s] = With(@, x.dst, r)]
        /\ UNCHANGED <<pipeline, mcast, clone, dMac, rewrite, switchId, marking>>
    BY <1>7 DEF InstallRoute
  <2>2. x \in L3Writes /\ installed + 1 > L2End /\ x.op = "lpm"
    BY <1>1, <2>1, OneWrite, WriteAt
  <2>3. s \in Router /\ RouteTo(s, x.dst, r)
    BY <2>2, EntriesWritten
  <2>4. installed' = installed + 1 /\ installed \in Nat /\ L2End \in Nat
    BY <1>1, <2>1, OneWrite, SetupParts
  <2>5. installed' > L2End
    BY <2>2, <2>4
  <2> HIDE DEF x, r
  <2>6. \A sw \in Router : lpm'[sw] = IF sw = s THEN With(lpm[sw], x.dst, r) ELSE lpm[sw]
    BY <1>1, <2>1, <2>3 DEF RouteTables
  <2>7. lpm' = [sw \in Router |-> lpm'[sw]]
    BY <1>1, <2>1 DEF RouteTables
  <2>8. /\ DOMAIN lpm'[s] = DOMAIN lpm[s] \cup {x.dst}
        /\ \A y \in DOMAIN lpm'[s] : lpm'[s][y] = IF y = x.dst THEN r ELSE lpm[s][y]
    BY <2>3, <2>6 DEF With
  <2>9. ASSUME NEW sw \in Router, NEW y \in DOMAIN lpm'[sw]
        PROVE  RouteTo(sw, y, lpm'[sw][y])
    BY <1>1, <2>3, <2>6, <2>8 DEF RouteTables
  <2>10. RouteTables'
    BY <1>1, <2>1, <2>5, <2>7, <2>9 DEF RouteTables
  <2>11. Replicas'
    BY <1>1, <2>1 DEF Replicas
  <2>. QED  BY <1>1, <1>2, <2>1, <2>10, <2>11, SameMacTables, SameIdTables DEF TablesInv
<1>8. CASE InstallMacRewrite
  <2> DEFINE x == TheWrite
             s == x.sw
  <2>1. /\ Write("rewrite") /\ rewrite' = [rewrite EXCEPT ![s] = With(@, x.port, x.mac)]
        /\ UNCHANGED <<pipeline, mcast, clone, dMac, lpm, switchId, marking>>
    BY <1>8 DEF InstallMacRewrite
  <2>2. x \in L3Writes /\ x.op = "rewrite"
    BY <1>1, <2>1, OneWrite, WriteAt
  <2>3. s \in Router /\ x.port \in 1..3 /\ x.mac \in InterfaceMacs
    BY <2>2, EntriesWritten
  <2>4. installed' = installed + 1 /\ installed \in Nat /\ L2End \in Nat
    BY <1>1, <2>1, OneWrite, SetupParts
  <2>5. installed > L2End => installed' > L2End
    BY <2>4
  <2> HIDE DEF x
  <2>6. \A sw \in Router :
          rewrite'[sw] = IF sw = s THEN With(rewrite[sw], x.port, x.mac) ELSE rewrite[sw]
    BY <1>1, <2>1, <2>3 DEF RouteTables
  <2>7. rewrite' = [sw \in Router |-> rewrite'[sw]]
    BY <1>1, <2>1 DEF RouteTables
  <2>8. /\ DOMAIN rewrite'[s] = DOMAIN rewrite[s] \cup {x.port}
        /\ \A p \in DOMAIN rewrite'[s] :
             rewrite'[s][p] = IF p = x.port THEN x.mac ELSE rewrite[s][p]
    BY <2>3, <2>6 DEF With
  <2>9. ASSUME NEW sw \in Router, NEW p \in DOMAIN rewrite'[sw]
        PROVE  p \in 1..3 /\ rewrite'[sw][p] \in InterfaceMacs
    BY <1>1, <2>3, <2>6, <2>8 DEF RouteTables
  <2>10. RouteTables'
    BY <1>1, <2>1, <2>5, <2>7, <2>9 DEF RouteTables
  <2>11. Replicas'
    BY <1>1, <2>1 DEF Replicas
  <2>. QED  BY <1>1, <1>2, <2>1, <2>10, <2>11, SameMacTables, SameIdTables DEF TablesInv
<1>9. CASE InstallSwitchId
  <2> DEFINE x == TheWrite
             s == x.sw
  <2>1. /\ Write("switchId") /\ switchId' = [switchId EXCEPT ![s] = x.id]
        /\ UNCHANGED <<pipeline, mcast, clone, dMac, lpm, rewrite, marking>>
    BY <1>9 DEF InstallSwitchId
  <2>2. x \in IdWrites /\ ~Ready
    BY <1>1, <2>1, OneWrite, WriteAt
  <2>3. s \in Switch /\ x.id = NumberOf(s)
    BY <2>2, EntriesWritten, WriteKinds
  <2>4. \A w : Did(w)' <=> Did(w) \/ x = w
    BY <1>1, <2>1, OneWrite
  <2> HIDE DEF x
  <2>5. \A sw \in Switch : switchId'[sw] = IF sw = s THEN NumberOf(s) ELSE switchId[sw]
    BY <1>1, <2>1, <2>3 DEF IdTables
  <2>6. switchId' = [sw \in Switch |-> switchId'[sw]]
    BY <1>1, <2>1 DEF IdTables
  <2>7. ASSUME NEW sw \in Switch, Did(Id(sw, NumberOf(sw)))'
        PROVE  switchId'[sw] = NumberOf(sw)
    <3>1. Did(Id(sw, NumberOf(sw))) \/ x = Id(sw, NumberOf(sw))
      BY <2>4, <2>7
    <3>2. x = Id(sw, NumberOf(sw)) => sw = s
      BY DEF Id
    <3>. QED  BY <1>1, <2>5, <3>1, <3>2 DEF IdTables
  <2>8. \A sw \in Switch : switchId'[sw] \in {0, NumberOf(sw)}
    BY <1>1, <2>5 DEF IdTables
  <2>9. marking' \in BOOLEAN /\ ~marking'
    BY <1>1, <2>1, <2>2 DEF IdTables
  <2>10. IdTables'
    BY <2>6, <2>7, <2>8, <2>9 DEF IdTables
  <2>11. Replicas'
    BY <1>1, <2>1 DEF Replicas
  <2>. QED  BY <1>1, <1>2, <2>1, <2>10, <2>11, SameMacTables, SameRouteTables DEF TablesInv
<1>10. CASE InstallIntMarking
  <2>1. /\ Write("marking") /\ marking' = TRUE
        /\ UNCHANGED <<pipeline, mcast, clone, dMac, lpm, rewrite, switchId>>
    BY <1>10 DEF InstallIntMarking
  <2>2. installed' = Len(Setup)
    BY <1>1, <2>1, OneWrite, WriteAt
  <2>3. \A sw, n : Did(Id(sw, n))' => Did(Id(sw, n))
    BY <1>2, <2>1
  <2>4. IdTables'
    BY <1>1, <2>1, <2>2, <2>3 DEF IdTables, Ready
  <2>5. Replicas'
    BY <1>1, <2>1 DEF Replicas
  <2>. QED  BY <1>1, <1>2, <2>1, <2>4, <2>5, SameMacTables, SameRouteTables DEF TablesInv
<1>. QED
  BY <1>3, <1>4, <1>5, <1>6, <1>7, <1>8, <1>9, <1>10 DEF SetupStep

(* A reroute replaces one route to a subnet-2 host by the other.           *)
LEMMA RerouteTables ==
  ASSUME TablesInv, NEW h \in Hosts2, Reroute(h)
  PROVE  TablesInv'
<1>1. Counters /\ Replicas /\ MacTables /\ RouteTables /\ IdTables
  BY DEF TablesInv
<1> DEFINE r == IF lpm["s2"][h] = ShortRoute(h) THEN LongRoute(h) ELSE ShortRoute(h)
<1>2. /\ reroutes < MaxReroutes /\ reroutes' = reroutes + 1
      /\ lpm' = [lpm EXCEPT !["s2"][h] = r]
      /\ UNCHANGED <<installed, pipeline, mcast, clone, dMac, rewrite, switchId, marking, frames>>
  BY DEF Reroute, traffic
<1>3. Counters'
  BY <1>1, <1>2, DataPlaneAssumption DEF Counters
<1>4. /\ \A w : Did(w)' <=> Did(w)
      /\ Ready' <=> Ready
  BY <1>2 DEF Did, Ready
<1>5. RouteTo("s2", h, r)
  BY DEF RouteTo
<1> HIDE DEF r
<1>6. lpm' = [sw \in Router |-> lpm'[sw]]
  BY <1>1, <1>2 DEF RouteTables
<1>7. ASSUME NEW sw \in Router, NEW y \in DOMAIN lpm'[sw]
      PROVE  RouteTo(sw, y, lpm'[sw][y]) /\ installed' > L2End
  <2>1. CASE sw # "s2"
    <3>1. lpm'[sw] = lpm[sw]
      BY <1>1, <1>2, <2>1 DEF RouteTables
    <3>. QED  BY <1>1, <1>2, <3>1 DEF RouteTables
  <2>2. CASE sw = "s2"
    <3>1. lpm'[sw] = [lpm["s2"] EXCEPT ![h] = r]
      BY <1>1, <1>2, <2>2 DEF RouteTables
    <3>2. y \in DOMAIN lpm[sw] /\ lpm'[sw][y] = IF y = h THEN r ELSE lpm[sw][y]
      BY <2>2, <3>1
    <3>. QED  BY <1>1, <1>2, <1>5, <2>2, <3>2 DEF RouteTables
  <2>. QED  BY <2>1, <2>2
<1>8. RouteTables'
  BY <1>1, <1>2, <1>6, <1>7 DEF RouteTables
<1>9. Replicas' /\ MacTables' /\ IdTables'
  BY <1>1, <1>2, <1>4 DEF Replicas, MacTables, IdTables
<1>. QED  BY <1>3, <1>8, <1>9 DEF TablesInv

(* Traffic leaves the tables alone.                                        *)
LEMMA SameTables ==
  ASSUME TablesInv, UNCHANGED <<installed, tables, reroutes>>, frames' \in 0..MaxFrames
  PROVE  TablesInv'
<1>1. /\ \A w : Did(w)' <=> Did(w)
      /\ Ready' <=> Ready
  BY DEF Did, Ready
<1>2. UNCHANGED <<installed, reroutes, pipeline, mcast, clone, dMac, lpm, rewrite,
                  switchId, marking>>
  BY DEF tables
<1>3. Counters' /\ Replicas' /\ RouteTables'
  BY <1>2 DEF TablesInv, Counters, Replicas, RouteTables
<1>4. MacTables' /\ IdTables'
  BY <1>1, <1>2 DEF TablesInv, MacTables, IdTables
<1>. QED  BY <1>3, <1>4 DEF TablesInv

-----------------------------------------------------------------------------
(***************************************************************************)
(* The ways on which a frame may come to a switch: what it has passed, the *)
(* empty way from the wire of its sender.                                  *)
(***************************************************************************)

Trails == Seq(Switch \X Ports)

T1 == <<<<"s1", 4>>>>
T4 == <<<<"s4", 4>>>>
T5 == <<<<"s4", 5>>>>
WaysToS2 == {T1, T4, Append(T5, <<"s3", 1>>)}
WaysToS3 == {T5, Append(T1, <<"s2", 2>>), Append(T4, <<"s2", 2>>)}
WaysToS1 == {<<>>} \cup {Append(t, <<"s2", 1>>) : t \in WaysToS2}
WaysToS4 ==
  {<<>>} \cup {Append(t, <<"s2", 3>>) : t \in {T1, T4}}
    \cup {Append(t, <<"s3", 2>>) : t \in WaysToS3}
Ways(sw) == CASE sw = "s1" -> WaysToS1 [] sw = "s2" -> WaysToS2
              [] sw = "s3" -> WaysToS3 [] sw = "s4" -> WaysToS4

(* The INT stack that tells a trail.                                       *)
HopOf(x) == [switch |-> NumberOf(x[1]), port |-> x[2]]
HopsOf(t) == [i \in DOMAIN t |-> HopOf(t[i])]

(* t has passed sw at most once.                                           *)
Once(t, sw) == \A i, j \in DOMAIN t : t[i][1] = sw /\ t[j][1] = sw => i = j

(* A trail one switch longer.                                              *)
LEMMA LongerTrail ==
  ASSUME NEW t \in Trails, NEW sw \in Switch, NEW p \in Ports
  PROVE  LET u == Append(t, <<sw, p>>)
         IN  /\ u \in Trails /\ Len(u) = Len(t) + 1 /\ u # <<>> /\ Len(t) \in Nat
             /\ DOMAIN u = 1..Len(t) + 1 /\ DOMAIN t = 1..Len(t)
             /\ \A i \in DOMAIN t : u[i] = t[i]
             /\ u[Len(t) + 1] = <<sw, p>>
             /\ t # <<>> => u[1] = t[1]
             /\ t # <<>> => u \notin {T1, T4, T5}
<1> DEFINE u == Append(t, <<sw, p>>)
<1>1. /\ u \in Trails /\ Len(u) = Len(t) + 1 /\ Len(t) \in Nat
      /\ DOMAIN u = 1..Len(t) + 1 /\ DOMAIN t = 1..Len(t)
      /\ \A i \in DOMAIN t : u[i] = t[i]
      /\ u[Len(t) + 1] = <<sw, p>>
  BY DEF Trails
<1>2. t # <<>> => Len(t) # 0
  BY DEF Trails
<1>3. Len(T1) = 1 /\ Len(T4) = 1 /\ Len(T5) = 1
  BY DEF T1, T4, T5
<1> HIDE DEF u
<1>4. u # <<>>
  BY <1>1
<1>5. t # <<>> => u[1] = t[1]
  BY <1>1, <1>2
<1>6. t # <<>> => Len(u) # 1
  BY <1>1, <1>2
<1>7. t # <<>> => u \notin {T1, T4, T5}
  BY <1>3, <1>6
<1>. QED  BY <1>1, <1>4, <1>5, <1>7 DEF u

(* The first step of a frame.                                              *)
LEMMA FirstTrail ==
  /\ T1 = Append(<<>>, <<"s1", 4>>) /\ T4 = Append(<<>>, <<"s4", 4>>)
  /\ T5 = Append(<<>>, <<"s4", 5>>)
  /\ \A t \in {T1, T4, T5} : t \in Trails /\ Len(t) = 1 /\ t # <<>> /\ DOMAIN t = {1}
  /\ T1[1] = <<"s1", 4>> /\ T4[1] = <<"s4", 4>> /\ T5[1] = <<"s4", 5>>
  /\ T1 # T4 /\ T1 # T5 /\ T4 # T5 /\ <<>> \in Trails
<1>1. T1 = Append(<<>>, <<"s1", 4>>) /\ T4 = Append(<<>>, <<"s4", 4>>)
      /\ T5 = Append(<<>>, <<"s4", 5>>)
  BY DEF T1, T4, T5
<1>2. \A t \in {T1, T4, T5} : t \in Trails /\ Len(t) = 1 /\ t # <<>> /\ DOMAIN t = {1}
  BY Switches DEF T1, T4, T5, Trails, Ports
<1>3. T1[1] = <<"s1", 4>> /\ T4[1] = <<"s4", 4>> /\ T5[1] = <<"s4", 5>>
  BY DEF T1, T4, T5
<1>4. T1 # T4 /\ T1 # T5 /\ T4 # T5
  <2>1. T1[1] # T4[1] /\ T1[1] # T5[1] /\ T4[1] # T5[1]
    BY <1>3
  <2>. QED  BY <2>1
<1>5. <<>> \in Trails
  BY DEF Trails
<1>. QED  BY <1>1, <1>2, <1>3, <1>4, <1>5

(* A function on 1..n is a sequence of length n.                           *)
LEMMA FunctionSeq ==
  ASSUME NEW S, NEW n \in Nat, NEW f \in [1..n -> S]
  PROVE  f \in Seq(S) /\ Len(f) = n
  OBVIOUS

(* The trail that a switch makes longer has the stack of the switch's hop. *)
LEMMA LongerStack ==
  ASSUME NEW t \in Trails, NEW sw \in Switch, NEW p \in Ports
  PROVE  /\ HopsOf(t) \in Hops /\ Len(HopsOf(t)) = Len(t) /\ Len(t) \in Nat
         /\ HopsOf(Append(t, <<sw, p>>)) =
              Append(HopsOf(t), [switch |-> NumberOf(sw), port |-> p])
<1> DEFINE u == Append(t, <<sw, p>>)
           n == [switch |-> NumberOf(sw), port |-> p]
           k == Len(t)
           h == HopsOf(t)
<1>1. /\ u \in Trails /\ Len(u) = k + 1 /\ k \in Nat
      /\ DOMAIN u = 1..k + 1 /\ DOMAIN t = 1..k
      /\ \A i \in DOMAIN t : u[i] = t[i]
      /\ u[k + 1] = <<sw, p>>
  BY LongerTrail
<1>2. \A s \in Switch : NumberOf(s) \in 0..4
  BY Switches DEF NumberOf
<1>3. \A i \in 1..k : t[i] \in Switch \X Ports
  BY <1>1 DEF Trails
<1>4. \A i \in 1..k : HopOf(t[i]) \in [switch : 0..4, port : Ports]
  BY <1>2, <1>3 DEF HopOf
<1>5. h \in [1..k -> [switch : 0..4, port : Ports]]
  BY <1>1, <1>4 DEF HopsOf
<1>6. \A i \in 1..k : h[i] = HopOf(t[i])
  BY <1>1 DEF HopsOf
<1>7. n \in [switch : 0..4, port : Ports]
  BY <1>2
<1>8. HopOf(<<sw, p>>) = n
  BY DEF HopOf
<1>9. HopsOf(u) = [i \in 1..k + 1 |-> HopOf(u[i])]
  BY <1>1 DEF HopsOf
<1> HIDE DEF n, u, h, k
<1>10. h \in Hops /\ Len(h) = k
  <2>1. k \in Nat
    BY <1>1
  <2>. QED  BY <1>5, <2>1, FunctionSeq DEF Hops
<1> DEFINE a == Append(h, n)
<1>11. /\ a \in Seq([switch : 0..4, port : Ports]) /\ Len(a) = k + 1
       /\ \A i \in 1..k : a[i] = h[i]
       /\ a[k + 1] = n
  BY <1>1, <1>7, <1>10 DEF Hops
<1> HIDE DEF a
<1>12. a = [i \in 1..k + 1 |-> a[i]]
  BY <1>11
<1>13. ASSUME NEW i \in 1..k + 1 PROVE HopOf(u[i]) = a[i]
  <2>1. CASE i \in 1..k
    BY <1>1, <1>6, <1>11, <2>1
  <2>2. CASE i = k + 1
    BY <1>1, <1>8, <1>11, <2>2
  <2>. QED  BY <1>1, <2>1, <2>2
<1>14. HopsOf(u) = [i \in 1..k + 1 |-> a[i]]
  BY <1>9, <1>13
<1>15. HopsOf(u) = Append(h, n)
  BY <1>12, <1>14 DEF a
<1>. QED  BY <1>1, <1>10, <1>15 DEF u, n, h, k

(* A step from sw to another switch goes on with a way on which sw is      *)
(* still passed at most once, and no switch that the way had not passed    *)
(* is passed.                                                              *)
LEMMA OneStep ==
  ASSUME NEW t \in Trails, NEW sw \in Switch, NEW p \in Ports, NEW at
  PROVE  LET u == Append(t, <<sw, p>>)
         IN  /\ at # sw /\ Once(t, at) => Once(u, at)
             /\ at # sw /\ (\A i \in DOMAIN t : t[i][1] # at) =>
                  \A i \in DOMAIN u : u[i][1] # at
<1> DEFINE u == Append(t, <<sw, p>>)
           k == Len(t)
<1>1. /\ k \in Nat /\ DOMAIN u = 1..k + 1 /\ DOMAIN t = 1..k
      /\ \A i \in DOMAIN t : u[i] = t[i]
      /\ u[k + 1] = <<sw, p>>
  BY LongerTrail
<1>2. u[k + 1][1] = sw
  BY <1>1
<1> HIDE DEF u, k
<1>3. \A i \in DOMAIN u : i = k + 1 \/ i \in DOMAIN t
  BY <1>1
<1>4. at # sw => \A i \in DOMAIN u : u[i][1] = at => i \in DOMAIN t /\ t[i][1] = at
  BY <1>1, <1>2, <1>3
<1>. QED  BY <1>4 DEF Once, u

(* What each way is like.                                                  *)
LEMMA WayShapes ==
  /\ \A sw \in Switch : \A t \in Ways(sw) : t \in Trails /\ Len(t) \in 0..3 /\ Once(t, sw)
  /\ \A sw \in Router : \A t \in Ways(sw) :
       t # <<>> /\ Len(t) \in 1..2 /\ \A i \in DOMAIN t : t[i][1] # sw
  /\ \A t \in WaysToS1 : t # <<>> /\ t[1] = <<"s4", 4>> => \A i \in DOMAIN t : t[i][1] # "s1"
  /\ \A t \in WaysToS4 : t # <<>> /\ t[1] = <<"s1", 4>> => \A i \in DOMAIN t : t[i][1] # "s4"
<1> DEFINE Clean(t, sw) == \A i \in DOMAIN t : t[i][1] # sw
           Fine(t, sw) == t \in Trails /\ t # <<>> /\ Once(t, sw)
           Go(t, sw, p) == Append(t, <<sw, p>>)
           t53 == Go(T5, "s3", 1)
           t12 == Go(T1, "s2", 2)
           t42 == Go(T4, "s2", 2)
<1>1. \A t, sw : Clean(t, sw) => Once(t, sw)
  BY DEF Once
<1>2. /\ T1 \in Trails /\ Len(T1) = 1 /\ T1 # <<>> /\ Once(T1, "s1") /\ Once(T1, "s4")
      /\ T4 \in Trails /\ Len(T4) = 1 /\ T4 # <<>> /\ Once(T4, "s1") /\ Once(T4, "s4")
      /\ T5 \in Trails /\ Len(T5) = 1 /\ T5 # <<>> /\ Once(T5, "s1") /\ Once(T5, "s4")
      /\ Clean(T1, "s2") /\ Clean(T1, "s3") /\ Clean(T1, "s4")
      /\ Clean(T4, "s1") /\ Clean(T4, "s2") /\ Clean(T4, "s3")
      /\ Clean(T5, "s1") /\ Clean(T5, "s2") /\ Clean(T5, "s3")
  BY FirstTrail DEF Once
<1> DEFINE Goes(t, sw, p) ==
             /\ Go(t, sw, p) \in Trails /\ Go(t, sw, p) # <<>>
             /\ Len(Go(t, sw, p)) = Len(t) + 1
             /\ t # <<>> => Go(t, sw, p)[1] = t[1]
             /\ \A at : at # sw /\ Clean(t, at) => Clean(Go(t, sw, p), at)
             /\ \A at : at # sw /\ Once(t, at) => Once(Go(t, sw, p), at)
<1>3. ASSUME NEW t \in Trails, NEW sw \in Switch, NEW p \in 1..3
      PROVE  Goes(t, sw, p)
  <2>1. p \in Ports
    BY DEF Ports
  <2>2. LET u == Append(t, <<sw, p>>)
        IN  /\ u \in Trails /\ Len(u) = Len(t) + 1 /\ u # <<>>
            /\ t # <<>> => u[1] = t[1]
    BY <2>1, LongerTrail
  <2>3. ASSUME NEW at
        PROVE  LET u == Append(t, <<sw, p>>)
               IN  /\ at # sw /\ Once(t, at) => Once(u, at)
                   /\ at # sw /\ (\A i \in DOMAIN t : t[i][1] # at) =>
                        \A i \in DOMAIN u : u[i][1] # at
    BY <2>1, OneStep
  <2>. QED  BY <2>2, <2>3
<1> HIDE DEF Goes
<1>4. Goes(T5, "s3", 1) /\ Goes(T1, "s2", 2) /\ Goes(T4, "s2", 2)
  BY <1>2, <1>3, Switches
<1> HIDE DEF Clean, Go
<1>5. /\ t53 \in Trails /\ t53 # <<>> /\ Len(t53) = 2 /\ t53[1] = <<"s4", 5>>
      /\ Clean(t53, "s1") /\ Clean(t53, "s2")
      /\ t12 \in Trails /\ t12 # <<>> /\ Len(t12) = 2 /\ t12[1] = <<"s1", 4>>
      /\ Clean(t12, "s3") /\ Clean(t12, "s4")
      /\ t42 \in Trails /\ t42 # <<>> /\ Len(t42) = 2 /\ t42[1] = <<"s4", 4>>
      /\ Clean(t42, "s3") /\ Once(t42, "s4")
  BY <1>2, <1>4, FirstTrail DEF Goes
<1> HIDE DEF t53, t12, t42
<1>7. Ways("s2") = {T1, T4, t53} /\ Ways("s3") = {T5, t12, t42}
  BY DEF Ways, WaysToS2, WaysToS3, t53, t12, t42, Go
<1>8. \A t \in Ways("s2") : t \in Trails /\ Len(t) \in 1..2 /\ t # <<>> /\ Clean(t, "s2")
  BY <1>2, <1>5, <1>7
<1>9. \A t \in Ways("s3") : t \in Trails /\ Len(t) \in 1..2 /\ t # <<>> /\ Clean(t, "s3")
  BY <1>2, <1>5, <1>7
<1>10. Ways("s1") = {<<>>} \cup {Go(T1, "s2", 1), Go(T4, "s2", 1), Go(t53, "s2", 1)}
  BY DEF Ways, WaysToS1, WaysToS2, t53, Go
<1>11. Ways("s4") = {<<>>} \cup {Go(T1, "s2", 3), Go(T4, "s2", 3)}
                      \cup {Go(T5, "s3", 2), Go(t12, "s3", 2), Go(t42, "s3", 2)}
  BY DEF Ways, WaysToS4, WaysToS3, t12, t42, Go
<1>12. <<>> \in Trails /\ Len(<<>>) = 0 /\ Clean(<<>>, "s1") /\ Clean(<<>>, "s4")
  BY DEF Trails, Clean
<1>22. /\ Goes(T1, "s2", 1) /\ Goes(T4, "s2", 1) /\ Goes(t53, "s2", 1)
       /\ Goes(T1, "s2", 3) /\ Goes(T4, "s2", 3)
       /\ Goes(T5, "s3", 2) /\ Goes(t12, "s3", 2) /\ Goes(t42, "s3", 2)
  BY <1>2, <1>3, <1>5, Switches
<1>13. \A t \in {Go(T1, "s2", 1), Go(T4, "s2", 1), Go(t53, "s2", 1)} :
         t \in Trails /\ Len(t) \in 0..3 /\ Once(t, "s1")
  <2>1. Go(T1, "s2", 1) \in Trails /\ Len(Go(T1, "s2", 1)) = 2 /\ Once(Go(T1, "s2", 1), "s1")
    BY <1>2, <1>22 DEF Goes
  <2>2. Go(T4, "s2", 1) \in Trails /\ Len(Go(T4, "s2", 1)) = 2 /\ Once(Go(T4, "s2", 1), "s1")
    BY <1>2, <1>22 DEF Goes
  <2>3. Go(t53, "s2", 1) \in Trails /\ Len(Go(t53, "s2", 1)) = 3 /\ Once(Go(t53, "s2", 1), "s1")
    BY <1>1, <1>5, <1>22 DEF Goes
  <2>. QED  BY <2>1, <2>2, <2>3
<1>14. /\ Go(T1, "s2", 1)[1] = <<"s1", 4>> /\ Go(t53, "s2", 1)[1] = <<"s4", 5>>
       /\ Clean(Go(T4, "s2", 1), "s1")
  BY <1>2, <1>5, <1>22, FirstTrail DEF Goes
<1>15. \A t \in {Go(T1, "s2", 3), Go(T4, "s2", 3), Go(T5, "s3", 2), Go(t12, "s3", 2),
                 Go(t42, "s3", 2)} :
         t \in Trails /\ Len(t) \in 0..3 /\ Once(t, "s4")
  <2>1. Go(T1, "s2", 3) \in Trails /\ Len(Go(T1, "s2", 3)) = 2 /\ Once(Go(T1, "s2", 3), "s4")
    BY <1>1, <1>2, <1>5, <1>22 DEF Goes
  <2>2. Go(T4, "s2", 3) \in Trails /\ Len(Go(T4, "s2", 3)) = 2 /\ Once(Go(T4, "s2", 3), "s4")
    BY <1>1, <1>2, <1>5, <1>22 DEF Goes
  <2>3. Go(T5, "s3", 2) \in Trails /\ Len(Go(T5, "s3", 2)) = 2 /\ Once(Go(T5, "s3", 2), "s4")
    BY <1>1, <1>2, <1>5, <1>22 DEF Goes
  <2>4. Go(t12, "s3", 2) \in Trails /\ Len(Go(t12, "s3", 2)) = 3 /\ Once(Go(t12, "s3", 2), "s4")
    BY <1>1, <1>2, <1>5, <1>22 DEF Goes
  <2>5. Go(t42, "s3", 2) \in Trails /\ Len(Go(t42, "s3", 2)) = 3 /\ Once(Go(t42, "s3", 2), "s4")
    BY <1>1, <1>2, <1>5, <1>22 DEF Goes
  <2>. QED  BY <2>1, <2>2, <2>3, <2>4, <2>5
<1>16. /\ Go(T4, "s2", 3)[1] = <<"s4", 4>> /\ Go(T5, "s3", 2)[1] = <<"s4", 5>>
       /\ Go(t42, "s3", 2)[1] = <<"s4", 4>>
       /\ Clean(Go(T1, "s2", 3), "s4") /\ Clean(Go(t12, "s3", 2), "s4")
  BY <1>2, <1>5, <1>22, FirstTrail DEF Goes
<1>17. \A t \in Ways("s1") : /\ t \in Trails /\ Len(t) \in 0..3 /\ Once(t, "s1")
                             /\ t # <<>> /\ t[1] = <<"s4", 4>> => Clean(t, "s1")
  BY <1>1, <1>10, <1>12, <1>13, <1>14
<1>18. \A t \in Ways("s4") : /\ t \in Trails /\ Len(t) \in 0..3 /\ Once(t, "s4")
                             /\ t # <<>> /\ t[1] = <<"s1", 4>> => Clean(t, "s4")
  BY <1>1, <1>11, <1>12, <1>15, <1>16
<1>19. Ways("s1") = WaysToS1 /\ Ways("s4") = WaysToS4
  BY DEF Ways
<1>20. \A sw \in Switch : \A t \in Ways(sw) : t \in Trails /\ Len(t) \in 0..3 /\ Once(t, sw)
  BY <1>1, <1>8, <1>9, <1>17, <1>18, Switches
<1>21. \A sw \in Router : \A t \in Ways(sw) : t # <<>> /\ Len(t) \in 1..2 /\ Clean(t, sw)
  BY <1>8, <1>9 DEF Router
<1>23. /\ \A t \in WaysToS1 : t # <<>> /\ t[1] = <<"s4", 4>> => Clean(t, "s1")
       /\ \A t \in WaysToS4 : t # <<>> /\ t[1] = <<"s1", 4>> => Clean(t, "s4")
  BY <1>17, <1>18, <1>19
<1>. QED  BY <1>20, <1>21, <1>23 DEF Clean

-----------------------------------------------------------------------------
(***************************************************************************)
(* What is on the wires and has arrived.                                   *)
(***************************************************************************)

FrameSet ==
  [id : Nat, kind : {"data", "arp", "report"}, calm : BOOLEAN, trail : Trails,
   src : Mac, dst : Mac, from : Host \cup {"cnf"}, to : Host \cup {"none", "controller"},
   type : {"ipv4", "arp", "int", "cpu"}, hops : Hops]

(* Who sends what. *)
Sent(f) ==
  /\ f \in FrameSet /\ f.id <= frames /\ (f.calm => Ready)
  /\ f.kind = "data" => f.from \in Host /\ f.to \in Host /\ f.from # f.to
  /\ f.kind = "arp" => f.from \in Host /\ f.to = "none"
  /\ f.kind = "report" => f.from = "cnf" /\ f.to = "controller"

(* The destination MAC a sender chooses. *)
FirstDst(f) ==
  IF f.kind = "arp" THEN "bcast"
  ELSE IF f.kind = "report" THEN "ctrl"
  ELSE IF (f.from \in Hosts1) <=> (f.to \in Hosts1) THEN f.to
  ELSE IF f.from \in Hosts1 THEN "cc21" ELSE "cc23"

CalmData(f) == f.calm /\ f.kind = "data"

(* A frame that comes to an edge switch from a router has been routed to a *)
(* host of that switch; a router gets what the way leaves possible; and an *)
(* INT frame has come from s1, its stack telling the way.                  *)
OnWire(w) ==
  LET f == w.frame
  IN  /\ Sent(f) /\ w.at \in Switch /\ w.port \in Ports
      /\ f.type # "cpu" /\ (f.type # "int" => f.hops = NoHops)
      /\ f.trail \in Ways(w.at)
      /\ f.trail = <<>> => f.dst = FirstDst(f) /\ (w.at = "s1" <=> f.from \in Hosts1)
      /\ w.at = "s1" /\ f.trail # <<>> => f.to \in Hosts1 /\ f.dst = f.to /\ installed > L2End
      /\ w.at = "s4" /\ f.trail # <<>> => f.to \in Hosts2 /\ f.dst = f.to /\ installed > L2End
      /\ w.at = "s2" /\ f.trail \notin {T1, T4} => f.to \in Hosts1
      /\ w.at = "s3" /\ f.trail # T5 => f.to \in Hosts2
      /\ CalmData(f) /\ f.trail # <<>> =>
           \/ f.trail[1] = <<"s1", 4>> /\ f.to \in Hosts2
           \/ f.trail[1] = <<"s4", 4>> /\ f.to \in Hosts1
      /\ f.type = "int" =>
           /\ Ready /\ f.trail # <<>> /\ f.to \in Hosts2
           /\ f.hops = HopsOf(f.trail)

AtHost(d) ==
  /\ Sent(d.frame) /\ d.frame.type \notin {"int", "cpu"} /\ d.frame.hops = NoHops
  /\ Routed(d.frame) \/ CalmData(d.frame) => d.host = d.frame.to

AtCnf(f) ==
  /\ Sent(f) /\ f.type = "int" /\ f.hops = HopsOf(f.trail)
  /\ f.trail \in WaysToS4 \ {<<>>}

AtController(f) == Sent(f) /\ f.type # "int" /\ f.hops = NoHops

TrafficInv ==
  /\ \A w \in wires : OnWire(w)
  /\ \A d \in delivered : AtHost(d)
  /\ \A f \in mirrored : AtCnf(f)
  /\ \A f \in packetIns : AtController(f)

(* Of a unicast frame sent after setup there is one copy. *)
OneCopy ==
  /\ \A w, v \in wires : CalmData(w.frame) /\ v.frame.id = w.frame.id => v = w
  /\ \A w \in wires, d \in delivered :
       CalmData(w.frame) \/ CalmData(d.frame) => w.frame.id # d.frame.id
  /\ \A d, e \in delivered : CalmData(d.frame) /\ e.frame.id = d.frame.id => e = d

PlaneInv == TablesInv /\ TrafficInv /\ OneCopy

-----------------------------------------------------------------------------

(* What the ports lead to. *)
LEMMA PeersOfS1 ==
  /\ Peer("s1", 4) = <<"s2", 1>> /\ Peer("s1", 510) = <<"controller">>
  /\ \A p \in 1..3 : p \in DOMAIN Subnet1 => Peer("s1", p) = <<"host", Subnet1[p]>>
  /\ \A p \in 1..3 : p \notin DOMAIN Subnet1 => Peer("s1", p) = <<"nothing">>
<1>1. DOMAIN Subnet1 \subseteq 1..3
  BY HostSeqs
<1>. QED  BY <1>1 DEF Peer, Edge

(* What is at the end of the ports of s2 and s3.                           *)
LEMMA PeersOfRouters ==
  /\ Peer("s2", 1) = <<"s1", 4>> /\ Peer("s2", 2) = <<"s3", 1>> /\ Peer("s2", 3) = <<"s4", 4>>
  /\ Peer("s3", 1) = <<"s2", 2>> /\ Peer("s3", 2) = <<"s4", 5>>
  BY DEF Peer

(* What is at the end of s4's ports.                                       *)
LEMMA PeersOfS4 ==
  /\ Peer("s4", 4) = <<"s2", 3>> /\ Peer("s4", 5) = <<"s3", 2>> /\ Peer("s4", 6) = <<"cnf">>
  /\ Peer("s4", 510) = <<"controller">>
  /\ \A p \in 1..3 : p \in DOMAIN Subnet2 => Peer("s4", p) = <<"host", Subnet2[p]>>
  /\ \A p \in 1..3 : p \notin DOMAIN Subnet2 => Peer("s4", p) = <<"nothing">>
<1>1. DOMAIN Subnet2 \subseteq 1..3
  BY HostSeqs
<1>. QED  BY <1>1 DEF Peer, Edge

(* Once the MAC tables are complete, every MAC of them is found.           *)
LEMMA MacKnown ==
  ASSUME TablesInv, installed > L2End, NEW sw \in Edge, NEW m, NEW p, MacPort(sw, m, p)
  PROVE  m \in DOMAIN dMac[sw] /\ dMac[sw][m] = p
<1>1. L2(sw, m, p) \in L2Writes
  BY EntriesWritten
<1>2. PICK i \in 1..L2End : Setup[i] = L2(sw, m, p)
  BY <1>1, SetupParts
<1>3. installed \in Nat /\ L2End \in Nat
  BY SetupParts DEF TablesInv, Counters
<1>4. i \in 1..installed
  BY <1>2, <1>3
<1>5. Did(L2(sw, m, p))
  BY <1>2, <1>4 DEF Did
<1>6. m \in DOMAIN dMac[sw]
  BY <1>5 DEF TablesInv, MacTables
<1>7. MacPort(sw, m, dMac[sw][m])
  BY <1>6 DEF TablesInv, MacTables
<1>. QED  BY <1>6, <1>7, OnePort

(* After setup every table is complete.                                    *)
LEMMA WhenReady ==
  ASSUME TablesInv, Ready
  PROVE  installed > L2End /\ \A sw \in Switch : switchId[sw] = NumberOf(sw)
<1>1. installed = Len(Setup) /\ Len(Setup) \in Nat /\ L2End \in Nat /\ L2End < Len(Setup)
  BY SetupParts DEF Ready
<1>2. ASSUME NEW sw \in Switch PROVE switchId[sw] = NumberOf(sw)
  <2>1. Id(sw, NumberOf(sw)) \in IdWrites
    BY EntriesWritten
  <2>2. Occurs(Id(sw, NumberOf(sw)), Setup)
    BY <2>1, SetupParts
  <2>3. Did(Id(sw, NumberOf(sw)))
    BY <1>1, <2>2 DEF Occurs, Did
  <2>. QED  BY <2>3 DEF TablesInv, IdTables
<1>. QED  BY <1>1, <1>2

(* The ports an edge switch sends a frame to.                              *)
LEMMA EdgePorts ==
  ASSUME TablesInv, NEW f
  PROVE  /\ L2Ports("s1", f) \subseteq 1..4
         /\ L2Ports("s4", f) \subseteq 1..5 \cup {510}
<1>1. \A p, m : MacPort("s1", m, p) => p \in 1..4
  BY AccessPorts, Names DEF MacPort
<1>2. \A p, m : MacPort("s4", m, p) => p \in 1..5 \cup {510}
  BY AccessPorts, Names DEF MacPort
<1>3. mcast["s1"] \subseteq 1..4 /\ mcast["s4"] \subseteq 1..5
  BY DEF TablesInv, Replicas, Edge
<1>4. \A sw \in Edge : \A m \in DOMAIN dMac[sw] : MacPort(sw, m, dMac[sw][m])
  BY DEF TablesInv, MacTables
<1>5. "s1" \in Edge /\ "s4" \in Edge
  BY DEF Edge
<1>. QED  BY <1>1, <1>2, <1>3, <1>4, <1>5 DEF L2Ports

(* A frame stays the frame it was sent as, whatever becomes of its         *)
(* headers.                                                                *)
Same(f, g) ==
  /\ g.id = f.id /\ g.kind = f.kind /\ g.calm = f.calm /\ g.from = f.from /\ g.to = f.to

(* What a frame was sent as does not change on its way.                    *)
LEMMA StillSent ==
  ASSUME NEW f, NEW g \in FrameSet, Sent(f), Same(f, g)
  PROVE  Sent(g) /\ (CalmData(g) <=> CalmData(f))
  BY DEF Sent, Same, CalmData

(* A frame that has passed one more switch.                                *)
LEMMA PassedOn ==
  ASSUME NEW f \in FrameSet, NEW sw \in Switch, NEW p \in Ports
  PROVE  LET g == Passed(f, sw, p)
         IN  /\ g \in FrameSet /\ Same(f, g) /\ g.trail = Append(f.trail, <<sw, p>>)
             /\ g.dst = f.dst /\ g.type = f.type /\ g.hops = f.hops
<1>1. Append(f.trail, <<sw, p>>) \in Trails
  BY LongerTrail DEF FrameSet
<1>. QED  BY <1>1 DEF Passed, FrameSet, Same

(* The clone to the CPU.                                                   *)
LEMMA CpuCloned ==
  ASSUME NEW f, Sent(f), NEW sw \in Edge, NEW o \in CpuClone(f, sw)
  PROVE  o.port = 510 /\ Same(f, o.frame) /\ AtController(o.frame)
<1> DEFINE g == [f EXCEPT !.type = "cpu", !.hops = NoHops]
<1>1. o = [port |-> 510, frame |-> g]
  BY DEF CpuClone
<1>2. NoHops \in Hops
  BY DEF NoHops, Hops
<1>3. g \in FrameSet /\ Same(f, g) /\ g.type = "cpu" /\ g.hops = NoHops
  BY <1>2 DEF Sent, FrameSet, Same
<1>4. Sent(g)
  BY <1>3, StillSent
<1>. QED  BY <1>1, <1>3, <1>4 DEF AtController

-----------------------------------------------------------------------------
(***************************************************************************)
(* What each switch emits.                                                 *)
(***************************************************************************)

(* An output that goes where the invariant allows. *)
Fits(sw, o) ==
  LET q == Peer(sw, o.port)
  IN  /\ q[1] \in Switch => OnWire([at |-> q[1], port |-> q[2], frame |-> o.frame])
      /\ q[1] = "host" => AtHost([host |-> q[2], frame |-> o.frame])
      /\ q[1] = "cnf" => AtCnf(o.frame)
      /\ q[1] = "controller" => AtController(o.frame)

(* An output that goes to a switch or a host. *)
Goes(sw, o) == Peer(sw, o.port)[1] \in Switch \cup {"host"}

Emits(sw, f, out) ==
  /\ \A o \in out : Fits(sw, o) /\ Same(f, o.frame)
  /\ CalmData(f) => \A o, q \in out : Goes(sw, o) /\ Goes(sw, q) => o = q

(* The stack of a frame that s1 has marked.                                *)
LEMMA FirstStack == HopsOf(T1) = <<[switch |-> 1, port |-> 4]>>
<1>1. HopsOf(<<>>) = <<>>
  BY DEF HopsOf
<1>2. "s1" \in Switch /\ <<>> \in Trails /\ 4 \in Ports
  BY Switches, FirstTrail DEF Ports
<1>3. HopsOf(Append(<<>>, <<"s1", 4>>)) =
        Append(HopsOf(<<>>), [switch |-> NumberOf("s1"), port |-> 4])
  BY <1>2, LongerStack
<1>. QED  BY <1>1, <1>3, FirstTrail DEF NumberOf

(* s1 marks only what comes from its hosts and goes to s2.                 *)
LEMMA MarkedAtS1 ==
  ASSUME TablesInv, NEW w, OnWire(w), w.at = "s1", Marked(w.frame)
  PROVE  /\ w.frame.trail = <<>> /\ Ready /\ L2Ports("s1", w.frame) = {4}
         /\ LET g == InsertInt(w.frame)
            IN  /\ g \in FrameSet /\ Same(w.frame, g) /\ g.trail = <<>> /\ g.type = "int"
                /\ g.hops = HopsOf(T1)
<1> DEFINE f == w.frame
<1>1. /\ Sent(f) /\ f.from \in Hosts1 /\ f.to \in Hosts2 /\ marking
      /\ f.trail # <<>> => f.to \in Hosts1
      /\ f.trail = <<>> => f.dst = FirstDst(f)
  BY DEF OnWire, Marked
<1>2. f.trail = <<>> /\ f.dst = FirstDst(f)
  BY <1>1, Names
<1>3. Ready
  BY <1>1 DEF TablesInv, IdTables
<1>4. f.kind = "data"
  BY <1>1, Names DEF Sent, FrameSet
<1>5. f.dst = "cc21"
  BY <1>1, <1>2, <1>4, Names DEF FirstDst
<1>6. "s1" \in Edge /\ MacPort("s1", "cc21", 4) /\ "s1" \in Switch
  BY Switches DEF Edge, MacPort
<1>7. "cc21" \in DOMAIN dMac["s1"] /\ dMac["s1"]["cc21"] = 4
  BY <1>3, <1>6, MacKnown, WhenReady
<1>8. L2Ports("s1", f) = {4} /\ L2EgressPort("s1", f) = 4
  BY <1>5, <1>7 DEF L2Ports, L2EgressPort
<1>9. Hop("s1", 4) = [switch |-> 1, port |-> 4]
  BY <1>3, <1>6, WhenReady DEF Hop, NumberOf
<1>10. T1 \in Trails /\ "s1" \in Switch /\ 4 \in Ports
  BY FirstTrail, Switches DEF Ports
<1>11. HopsOf(T1) \in Hops
  BY <1>10, LongerStack
<1>12. InsertInt(f) = [f EXCEPT !.type = "int", !.hops = HopsOf(T1)]
  BY <1>8, <1>9, FirstStack DEF InsertInt
<1>13. LET g == InsertInt(f)
       IN  /\ g \in FrameSet /\ Same(f, g) /\ g.trail = <<>> /\ g.type = "int"
           /\ g.hops = HopsOf(T1)
  BY <1>1, <1>2, <1>11, <1>12 DEF Sent, FrameSet, Same
<1>. QED  BY <1>2, <1>3, <1>8, <1>13

(* A unicast frame sent after setup leaves its first switch by one port,   *)
(* towards its addressee.                                                  *)
LEMMA CalmAtS1 ==
  ASSUME TablesInv, NEW w, OnWire(w), w.at = "s1",
         w.frame.trail = <<>> => CalmData(w.frame)
  PROVE  LET f == w.frame
         IN  \/ f.to \in Hosts1 /\ L2Ports("s1", f) = {AccessPort(f.to)}
             \/ f.trail = <<>> /\ f.to \in Hosts2 /\ L2Ports("s1", f) = {4}
<1> DEFINE f == w.frame
<1>1. "s1" \in Edge
  BY DEF Edge
<1>2. ASSUME f.to \in Hosts1, f.dst = f.to, installed > L2End
      PROVE  L2Ports("s1", f) = {AccessPort(f.to)}
  <2>1. MacPort("s1", f.to, AccessPort(f.to))
    BY <1>2 DEF MacPort
  <2>. QED  BY <1>1, <1>2, <2>1, MacKnown DEF L2Ports
<1>3. CASE f.trail # <<>>
  BY <1>2, <1>3 DEF OnWire
<1>4. CASE f.trail = <<>>
  <2>1. /\ Sent(f) /\ f.dst = FirstDst(f) /\ f.from \in Hosts1 /\ CalmData(f)
    BY <1>4 DEF OnWire
  <2>2. Ready /\ f.kind = "data" /\ f.to \in Host
    BY <2>1 DEF Sent, CalmData
  <2>3. installed > L2End
    BY <2>2, WhenReady
  <2>4. CASE f.to \in Hosts1
    <3>1. f.dst = f.to
      BY <2>1, <2>2, <2>4 DEF FirstDst
    <3>. QED  BY <1>2, <2>3, <2>4, <3>1
  <2>5. CASE f.to \in Hosts2
    <3>1. f.dst = "cc21"
      BY <2>1, <2>2, <2>5, Names DEF FirstDst
    <3>2. MacPort("s1", "cc21", 4)
      BY DEF MacPort
    <3>3. L2Ports("s1", f) = {4}
      BY <1>1, <2>3, <3>1, <3>2, MacKnown DEF L2Ports
    <3>. QED  BY <1>4, <2>5, <3>3
  <2>. QED  BY <2>2, <2>4, <2>5, Names
<1>. QED  BY <1>3, <1>4

(* What s1.p4 emits is again a frame on one of the ways.                   *)
LEMMA S1Emits ==
  ASSUME TablesInv, NEW w, OnWire(w), w.at = "s1"
  PROVE  Emits("s1", w.frame, OutS1(w.frame, w.port))
<1> DEFINE f == w.frame
           g == IF Marked(f) THEN InsertInt(f) ELSE f
           out == SendTo(g, "s1", L2Ports("s1", f), w.port)
           clones == CpuClone(f, "s1")
<1>1. /\ Sent(f) /\ f.trail \in WaysToS1 /\ f \in FrameSet
      /\ f.type # "cpu" /\ (f.type # "int" => f.hops = NoHops)
      /\ f.trail # <<>> => f.to \in Hosts1
      /\ f.type = "int" => f.trail # <<>> /\ f.to \in Hosts2
  BY DEF OnWire, Ways, Sent
<1>2. f.type # "int"
  BY <1>1, Names
<1>3. /\ "s1" \in Switch /\ "s2" \in Switch /\ "s1" \in Edge /\ 1..4 \subseteq Ports /\ 1 \in Ports
  BY Switches DEF Edge, Ports
<1>4. L2Ports("s1", f) \subseteq 1..4
  BY EdgePorts
<1>5. /\ g \in FrameSet /\ Same(f, g) /\ g.trail = f.trail
      /\ Marked(f) => g.type = "int" /\ g.hops = HopsOf(T1)
      /\ ~Marked(f) => g.type \notin {"int", "cpu"} /\ g.hops = NoHops
  BY <1>1, <1>2, MarkedAtS1 DEF Same
<1>6. Marked(f) => f.trail = <<>> /\ Ready /\ L2Ports("s1", f) = {4} /\ f.to \in Hosts2
  BY MarkedAtS1 DEF Marked
<1>7. OutS1(f, w.port) = out \cup clones
  BY DEF OutS1
<1> HIDE DEF g
<1>8. ASSUME NEW o \in out
      PROVE  /\ Fits("s1", o) /\ Same(f, o.frame)
             /\ o.port \in L2Ports("s1", f) /\ o.frame = Passed(g, "s1", o.port)
  <2>1. PICK p \in L2Ports("s1", f) : o = [port |-> p, frame |-> Passed(g, "s1", p)]
    BY <1>8 DEF SendTo
  <2> DEFINE h == Passed(g, "s1", p)
  <2>2. p \in Ports /\ p \in 1..4
    BY <1>3, <1>4
  <2>3. /\ h \in FrameSet /\ Same(g, h) /\ h.trail = Append(f.trail, <<"s1", p>>)
        /\ h.type = g.type /\ h.hops = g.hops
    <3>1. LET k == Passed(g, "s1", p)
          IN  /\ k \in FrameSet /\ Same(g, k) /\ k.trail = Append(g.trail, <<"s1", p>>)
              /\ k.type = g.type /\ k.hops = g.hops
      <4>1. g \in FrameSet /\ "s1" \in Switch /\ p \in Ports
        BY <1>3, <1>5, <2>2
      <4>. QED  BY <4>1, PassedOn
    <3>. QED  BY <1>5, <3>1
  <2> HIDE DEF h
  <2>4. Same(f, h)
    BY <1>5, <2>3 DEF Same
  <2>5. Sent(h) /\ (CalmData(h) <=> CalmData(f)) /\ h.to = f.to
    BY <1>1, <2>3, <2>4, StillSent DEF Same
  <2>6. CASE p = 4
    <3>1. f.trail = <<>>
      <4>1. CASE f.trail # <<>>
        <5>1. f.to \in Hosts1 /\ L2Ports("s1", f) = {AccessPort(f.to)}
          BY <1>1, <4>1, CalmAtS1
        <5>. QED  BY <2>6, <5>1, AccessPorts, Names
      <4>. QED  BY <4>1
    <3>2. h.trail = T1
      BY <2>3, <2>6, <3>1, FirstTrail
    <3>3. CalmData(f) => f.to \in Hosts2
      <4>1. ASSUME CalmData(f), f.to \in Hosts1 PROVE FALSE
        <5>1. L2Ports("s1", f) = {AccessPort(f.to)}
          BY <4>1, CalmAtS1, Names
        <5>. QED  BY <2>6, <4>1, <5>1, AccessPorts, Names
      <4>2. CalmData(f) => f.to \in Host
        BY <1>1 DEF CalmData, Sent
      <4>. QED  BY <4>1, <4>2, Names
    <3>4. h.trail \in Ways("s2") /\ h.trail # <<>> /\ h.trail[1] = <<"s1", 4>>
      BY <3>2, FirstTrail DEF Ways, WaysToS2
    <3>5. h.type # "cpu" /\ (h.type # "int" => h.hops = NoHops)
      BY <1>5, <2>3
    <3>6. h.type = "int" => Ready /\ h.to \in Hosts2 /\ h.hops = HopsOf(h.trail)
      BY <1>5, <1>6, <2>3, <2>5, <3>2
    <3>7. OnWire([at |-> "s2", port |-> 1, frame |-> h])
      BY <1>3, <2>5, <3>2, <3>3, <3>4, <3>5, <3>6 DEF OnWire
    <3>8. Fits("s1", [port |-> 4, frame |-> h])
      BY <3>7, PeersOfS1 DEF Fits
    <3>. QED  BY <2>1, <2>4, <2>6, <3>8 DEF h
  <2>7. CASE p \in 1..3 /\ p \in DOMAIN Subnet1
    <3>1. ~Marked(f)
      BY <1>6, <2>7
    <3>2. h.type \notin {"int", "cpu"} /\ h.hops = NoHops
      BY <1>5, <2>3, <3>1
    <3>3. f.trail # <<>> \/ CalmData(f) => Subnet1[p] = f.to
      <4>1. ASSUME f.trail # <<>> \/ CalmData(f) PROVE Subnet1[p] = f.to
        <5>1. f.to \in Hosts1 /\ L2Ports("s1", f) = {AccessPort(f.to)}
          <6>1. \/ f.to \in Hosts1 /\ L2Ports("s1", f) = {AccessPort(f.to)}
                \/ f.trail = <<>> /\ f.to \in Hosts2 /\ L2Ports("s1", f) = {4}
            BY <4>1, CalmAtS1
          <6>. QED  BY <2>1, <2>7, <6>1
        <5>. QED  BY <5>1, AccessPorts
      <4>. QED  BY <4>1
    <3>4. f.trail = <<>> => ~Routed(h)
      BY <2>3 DEF Routed, Router
    <3>5. AtHost([host |-> Subnet1[p], frame |-> h])
      BY <2>5, <3>2, <3>3, <3>4 DEF AtHost
    <3>6. Fits("s1", [port |-> p, frame |-> h])
      BY <2>7, <3>5, PeersOfS1 DEF Fits, Switch, Edge, Router
    <3>. QED  BY <2>1, <2>4, <3>6 DEF h
  <2>8. CASE p \in 1..3 /\ p \notin DOMAIN Subnet1
    <3>1. Fits("s1", [port |-> p, frame |-> h])
      BY <2>8, PeersOfS1 DEF Fits, Switch, Edge, Router
    <3>. QED  BY <2>1, <2>4, <3>1 DEF h
  <2>. QED  BY <2>2, <2>6, <2>7, <2>8
<1>9. ASSUME NEW o \in clones
      PROVE  Fits("s1", o) /\ Same(f, o.frame) /\ ~Goes("s1", o)
  <2>1. o.port = 510 /\ Same(f, o.frame) /\ AtController(o.frame)
    BY <1>1, <1>3, <1>9, CpuCloned
  <2>. QED  BY <2>1, PeersOfS1 DEF Fits, Goes, Switch, Edge, Router
<1>10. ASSUME CalmData(f), NEW o \in out, NEW q \in out PROVE o = q
  <2>1. \E p : L2Ports("s1", f) = {p}
    BY <1>10, CalmAtS1
  <2>2. o.port = q.port /\ o.frame = q.frame
    BY <1>8, <1>10, <2>1
  <2>. QED  BY <2>2 DEF SendTo
<1>. QED  BY <1>7, <1>8, <1>9, <1>10 DEF Emits

(* The route a router takes, by the subnet of the addressee.               *)
Directs(sw, f, r) ==
  \/ sw = "s2" /\ f.to \in Hosts1 /\ r = [port |-> 1, mac |-> f.to]
  \/ sw = "s2" /\ f.to \in Hosts2 /\ r = [port |-> 3, mac |-> f.to]
  \/ sw = "s2" /\ f.to \in Hosts2 /\ r = [port |-> 2, mac |-> "cc31"]
  \/ sw = "s3" /\ f.to \in Hosts1 /\ r = [port |-> 1, mac |-> "cc22"]
  \/ sw = "s3" /\ f.to \in Hosts2 /\ r = [port |-> 2, mac |-> f.to]

(* A router sends a frame along a route that somebody wrote for it.        *)
LEMMA RouterDirects ==
  ASSUME TablesInv, NEW sw \in Router, NEW f, Sent(f), NEW r \in Routes(sw, f)
  PROVE  Directs(sw, f, r) /\ installed > L2End /\ r.port \in 1..3 /\ r.mac \in Mac
<1>1. f.to \in Host \cup {"none", "controller"}
  BY DEF Sent, FrameSet
<1>2. \/ f.to \in DOMAIN lpm[sw] /\ r = lpm[sw][f.to]
      \/ f.to \in Hosts1 /\ "subnet1" \in DOMAIN lpm[sw] /\ r = lpm[sw]["subnet1"]
  BY DEF Routes
<1>3. \A x \in DOMAIN lpm[sw] : RouteTo(sw, x, lpm[sw][x]) /\ installed > L2End
  BY DEF TablesInv, RouteTables
<1>4. /\ installed > L2End
      /\ RouteTo(sw, f.to, r) \/ (f.to \in Hosts1 /\ RouteTo(sw, "subnet1", r))
  BY <1>2, <1>3
<1>5. f.to # "subnet1"
  BY <1>1, Names
<1>6. Directs(sw, f, r)
  BY <1>4, <1>5, Names DEF RouteTo, Directs, ShortRoute, LongRoute
<1>7. r.port \in 1..3 /\ r.mac \in Mac
  BY <1>6, Names DEF Directs, Mac
<1>. QED  BY <1>4, <1>6, <1>7

(* What a router makes of a frame: the next hop's MAC, and its own entry   *)
(* on an INT stack.                                                        *)
LEMMA RouterWrites ==
  ASSUME TablesInv, NEW sw \in Router, NEW w, OnWire(w), w.at = sw,
         NEW o \in OutRouter(sw, w.frame)
  PROVE  LET f == w.frame
             h == o.frame
         IN  \E r \in Routes(sw, f) :
               /\ Directs(sw, f, r) /\ installed > L2End
               /\ o = [port |-> r.port, frame |-> h]
               /\ h \in FrameSet /\ Same(f, h) /\ h.trail = Append(f.trail, <<sw, r.port>>)
               /\ h.dst = r.mac /\ h.type = f.type
               /\ h.type # "int" => h.hops = NoHops
               /\ h.type = "int" => h.hops = HopsOf(h.trail)
<1> DEFINE f == w.frame
           k(r) == [AppendHop(f, sw, r.port) EXCEPT !.src = rewrite[sw][r.port], !.dst = r.mac]
<1>1. PICK r \in Routes(sw, f) :
        /\ r.port \in DOMAIN rewrite[sw]
        /\ o = [port |-> r.port, frame |-> Passed(k(r), sw, r.port)]
  BY DEF OutRouter
<1>2. /\ Sent(f) /\ f \in FrameSet /\ f.trail \in Ways(sw)
      /\ f.type # "int" => f.hops = NoHops
      /\ f.type = "int" => Ready /\ f.hops = HopsOf(f.trail)
  BY DEF OnWire, Sent
<1>3. Directs(sw, f, r) /\ installed > L2End /\ r.port \in 1..3 /\ r.mac \in Mac
  BY <1>1, <1>2, RouterDirects
<1>4. sw \in Switch /\ r.port \in Ports
  BY <1>3 DEF Switch, Ports
<1>5. rewrite[sw][r.port] \in Mac
  BY <1>1 DEF TablesInv, RouteTables, InterfaceMacs, Mac
<1>6. f.trail \in Trails /\ Len(f.trail) \in 1..2
  BY <1>2, <1>4, WayShapes
<1> DEFINE m == AppendHop(f, sw, r.port)
           u == Append(f.trail, <<sw, r.port>>)
<1>7. /\ m \in FrameSet /\ Same(f, m) /\ m.trail = f.trail /\ m.type = f.type
      /\ m.type # "int" => m.hops = NoHops
      /\ m.type = "int" => m.hops = HopsOf(u)
  <2>1. CASE f.type # "int"
    BY <1>2, <2>1 DEF AppendHop, HasShim, Same
  <2>2. CASE f.type = "int"
    <3>1. HopsOf(f.trail) \in Hops /\ Len(HopsOf(f.trail)) = Len(f.trail)
          /\ HopsOf(u) = Append(HopsOf(f.trail), [switch |-> NumberOf(sw), port |-> r.port])
      BY <1>4, <1>6, LongerStack
    <3>2. Len(f.hops) < INT_MAX_HOPS
      <4>1. Len(f.hops) = Len(f.trail)
        BY <1>2, <2>2, <3>1
      <4>2. \A n \in 1..2 : n < INT_MAX_HOPS
        BY DataPlaneAssumption
      <4>. QED  BY <1>6, <4>1, <4>2
    <3>3. Hop(sw, r.port) = [switch |-> NumberOf(sw), port |-> r.port]
      BY <1>2, <1>4, <2>2, WhenReady DEF Hop
    <3>4. m = [f EXCEPT !.hops = HopsOf(u)]
      BY <1>2, <2>2, <3>1, <3>2, <3>3 DEF AppendHop, HasShim
    <3>5. u \in Trails
      BY <1>4, <1>6, LongerTrail
    <3>6. HopsOf(u) \in Hops
      BY <1>4, <3>5, LongerStack
    <3> HIDE DEF u
    <3>. QED  BY <1>2, <2>2, <3>4, <3>6 DEF FrameSet, Same
  <2>. QED  BY <2>1, <2>2
<1> HIDE DEF m
<1>8. k(r) = [m EXCEPT !.src = rewrite[sw][r.port], !.dst = r.mac]
  BY DEF m
<1>9. /\ k(r) \in FrameSet /\ Same(f, k(r)) /\ k(r).trail = f.trail /\ k(r).type = f.type
      /\ k(r).dst = r.mac /\ k(r).hops = m.hops
  BY <1>3, <1>5, <1>7, <1>8 DEF FrameSet, Same
<1> HIDE DEF k
<1>10. LET h == Passed(k(r), sw, r.port)
       IN  /\ h \in FrameSet /\ Same(k(r), h) /\ h.trail = Append(k(r).trail, <<sw, r.port>>)
           /\ h.dst = k(r).dst /\ h.type = k(r).type /\ h.hops = k(r).hops
  BY <1>4, <1>9, PassedOn
<1>11. LET h == o.frame
       IN  /\ h \in FrameSet /\ Same(f, h) /\ h.trail = u
           /\ h.dst = r.mac /\ h.type = f.type /\ h.hops = m.hops
  BY <1>1, <1>9, <1>10 DEF Same
<1>12. o = [port |-> r.port, frame |-> o.frame]
  BY <1>1
<1> HIDE DEF u
<1>13. LET h == o.frame
       IN  /\ h.type # "int" => h.hops = NoHops
           /\ h.type = "int" => h.hops = HopsOf(h.trail)
  BY <1>7, <1>11
<1>. QED  BY <1>1, <1>3, <1>11, <1>12, <1>13 DEF u

(* Of a frame a router emits at most one.                                  *)
LEMMA RouterOnce ==
  ASSUME NEW sw, NEW f, NEW o \in OutRouter(sw, f), NEW q \in OutRouter(sw, f)
  PROVE  o = q
<1>1. \A r, v \in Routes(sw, f) : r = v
  BY DEF Routes
<1>. QED  BY <1>1 DEF OutRouter

(* s2 sends subnet 1's frames home, and the others to s4 by one of the two *)
(* paths; it gets those only from s1 or s4.                                *)
LEMMA S2Emits ==
  ASSUME TablesInv, NEW w, OnWire(w), w.at = "s2"
  PROVE  Emits("s2", w.frame, OutS2(w.frame))
<1> DEFINE f == w.frame
<1>1. ASSUME NEW o \in OutS2(f) PROVE Fits("s2", o) /\ Same(f, o.frame)
  <2> DEFINE h == o.frame
             t == f.trail
  <2>1. "s2" \in Router /\ o \in OutRouter("s2", f)
    BY <1>1 DEF Router, OutS2
  <2>2. PICK r \in Routes("s2", f) :
          /\ Directs("s2", f, r) /\ installed > L2End
          /\ o = [port |-> r.port, frame |-> h]
          /\ h \in FrameSet /\ Same(f, h) /\ h.trail = Append(t, <<"s2", r.port>>)
          /\ h.dst = r.mac /\ h.type = f.type
          /\ h.type # "int" => h.hops = NoHops
          /\ h.type = "int" => h.hops = HopsOf(h.trail)
    BY <2>1, RouterWrites
  <2>3. /\ Sent(f) /\ t \in WaysToS2 /\ h.type # "cpu"
        /\ t \notin {T1, T4} => f.to \in Hosts1
        /\ f.type = "int" => Ready /\ f.to \in Hosts2
        /\ CalmData(f) /\ t # <<>> => \/ t[1] = <<"s1", 4>> /\ f.to \in Hosts2
                                      \/ t[1] = <<"s4", 4>> /\ f.to \in Hosts1
    BY <2>2 DEF OnWire, Ways
  <2>4. Sent(h) /\ (CalmData(h) <=> CalmData(f)) /\ h.to = f.to
    BY <2>2, <2>3, StillSent DEF Same
  <2>5. "s2" \in Switch /\ r.port \in Ports /\ r.port \in 1..3
    BY <2>2, Switches DEF Directs, Ports
  <2>6. t \in Trails /\ t # <<>>
    BY <2>1, <2>3, <2>5, WayShapes DEF Ways
  <2>7. /\ h.trail # <<>> /\ h.trail[1] = t[1] /\ h.trail \notin {T1, T4, T5}
    <3>1. LET u == Append(t, <<"s2", r.port>>)
          IN  u # <<>> /\ u[1] = t[1] /\ u \notin {T1, T4, T5}
      BY <2>5, <2>6, LongerTrail
    <3>. QED  BY <2>2, <3>1
  <2>8. /\ "s1" \in Switch /\ "s3" \in Switch /\ "s4" \in Switch
        /\ 1 \in Ports /\ 4 \in Ports
    BY Switches DEF Ports
  <2> HIDE DEF h, t
  <2>9. CASE f.to \in Hosts1
    <3>1. r = [port |-> 1, mac |-> f.to]
      BY <2>2, <2>9, Names DEF Directs
    <3>2. h.trail \in Ways("s1")
      BY <2>2, <2>3, <3>1 DEF Ways, WaysToS1
    <3>3. h.type # "int"
      BY <2>2, <2>3, <2>9, Names
    <3>4. OnWire([at |-> "s1", port |-> 4, frame |-> h])
      BY <2>2, <2>3, <2>4, <2>6, <2>7, <2>8, <2>9, <3>1, <3>2, <3>3 DEF OnWire
    <3>5. o = [port |-> 1, frame |-> h]
      BY <2>2, <3>1
    <3>. QED  BY <2>2, <3>4, <3>5, PeersOfRouters DEF Fits, h
  <2>10. CASE f.to \in Hosts2 /\ r = [port |-> 3, mac |-> f.to]
    <3>1. t \in {T1, T4}
      BY <2>3, <2>10, Names
    <3>2. h.trail \in Ways("s4")
      BY <2>2, <2>10, <3>1 DEF Ways, WaysToS4
    <3>3. OnWire([at |-> "s4", port |-> 4, frame |-> h])
      BY <2>2, <2>3, <2>4, <2>6, <2>7, <2>8, <2>10, <3>2 DEF OnWire
    <3>4. o = [port |-> 3, frame |-> h]
      BY <2>2, <2>10
    <3>. QED  BY <2>2, <3>3, <3>4, PeersOfRouters DEF Fits, h
  <2>11. CASE f.to \in Hosts2 /\ r = [port |-> 2, mac |-> "cc31"]
    <3>1. t \in {T1, T4}
      BY <2>3, <2>11, Names
    <3>2. h.trail \in Ways("s3")
      BY <2>2, <2>11, <3>1 DEF Ways, WaysToS3
    <3>3. OnWire([at |-> "s3", port |-> 1, frame |-> h])
      BY <2>2, <2>3, <2>4, <2>6, <2>7, <2>8, <2>11, <3>2 DEF OnWire
    <3>4. o = [port |-> 2, frame |-> h]
      BY <2>2, <2>11
    <3>. QED  BY <2>2, <3>3, <3>4, PeersOfRouters DEF Fits, h
  <2>. QED  BY <2>2, <2>9, <2>10, <2>11 DEF Directs
<1>2. \A o, q \in OutS2(f) : o = q
  BY RouterOnce DEF OutS2
<1>. QED  BY <1>1, <1>2 DEF Emits

(* s3 gets subnet 1's frames only from s4, and sends them to s2; all       *)
(* others go to s4.                                                        *)
LEMMA S3Emits ==
  ASSUME TablesInv, NEW w, OnWire(w), w.at = "s3"
  PROVE  Emits("s3", w.frame, OutS3(w.frame))
<1> DEFINE f == w.frame
<1>1. ASSUME NEW o \in OutS3(f) PROVE Fits("s3", o) /\ Same(f, o.frame)
  <2> DEFINE h == o.frame
             t == f.trail
  <2>1. "s3" \in Router /\ o \in OutRouter("s3", f)
    BY <1>1 DEF Router, OutS3
  <2>2. PICK r \in Routes("s3", f) :
          /\ Directs("s3", f, r) /\ installed > L2End
          /\ o = [port |-> r.port, frame |-> h]
          /\ h \in FrameSet /\ Same(f, h) /\ h.trail = Append(t, <<"s3", r.port>>)
          /\ h.dst = r.mac /\ h.type = f.type
          /\ h.type # "int" => h.hops = NoHops
          /\ h.type = "int" => h.hops = HopsOf(h.trail)
    BY <2>1, RouterWrites
  <2>3. /\ Sent(f) /\ t \in WaysToS3 /\ h.type # "cpu"
        /\ t # T5 => f.to \in Hosts2
        /\ f.type = "int" => Ready /\ f.to \in Hosts2
        /\ CalmData(f) /\ t # <<>> => \/ t[1] = <<"s1", 4>> /\ f.to \in Hosts2
                                      \/ t[1] = <<"s4", 4>> /\ f.to \in Hosts1
    BY <2>2 DEF OnWire, Ways
  <2>4. Sent(h) /\ (CalmData(h) <=> CalmData(f)) /\ h.to = f.to
    BY <2>2, <2>3, StillSent DEF Same
  <2>5. "s3" \in Switch /\ r.port \in Ports /\ r.port \in 1..3
    BY <2>2, Switches DEF Directs, Ports
  <2>6. t \in Trails /\ t # <<>>
    BY <2>1, <2>3, <2>5, WayShapes DEF Ways
  <2>7. /\ h.trail # <<>> /\ h.trail[1] = t[1] /\ h.trail \notin {T1, T4, T5}
    <3>1. LET u == Append(t, <<"s3", r.port>>)
          IN  u # <<>> /\ u[1] = t[1] /\ u \notin {T1, T4, T5}
      BY <2>5, <2>6, LongerTrail
    <3>. QED  BY <2>2, <3>1
  <2>8. /\ "s2" \in Switch /\ "s4" \in Switch /\ 2 \in Ports /\ 5 \in Ports
    BY Switches DEF Ports
  <2> HIDE DEF h, t
  <2>9. CASE f.to \in Hosts1
    <3>1. r = [port |-> 1, mac |-> "cc22"] /\ t = T5
      BY <2>2, <2>3, <2>9, Names DEF Directs
    <3>2. h.trail \in Ways("s2")
      BY <2>2, <3>1 DEF Ways, WaysToS2
    <3>3. h.type # "int"
      BY <2>2, <2>3, <2>9, Names
    <3>4. OnWire([at |-> "s2", port |-> 2, frame |-> h])
      BY <2>2, <2>3, <2>4, <2>6, <2>7, <2>8, <2>9, <3>2, <3>3 DEF OnWire
    <3>5. o = [port |-> 1, frame |-> h]
      BY <2>2, <3>1
    <3>. QED  BY <2>2, <3>4, <3>5, PeersOfRouters DEF Fits, h
  <2>10. CASE f.to \in Hosts2
    <3>1. r = [port |-> 2, mac |-> f.to]
      BY <2>2, <2>10, Names DEF Directs
    <3>2. h.trail \in Ways("s4")
      BY <2>2, <2>3, <3>1 DEF Ways, WaysToS4
    <3>3. OnWire([at |-> "s4", port |-> 5, frame |-> h])
      BY <2>2, <2>3, <2>4, <2>6, <2>7, <2>8, <2>10, <3>1, <3>2 DEF OnWire
    <3>4. o = [port |-> 2, frame |-> h]
      BY <2>2, <3>1
    <3>. QED  BY <2>2, <3>3, <3>4, PeersOfRouters DEF Fits, h
  <2>. QED  BY <2>2, <2>9, <2>10 DEF Directs
<1>2. \A o, q \in OutS3(f) : o = q
  BY RouterOnce DEF OutS3
<1>. QED  BY <1>1, <1>2 DEF Emits

(* s4's port for a frame: its host's, once a router has sent it, and the   *)
(* one towards its addressee if it was sent after setup.                   *)
LEMMA CalmAtS4 ==
  ASSUME TablesInv, NEW w, OnWire(w), w.at = "s4",
         w.frame.trail = <<>> => CalmData(w.frame)
  PROVE  LET f == w.frame
         IN  \/ f.to \in Hosts2 /\ L2Ports("s4", f) = {AccessPort(f.to)}
             \/ f.trail = <<>> /\ f.to \in Hosts1 /\ L2Ports("s4", f) = {4}
<1> DEFINE f == w.frame
<1>1. "s4" \in Edge
  BY DEF Edge
<1>2. ASSUME f.to \in Hosts2, f.dst = f.to, installed > L2End
      PROVE  L2Ports("s4", f) = {AccessPort(f.to)}
  <2>1. MacPort("s4", f.to, AccessPort(f.to))
    BY <1>2 DEF MacPort
  <2>. QED  BY <1>1, <1>2, <2>1, MacKnown DEF L2Ports
<1>3. CASE f.trail # <<>>
  BY <1>2, <1>3 DEF OnWire
<1>4. CASE f.trail = <<>>
  <2>1. /\ Sent(f) /\ f.dst = FirstDst(f) /\ f.from \notin Hosts1 /\ CalmData(f)
    BY <1>4 DEF OnWire
  <2>2. Ready /\ f.kind = "data" /\ f.to \in Host
    BY <2>1 DEF Sent, CalmData
  <2>3. installed > L2End
    BY <2>2, WhenReady
  <2>4. CASE f.to \in Hosts2
    <3>1. f.dst = f.to
      BY <2>1, <2>2, <2>4, Names DEF FirstDst
    <3>. QED  BY <1>2, <2>3, <2>4, <3>1
  <2>5. CASE f.to \in Hosts1
    <3>1. f.dst = "cc23"
      BY <2>1, <2>2, <2>5 DEF FirstDst
    <3>2. MacPort("s4", "cc23", 4)
      BY DEF MacPort
    <3>3. L2Ports("s4", f) = {4}
      BY <1>1, <2>3, <3>1, <3>2, MacKnown DEF L2Ports
    <3>. QED  BY <1>4, <2>5, <3>3
  <2>. QED  BY <2>2, <2>4, <2>5, Names
<1>. QED  BY <1>3, <1>4

(* s4 strips every INT frame, whose stack is not full, and clones it to    *)
(* the cNF as it came.                                                     *)
LEMMA StrippedAtS4 ==
  ASSUME TablesInv, NEW w, OnWire(w), w.at = "s4"
  PROVE  LET f == w.frame
             g == IF LastHop(f) THEN StripInt(f) ELSE f
         IN  /\ g \in FrameSet /\ Same(f, g) /\ g.trail = f.trail
             /\ g.type \notin {"int", "cpu"} /\ g.hops = NoHops
             /\ LastHop(f) => AtCnf(f)
<1> DEFINE f == w.frame
<1>1. /\ Sent(f) /\ f \in FrameSet /\ f.trail \in Ways("s4") /\ f.trail \in WaysToS4
      /\ f.type # "cpu" /\ (f.type # "int" => f.hops = NoHops)
      /\ f.type = "int" => f.trail # <<>> /\ f.hops = HopsOf(f.trail)
  BY DEF OnWire, Ways, Sent
<1>2. "s4" \in Switch /\ 1 \in Ports /\ NoHops \in Hops
  BY Switches DEF Ports, NoHops, Hops
<1>3. f.trail \in Trails /\ Len(f.trail) \in 0..3
  BY <1>1, <1>2, WayShapes
<1>4. CASE f.type # "int"
  BY <1>1, <1>4 DEF LastHop, HasShim, Same
<1>5. CASE f.type = "int"
  <2>1. Len(HopsOf(f.trail)) = Len(f.trail)
    BY <1>2, <1>3, LongerStack
  <2>2. \A n \in 0..3 : n < INT_MAX_HOPS
    BY DataPlaneAssumption
  <2>3. LastHop(f)
    BY <1>1, <1>3, <1>5, <2>1, <2>2 DEF LastHop, HasShim
  <2>4. LET g == StripInt(f)
        IN  /\ g \in FrameSet /\ Same(f, g) /\ g.trail = f.trail
            /\ g.type = "ipv4" /\ g.hops = NoHops
    BY <1>1, <1>2 DEF StripInt, FrameSet, Same
  <2>5. AtCnf(f)
    BY <1>1, <1>5 DEF AtCnf
  <2>. QED  BY <2>3, <2>4, <2>5
<1>. QED  BY <1>4, <1>5

(* What s4.p4 emits: telemetry only towards the cNF, never to a host.      *)
LEMMA S4Emits ==
  ASSUME TablesInv, NEW w, OnWire(w), w.at = "s4"
  PROVE  Emits("s4", w.frame, OutS4(w.frame, w.port))
<1> DEFINE f == w.frame
           g == IF LastHop(f) THEN StripInt(f) ELSE f
           out == SendTo(g, "s4", L2Ports("s4", f), w.port)
           clones == IF LastHop(f) THEN CnfClone(f) ELSE CpuClone(f, "s4")
<1>1. /\ Sent(f) /\ f.trail \in WaysToS4 /\ f \in FrameSet
      /\ f.trail # <<>> => f.to \in Hosts2
      /\ f.trail = <<>> => f.dst = FirstDst(f) /\ f.from \notin Hosts1
  BY DEF OnWire, Ways, Sent
<1>2. /\ "s4" \in Switch /\ "s2" \in Switch /\ "s3" \in Switch /\ "s4" \in Edge
      /\ 1..5 \cup {510} \subseteq Ports /\ 2 \in Ports /\ 3 \in Ports
  BY Switches DEF Edge, Ports
<1>3. L2Ports("s4", f) \subseteq 1..5 \cup {510}
  BY EdgePorts
<1>4. /\ g \in FrameSet /\ Same(f, g) /\ g.trail = f.trail
      /\ g.type \notin {"int", "cpu"} /\ g.hops = NoHops
      /\ LastHop(f) => AtCnf(f)
  BY StrippedAtS4
<1>5. OutS4(f, w.port) = out \cup clones
  BY DEF OutS4
<1> HIDE DEF g
<1>6. ASSUME NEW o \in out
      PROVE  /\ Fits("s4", o) /\ Same(f, o.frame)
             /\ o.port \in L2Ports("s4", f) /\ o.frame = Passed(g, "s4", o.port)
  <2>1. PICK p \in L2Ports("s4", f) : o = [port |-> p, frame |-> Passed(g, "s4", p)]
    BY <1>6 DEF SendTo
  <2> DEFINE h == Passed(g, "s4", p)
  <2>2. p \in Ports /\ p \in 1..5 \cup {510}
    BY <1>2, <1>3
  <2>3. /\ h \in FrameSet /\ Same(g, h) /\ h.trail = Append(f.trail, <<"s4", p>>)
        /\ h.type \notin {"int", "cpu"} /\ h.hops = NoHops
    <3>1. LET k == Passed(g, "s4", p)
          IN  /\ k \in FrameSet /\ Same(g, k) /\ k.trail = Append(g.trail, <<"s4", p>>)
              /\ k.type = g.type /\ k.hops = g.hops
      <4>1. g \in FrameSet /\ "s4" \in Switch /\ p \in Ports
        BY <1>2, <1>4, <2>2
      <4>. QED  BY <4>1, PassedOn
    <3>. QED  BY <1>4, <3>1
  <2> HIDE DEF h
  <2>4. Same(f, h)
    BY <1>4, <2>3 DEF Same
  <2>5. Sent(h) /\ (CalmData(h) <=> CalmData(f)) /\ h.to = f.to
    BY <1>1, <2>3, <2>4, StillSent DEF Same
  <2>6. ASSUME p \in {4, 5}
        PROVE  f.trail = <<>> /\ (CalmData(f) => p = 4 /\ f.to \in Hosts1)
    <3>1. ASSUME f.trail # <<>> \/ CalmData(f)
          PROVE  f.trail = <<>> /\ p = 4 /\ f.to \in Hosts1
      <4>1. \/ f.to \in Hosts2 /\ L2Ports("s4", f) = {AccessPort(f.to)}
            \/ f.trail = <<>> /\ f.to \in Hosts1 /\ L2Ports("s4", f) = {4}
        BY <3>1, CalmAtS4
      <4>2. f.to \in Hosts2 => AccessPort(f.to) \in 1..3
        BY AccessPorts, Names
      <4>. QED  BY <2>1, <2>6, <4>1, <4>2
    <3>. QED  BY <3>1
  <2>7. CASE p = 4
    <3>1. f.trail = <<>> /\ h.trail = T4
      BY <2>3, <2>6, <2>7, FirstTrail
    <3>2. h.trail \in Ways("s2") /\ h.trail # <<>> /\ h.trail[1] = <<"s4", 4>>
      BY <3>1, FirstTrail DEF Ways, WaysToS2
    <3>3. OnWire([at |-> "s2", port |-> 3, frame |-> h])
      BY <1>2, <2>3, <2>5, <2>6, <2>7, <3>1, <3>2 DEF OnWire
    <3>4. Fits("s4", [port |-> 4, frame |-> h])
      BY <3>3, PeersOfS4 DEF Fits
    <3>. QED  BY <2>1, <2>4, <2>7, <3>4 DEF h
  <2>8. CASE p = 5
    <3>1. f.trail = <<>> /\ h.trail = T5 /\ ~CalmData(f)
      BY <2>3, <2>6, <2>8, FirstTrail
    <3>2. h.trail \in Ways("s3") /\ h.trail # <<>>
      BY <3>1, FirstTrail DEF Ways, WaysToS3
    <3>3. OnWire([at |-> "s3", port |-> 2, frame |-> h])
      BY <1>2, <2>3, <2>5, <3>1, <3>2 DEF OnWire
    <3>4. Fits("s4", [port |-> 5, frame |-> h])
      BY <3>3, PeersOfS4 DEF Fits
    <3>. QED  BY <2>1, <2>4, <2>8, <3>4 DEF h
  <2>9. CASE p \in 1..3 /\ p \in DOMAIN Subnet2
    <3>1. f.trail # <<>> \/ CalmData(f) => Subnet2[p] = f.to
      <4>1. ASSUME f.trail # <<>> \/ CalmData(f) PROVE Subnet2[p] = f.to
        <5>1. f.to \in Hosts2 /\ L2Ports("s4", f) = {AccessPort(f.to)}
          <6>1. \/ f.to \in Hosts2 /\ L2Ports("s4", f) = {AccessPort(f.to)}
                \/ f.trail = <<>> /\ f.to \in Hosts1 /\ L2Ports("s4", f) = {4}
            BY <4>1, CalmAtS4
          <6>. QED  BY <2>1, <2>9, <6>1
        <5>. QED  BY <2>1, <5>1, AccessPorts
      <4>. QED  BY <4>1
    <3>2. f.trail = <<>> => ~Routed(h)
      BY <2>3 DEF Routed, Router
    <3>3. AtHost([host |-> Subnet2[p], frame |-> h])
      BY <2>3, <2>5, <3>1, <3>2 DEF AtHost
    <3>4. Fits("s4", [port |-> p, frame |-> h])
      BY <2>9, <3>3, PeersOfS4 DEF Fits, Switch, Edge, Router
    <3>. QED  BY <2>1, <2>4, <3>4 DEF h
  <2>10. CASE p \in 1..3 /\ p \notin DOMAIN Subnet2
    <3>1. Fits("s4", [port |-> p, frame |-> h])
      BY <2>10, PeersOfS4 DEF Fits, Switch, Edge, Router
    <3>. QED  BY <2>1, <2>4, <3>1 DEF h
  <2>11. CASE p = 510
    <3>1. AtController(h)
      BY <2>3, <2>5 DEF AtController
    <3>2. Fits("s4", [port |-> 510, frame |-> h])
      BY <3>1, PeersOfS4 DEF Fits, Switch, Edge, Router
    <3>. QED  BY <2>1, <2>4, <2>11, <3>2 DEF h
  <2>. QED  BY <2>2, <2>7, <2>8, <2>9, <2>10, <2>11
<1>7. ASSUME NEW o \in clones
      PROVE  Fits("s4", o) /\ Same(f, o.frame) /\ ~Goes("s4", o)
  <2>1. CASE LastHop(f)
    <3>1. o = [port |-> 6, frame |-> f]
      BY <1>7, <2>1 DEF CnfClone
    <3>. QED  BY <1>4, <2>1, <3>1, PeersOfS4 DEF Fits, Goes, Same, Switch, Edge, Router
  <2>2. CASE ~LastHop(f)
    <3>1. o.port = 510 /\ Same(f, o.frame) /\ AtController(o.frame)
      BY <1>1, <1>2, <1>7, <2>2, CpuCloned
    <3>. QED  BY <3>1, PeersOfS4 DEF Fits, Goes, Switch, Edge, Router
  <2>. QED  BY <2>1, <2>2
<1>8. ASSUME CalmData(f), NEW o \in out, NEW q \in out PROVE o = q
  <2>1. \E p : L2Ports("s4", f) = {p}
    BY <1>8, CalmAtS4
  <2>2. o.port = q.port /\ o.frame = q.frame
    BY <1>6, <1>8, <2>1
  <2>. QED  BY <2>2 DEF SendTo
<1>. QED  BY <1>5, <1>6, <1>7, <1>8 DEF Emits

(* What any switch emits.                                                  *)
LEMMA SwitchEmits ==
  ASSUME TablesInv, NEW w, OnWire(w)
  PROVE  Emits(w.at, w.frame, Out(w.at, w.frame, w.port))
<1>1. w.at \in Switch
  BY DEF OnWire
<1>2. \A sw, f : Emits(sw, f, {})
  BY DEF Emits
<1>3. CASE w.at \notin pipeline
  BY <1>2, <1>3 DEF Out
<1>4. CASE w.at \in pipeline
  <2>1. CASE w.at = "s1"
    BY <1>4, <2>1, S1Emits DEF Out
  <2>2. CASE w.at = "s2"
    BY <1>4, <2>2, S2Emits DEF Out
  <2>3. CASE w.at = "s3"
    BY <1>4, <2>3, S3Emits DEF Out
  <2>4. CASE w.at = "s4"
    BY <1>4, <2>4, S4Emits DEF Out
  <2>. QED  BY <1>1, <2>1, <2>2, <2>3, <2>4, Switches
<1>. QED  BY <1>3, <1>4

-----------------------------------------------------------------------------
(***************************************************************************)
(* The steps.                                                              *)
(***************************************************************************)

(* What is true of a frame stays true while setup goes on and more frames  *)
(* are sent.                                                               *)
LEMMA Later ==
  ASSUME frames \in Nat, frames' \in Nat, frames <= frames', Ready => Ready',
         installed > L2End => installed' > L2End
  PROVE  /\ \A w : OnWire(w) => OnWire(w)'
         /\ \A d : AtHost(d) => AtHost(d)'
         /\ \A f : AtCnf(f) => AtCnf(f)'
         /\ \A f : AtController(f) => AtController(f)'
<1>1. \A f : Sent(f) => Sent(f)'
  BY DEF Sent, FrameSet
<1>2. \A w : OnWire(w) => OnWire(w)'
  BY <1>1 DEF OnWire
<1>3. \A d : AtHost(d) => AtHost(d)'
  BY <1>1 DEF AtHost
<1>4. \A f : AtCnf(f) => AtCnf(f)'
  BY <1>1 DEF AtCnf
<1>5. \A f : AtController(f) => AtController(f)'
  BY <1>1 DEF AtController
<1>. QED  BY <1>2, <1>3, <1>4, <1>5

(* A write or a reroute leaves the traffic as it is.                       *)
LEMMA QuietTraffic ==
  ASSUME PlaneInv, UNCHANGED <<traffic, frames>>, TablesInv', Ready => Ready',
         installed > L2End => installed' > L2End
  PROVE  PlaneInv'
<1>1. frames \in Nat /\ frames' = frames /\ UNCHANGED <<wires, delivered, mirrored, packetIns>>
  BY DEF PlaneInv, TablesInv, Counters, traffic
<1>2. /\ \A w : OnWire(w) => OnWire(w)'
      /\ \A d : AtHost(d) => AtHost(d)'
      /\ \A f : AtCnf(f) => AtCnf(f)'
      /\ \A f : AtController(f) => AtController(f)'
  BY <1>1, Later
<1>3. TrafficInv'
  BY <1>1, <1>2 DEF PlaneInv, TrafficInv
<1>4. OneCopy'
  BY <1>1 DEF PlaneInv, OneCopy
<1>. QED  BY <1>3, <1>4 DEF PlaneInv

(* A new frame has an id of its own.                                       *)
LEMMA SendKeeps ==
  ASSUME PlaneInv, NEW f, NEW sw, NEW p, Send(f, sw, p), f.id = frames + 1,
         OnWire([at |-> sw, port |-> p, frame |-> f])'
  PROVE  PlaneInv'
<1> DEFINE x == [at |-> sw, port |-> p, frame |-> f]
<1>1. /\ frames < MaxFrames /\ frames' = frames + 1
      /\ wires' = wires \cup {x}
      /\ UNCHANGED <<installed, tables, reroutes, delivered, mirrored, packetIns>>
  BY DEF Send
<1>2. frames \in 0..MaxFrames /\ frames \in Nat /\ frames' \in Nat /\ frames <= frames'
      /\ frames' \in 0..MaxFrames
  BY <1>1, DataPlaneAssumption DEF PlaneInv, TablesInv, Counters
<1>3. TablesInv'
  BY <1>1, <1>2, SameTables DEF PlaneInv
<1>4. /\ \A w : OnWire(w) => OnWire(w)'
      /\ \A d : AtHost(d) => AtHost(d)'
      /\ \A g : AtCnf(g) => AtCnf(g)'
      /\ \A g : AtController(g) => AtController(g)'
  BY <1>1, <1>2, Later DEF Ready
<1>5. OnWire(x)'
  OBVIOUS
<1>6. TrafficInv'
  BY <1>1, <1>4, <1>5 DEF PlaneInv, TrafficInv
<1>7. /\ \A w \in wires : w.frame.id \in Nat /\ w.frame.id <= frames
      /\ \A d \in delivered : d.frame.id \in Nat /\ d.frame.id <= frames
  BY DEF PlaneInv, TrafficInv, OnWire, AtHost, Sent, FrameSet
<1>8. /\ \A w \in wires : w.frame.id # f.id
      /\ \A d \in delivered : d.frame.id # f.id
  BY <1>2, <1>7
<1>9. x.frame = f
  OBVIOUS
<1> HIDE DEF x
<1>10. OneCopy'
  BY <1>1, <1>8, <1>9 DEF PlaneInv, OneCopy
<1>. QED  BY <1>3, <1>6, <1>10 DEF PlaneInv

(* What the hosts and the cNF send is as the invariant says.               *)
LEMMA SendStep ==
  ASSUME PlaneInv,
         \/ \E h, g \in Host : SendData(h, g)
         \/ \E h \in Host : SendArp(h)
         \/ SendReport
  PROVE  PlaneInv'
<1>1. frames \in Nat /\ Ready \in BOOLEAN
  BY DEF PlaneInv, TablesInv, Counters, Ready
<1>2. /\ <<>> \in Trails /\ NoHops \in Hops /\ <<>> \in WaysToS1 /\ <<>> \in WaysToS4
      /\ Ways("s1") = WaysToS1 /\ Ways("s4") = WaysToS4
      /\ "s1" \in Switch /\ "s4" \in Switch /\ 6 \in Ports
      /\ \A h \in Host : AccessPort(h) \in Ports
  BY FirstTrail, Switches, AccessPorts DEF NoHops, Hops, WaysToS1, WaysToS4, Ways, Ports
<1>3. ASSUME NEW h \in Host, NEW g \in Host, SendData(h, g) PROVE PlaneInv'
  <2>0. PICK f : f = HostFrame(h, g)
    OBVIOUS
  <2> DEFINE x == [at |-> EdgeOf(h), port |-> AccessPort(h), frame |-> f]
  <2>1. h # g /\ Send(f, EdgeOf(h), AccessPort(h)) /\ frames' = frames + 1
        /\ installed' = installed
    BY <1>3, <2>0 DEF SendData, Send
  <2>2. /\ f.id = frames + 1 /\ f.kind = "data" /\ f.calm = Ready /\ f.trail = <<>>
        /\ f.src = h /\ f.from = h /\ f.to = g /\ f.type = "ipv4" /\ f.hops = NoHops
        /\ f.dst = IF (h \in Hosts1) <=> (g \in Hosts1) THEN g
                   ELSE IF h \in Hosts1 THEN "cc21" ELSE "cc23"
    BY <2>0 DEF HostFrame, Frame
  <2>3. f \in FrameSet
    BY <1>1, <1>2, <2>0 DEF HostFrame, Frame, FrameSet, Mac
  <2>4. Sent(f)'
    <3>1. f.calm => Ready'
      <4>1. Ready' <=> Ready
        BY <2>1 DEF Ready
      <4>. QED  BY <2>2, <4>1
    <3>2. f.id <= frames'
      BY <1>1, <2>1, <2>2
    <3>. QED  BY <2>1, <2>2, <2>3, <3>1, <3>2, Names DEF Sent
  <2>5. f.dst = FirstDst(f)
    BY <2>2 DEF FirstDst
  <2>6. EdgeOf(h) \in Edge /\ (EdgeOf(h) = "s1" <=> h \in Hosts1) /\ AccessPort(h) \in Ports
    BY <1>2 DEF EdgeOf, Edge
  <2>7. EdgeOf(h) \in Switch /\ <<>> \in Ways(EdgeOf(h))
    BY <1>2, <2>6 DEF Edge
  <2>8. f.trail = <<>> /\ f.type = "ipv4" /\ f.from = h /\ f.hops = NoHops
    BY <2>2
  <2>9. EdgeOf(h) # "s2" /\ EdgeOf(h) # "s3"
    BY <2>6 DEF Edge
  <2>10. OnWire(x)'
    BY <2>4, <2>5, <2>6, <2>7, <2>8, <2>9 DEF OnWire
  <2>. QED  BY <2>1, <2>2, <2>10, SendKeeps
<1>4. ASSUME NEW h \in Host, SendArp(h) PROVE PlaneInv'
  <2>0. PICK f : f = Broadcast(h)
    OBVIOUS
  <2> DEFINE x == [at |-> EdgeOf(h), port |-> AccessPort(h), frame |-> f]
  <2>1. Send(f, EdgeOf(h), AccessPort(h)) /\ frames' = frames + 1 /\ installed' = installed
    BY <1>4, <2>0 DEF SendArp, Send
  <2>2. /\ f.id = frames + 1 /\ f.kind = "arp" /\ f.calm = Ready /\ f.trail = <<>>
        /\ f.src = h /\ f.from = h /\ f.to = "none" /\ f.type = "arp" /\ f.hops = NoHops
        /\ f.dst = "bcast"
    BY <2>0 DEF Broadcast, Frame
  <2>3. f \in FrameSet
    BY <1>1, <1>2, <2>0 DEF Broadcast, Frame, FrameSet, Mac
  <2>4. Sent(f)'
    <3>1. f.calm => Ready'
      <4>1. Ready' <=> Ready
        BY <2>1 DEF Ready
      <4>. QED  BY <2>2, <4>1
    <3>2. f.id <= frames'
      BY <1>1, <2>1, <2>2
    <3>. QED  BY <2>1, <2>2, <2>3, <3>1, <3>2, Names DEF Sent
  <2>5. f.dst = FirstDst(f)
    BY <2>2 DEF FirstDst
  <2>6. EdgeOf(h) \in Edge /\ (EdgeOf(h) = "s1" <=> h \in Hosts1) /\ AccessPort(h) \in Ports
    BY <1>2 DEF EdgeOf, Edge
  <2>7. EdgeOf(h) \in Switch /\ <<>> \in Ways(EdgeOf(h))
    BY <1>2, <2>6 DEF Edge
  <2>8. f.trail = <<>> /\ f.type = "arp" /\ f.from = h /\ f.hops = NoHops
    BY <2>2
  <2>9. EdgeOf(h) # "s2" /\ EdgeOf(h) # "s3"
    BY <2>6 DEF Edge
  <2>10. OnWire(x)'
    BY <2>4, <2>5, <2>6, <2>7, <2>8, <2>9 DEF OnWire
  <2>. QED  BY <2>1, <2>2, <2>10, SendKeeps
<1>5. CASE SendReport
  <2>0. PICK f : f = ReportFrame
    OBVIOUS
  <2> DEFINE x == [at |-> "s4", port |-> 6, frame |-> f]
  <2>1. Send(f, "s4", 6) /\ frames' = frames + 1 /\ installed' = installed
    BY <1>5, <2>0 DEF SendReport, Send
  <2>2. /\ f.id = frames + 1 /\ f.kind = "report" /\ f.calm = Ready /\ f.trail = <<>>
        /\ f.from = "cnf" /\ f.to = "controller" /\ f.type = "ipv4" /\ f.hops = NoHops
        /\ f.dst = "ctrl"
    BY <2>0 DEF ReportFrame, Frame
  <2>3. f \in FrameSet
    BY <1>1, <1>2, <2>0 DEF ReportFrame, Frame, FrameSet, Mac
  <2>4. Sent(f)'
    <3>1. f.calm => Ready'
      <4>1. Ready' <=> Ready
        BY <2>1 DEF Ready
      <4>. QED  BY <2>2, <4>1
    <3>2. f.id <= frames'
      BY <1>1, <2>1, <2>2
    <3>. QED  BY <2>1, <2>2, <2>3, <3>1, <3>2, Names DEF Sent
  <2>5. f.dst = FirstDst(f)
    BY <2>2 DEF FirstDst
  <2>6. f.from \notin Hosts1
    BY <2>2, Names
  <2>7. f.trail = <<>> /\ f.type = "ipv4" /\ f.hops = NoHops
    BY <2>2
  <2>8. OnWire(x)'
    BY <1>2, <2>4, <2>5, <2>6, <2>7 DEF OnWire
  <2>. QED  BY <2>1, <2>2, <2>8, SendKeeps
<1>. QED  BY <1>3, <1>4, <1>5

(* A switch takes one frame and puts out what it emits.                    *)
LEMMA ForwardStep ==
  ASSUME PlaneInv, NEW w \in wires, Forward(w)
  PROVE  PlaneInv'
<1> DEFINE out == Out(w.at, w.frame, w.port)
           q(o) == Peer(w.at, o.port)
           NewWire(o) == [at |-> q(o)[1], port |-> q(o)[2], frame |-> o.frame]
           NewHost(o) == [host |-> q(o)[2], frame |-> o.frame]
<1>1. /\ \A x \in wires' : \/ x \in wires /\ x # w
                           \/ \E o \in out : q(o)[1] \in Switch /\ x = NewWire(o)
      /\ \A d \in delivered' : \/ d \in delivered
                               \/ \E o \in out : q(o)[1] = "host" /\ d = NewHost(o)
      /\ \A f \in mirrored' : f \in mirrored \/ \E o \in out : q(o)[1] = "cnf" /\ f = o.frame
      /\ \A f \in packetIns' :
           f \in packetIns \/ \E o \in out : q(o)[1] = "controller" /\ f = o.frame
      /\ UNCHANGED <<installed, tables, reroutes, frames>>
  BY DEF Forward
<1>2. OnWire(w) /\ TablesInv
  BY DEF PlaneInv, TrafficInv
<1>3. Emits(w.at, w.frame, out)
  BY <1>2, SwitchEmits
<1>4. frames \in Nat /\ frames \in 0..MaxFrames
  BY <1>2 DEF TablesInv, Counters
<1>5. TablesInv'
  BY <1>1, <1>2, <1>4, SameTables
<1>6. /\ \A v : OnWire(v) => OnWire(v)'
      /\ \A d : AtHost(d) => AtHost(d)'
      /\ \A f : AtCnf(f) => AtCnf(f)'
      /\ \A f : AtController(f) => AtController(f)'
  BY <1>1, <1>4, Later DEF Ready
<1>7. \A o \in out : /\ q(o)[1] \in Switch => OnWire(NewWire(o))
                     /\ q(o)[1] = "host" => AtHost(NewHost(o))
                     /\ q(o)[1] = "cnf" => AtCnf(o.frame)
                     /\ q(o)[1] = "controller" => AtController(o.frame)
                     /\ Same(w.frame, o.frame)
  BY <1>3 DEF Emits, Fits
<1>8. CalmData(w.frame) =>
        \A o, p \in out : q(o)[1] \in Switch \cup {"host"} /\ q(p)[1] \in Switch \cup {"host"}
                            => o = p
  BY <1>3 DEF Emits, Goes
<1>9. /\ \A o : NewWire(o).frame = o.frame /\ NewHost(o).frame = o.frame
      /\ "host" \notin Switch
  BY DEF Switch, Edge, Router
<1> HIDE DEF out, q, NewWire, NewHost
<1>10. TrafficInv'
  <2>1. \A x \in wires' : OnWire(x)
    BY <1>1, <1>7 DEF PlaneInv, TrafficInv
  <2>2. \A d \in delivered' : AtHost(d)
    BY <1>1, <1>7 DEF PlaneInv, TrafficInv
  <2>3. \A f \in mirrored' : AtCnf(f)
    BY <1>1, <1>7 DEF PlaneInv, TrafficInv
  <2>4. \A f \in packetIns' : AtController(f)
    BY <1>1, <1>7 DEF PlaneInv, TrafficInv
  <2>. QED  BY <1>6, <2>1, <2>2, <2>3, <2>4 DEF TrafficInv
<1>11. \A o \in out : o.frame.id = w.frame.id /\ (CalmData(o.frame) <=> CalmData(w.frame))
  BY <1>7 DEF Same, CalmData
<1>12. \A x \in wires' :
         \/ x \in wires /\ x # w
         \/ /\ \E o \in out : q(o)[1] \in Switch /\ x = NewWire(o)
            /\ x.frame.id = w.frame.id /\ (CalmData(x.frame) <=> CalmData(w.frame))
  BY <1>1, <1>9, <1>11
<1>13. \A d \in delivered' :
         \/ d \in delivered
         \/ /\ \E o \in out : q(o)[1] = "host" /\ d = NewHost(o)
            /\ d.frame.id = w.frame.id /\ (CalmData(d.frame) <=> CalmData(w.frame))
  BY <1>1, <1>9, <1>11
<1>14. OneCopy
  BY DEF PlaneInv
<1>15. ASSUME NEW x \in wires', NEW v \in wires', CalmData(x.frame), v.frame.id = x.frame.id
       PROVE  v = x
  <2>1. CASE x \in wires /\ x # w
    BY <1>12, <1>14, <1>15, <2>1 DEF OneCopy
  <2>2. CASE ~(x \in wires /\ x # w)
    <3>1. x.frame.id = w.frame.id /\ CalmData(w.frame)
      BY <1>12, <1>15, <2>2
    <3>2. ~(v \in wires /\ v # w)
      BY <1>14, <1>15, <3>1 DEF OneCopy
    <3>3. PICK o \in out : q(o)[1] \in Switch /\ x = NewWire(o)
      BY <1>12, <2>2
    <3>4. PICK p \in out : q(p)[1] \in Switch /\ v = NewWire(p)
      BY <1>12, <3>2
    <3>. QED  BY <1>8, <3>1, <3>3, <3>4
  <2>. QED  BY <2>1, <2>2
<1>16. ASSUME NEW x \in wires', NEW d \in delivered', CalmData(x.frame) \/ CalmData(d.frame)
       PROVE  x.frame.id # d.frame.id
  <2>1. CASE x \in wires /\ x # w
    BY <1>13, <1>14, <1>16, <2>1 DEF OneCopy
  <2>2. CASE ~(x \in wires /\ x # w)
    <3>1. x.frame.id = w.frame.id /\ (CalmData(x.frame) <=> CalmData(w.frame))
      BY <1>12, <2>2
    <3>2. CASE d \in delivered
      BY <1>14, <1>16, <3>1, <3>2 DEF OneCopy
    <3>3. CASE d \notin delivered
      <4>1. CalmData(w.frame)
        BY <1>13, <1>16, <3>1, <3>3
      <4>2. PICK o \in out : q(o)[1] \in Switch /\ x = NewWire(o)
        BY <1>12, <2>2
      <4>3. PICK p \in out : q(p)[1] = "host" /\ d = NewHost(p)
        BY <1>13, <3>3
      <4>4. o = p
        BY <1>8, <4>1, <4>2, <4>3
      <4>. QED  BY <1>9, <4>2, <4>3, <4>4
    <3>. QED  BY <3>2, <3>3
  <2>. QED  BY <2>1, <2>2
<1>17. ASSUME NEW d \in delivered', NEW e \in delivered', CalmData(d.frame),
              e.frame.id = d.frame.id
       PROVE  e = d
  <2>1. CASE d \in delivered
    BY <1>13, <1>14, <1>17, <2>1 DEF OneCopy
  <2>2. CASE d \notin delivered
    <3>1. d.frame.id = w.frame.id /\ CalmData(w.frame)
      BY <1>13, <1>17, <2>2
    <3>2. e \notin delivered
      BY <1>14, <1>17, <3>1 DEF OneCopy
    <3>3. PICK o \in out : q(o)[1] = "host" /\ d = NewHost(o)
      BY <1>13, <2>2
    <3>4. PICK p \in out : q(p)[1] = "host" /\ e = NewHost(p)
      BY <1>13, <3>2
    <3>. QED  BY <1>8, <3>1, <3>3, <3>4
  <2>. QED  BY <2>1, <2>2
<1>18. OneCopy'
  BY <1>15, <1>16, <1>17 DEF OneCopy
<1>. QED  BY <1>5, <1>10, <1>18 DEF PlaneInv

(* Every table is empty at first, and nothing is under way.                *)
LEMMA PlaneInit == Init => PlaneInv
<1> SUFFICES ASSUME Init PROVE PlaneInv
  OBVIOUS
<1>1. Len(Setup) \in Nat /\ Len(Setup) > 0
  BY SetupParts
<1>2. \A w : ~Did(w)
  BY DEF Init, Did
<1>3. Counters /\ ~Ready
  BY <1>1, DataPlaneAssumption DEF Init, Counters, Ready
<1>4. Replicas
  BY DEF Init, Replicas, Edge
<1>5. MacTables
  BY <1>2 DEF Init, MacTables
<1>6. RouteTables
  BY DEF Init, RouteTables
<1>7. IdTables
  BY <1>2 DEF Init, IdTables
<1>8. TrafficInv /\ OneCopy
  BY DEF Init, TrafficInv, OneCopy
<1>. QED  BY <1>3, <1>4, <1>5, <1>6, <1>7, <1>8 DEF PlaneInv, TablesInv

(* Every step of setup, of te_plugin and of traffic keeps the invariant.   *)
LEMMA PlaneStep == PlaneInv /\ [Next]_vars => PlaneInv'
<1> SUFFICES ASSUME PlaneInv, [Next]_vars PROVE PlaneInv'
  OBVIOUS
<1>1. TablesInv /\ installed \in Nat /\ L2End \in Nat /\ frames \in 0..MaxFrames
  BY SetupParts DEF PlaneInv, TablesInv, Counters
<1>2. CASE SetupStep
  <2>1. PICK op : Write(op)
    BY <1>2 DEF SetupStep, PushPipeline, InstallMulticastGroup, InstallCloneSession,
                InstallL2Rule, InstallRoute, InstallMacRewrite, InstallSwitchId,
                InstallIntMarking
  <2>2. ~Ready /\ installed' = installed + 1 /\ UNCHANGED <<reroutes, traffic, frames>>
    BY <2>1 DEF Write
  <2>3. installed > L2End => installed' > L2End
    BY <1>1, <2>2
  <2>4. TablesInv'
    BY <1>1, <1>2, SetupTables
  <2>. QED  BY <2>2, <2>3, <2>4, QuietTraffic
<1>3. ASSUME NEW h \in Hosts2, Reroute(h) PROVE PlaneInv'
  <2>1. UNCHANGED <<installed, traffic, frames>>
    BY <1>3 DEF Reroute
  <2>2. TablesInv'
    BY <1>1, <1>3, RerouteTables
  <2>. QED  BY <2>1, <2>2, QuietTraffic DEF Ready
<1>4. CASE \/ \E h, g \in Host : SendData(h, g)
           \/ \E h \in Host : SendArp(h)
           \/ SendReport
  BY <1>4, SendStep
<1>5. ASSUME NEW w \in wires, Forward(w) PROVE PlaneInv'
  BY <1>5, ForwardStep
<1>6. CASE UNCHANGED vars
  <2>1. UNCHANGED <<installed, tables, reroutes, traffic, frames>>
    BY <1>6 DEF vars
  <2>2. TablesInv'
    BY <1>1, <2>1, SameTables
  <2>. QED  BY <2>1, <2>2, QuietTraffic DEF Ready
<1>. QED  BY <1>2, <1>3, <1>4, <1>5, <1>6 DEF Next

(***************************************************************************)
(* The tables and the traffic are as the invariant says, at every moment   *)
(* of setup and under any reroutes.                                        *)
(***************************************************************************)
THEOREM PlaneCorrect == Spec => []PlaneInv
<1>. QED  BY PlaneInit, PlaneStep, PTL DEF Spec

-----------------------------------------------------------------------------
(***************************************************************************)
(* The properties.                                                         *)
(***************************************************************************)

(* The stack of a frame on its way, or cloned to the cNF, is not empty and *)
(* leaves room for one more entry.                                         *)
LEMMA StackSize ==
  ASSUME NEW sw \in Switch, NEW t \in Ways(sw), t # <<>>
  PROVE  HopsOf(t) # NoHops /\ Len(HopsOf(t)) <= INT_MAX_HOPS
<1>1. t \in Trails /\ Len(t) \in 0..3 /\ 1 \in Ports
  BY WayShapes DEF Ports
<1>2. Len(HopsOf(t)) = Len(t)
  BY <1>1, LongerStack
<1>3. Len(t) # 0
  BY <1>1 DEF Trails
<1>4. \A n \in 0..3 : n <= INT_MAX_HOPS
  BY DataPlaneAssumption
<1>5. Len(NoHops) = 0
  BY DEF NoHops
<1>6. HopsOf(t) # NoHops
  BY <1>2, <1>3, <1>5
<1>. QED  BY <1>1, <1>2, <1>4, <1>6

(* What TypeOK says of the frames.                                         *)
LEMMA FramesTyped ==
  ASSUME PlaneInv, NEW f \in Frames
  PROVE  /\ f.type \in {"ipv4", "arp", "int", "cpu"} /\ f.src \in Mac /\ f.dst \in Mac
         /\ f.hops \in Hops /\ Len(f.hops) <= INT_MAX_HOPS
         /\ f.hops # NoHops <=> f.type = "int"
<1>1. Len(NoHops) <= INT_MAX_HOPS
  BY DataPlaneAssumption DEF NoHops
<1>2. f \in FrameSet
  BY DEF PlaneInv, TrafficInv, Frames, OnWire, AtHost, AtCnf, AtController, Sent
<1>3. \/ f.type # "int" /\ f.hops = NoHops
      \/ /\ f.type = "int" /\ f.hops = HopsOf(f.trail) /\ f.trail # <<>>
         /\ \E sw \in Switch : f.trail \in Ways(sw)
  <2>1. CASE \E w \in wires : f = w.frame
    BY <2>1 DEF PlaneInv, TrafficInv, OnWire
  <2>2. CASE \E d \in delivered : f = d.frame
    BY <2>2 DEF PlaneInv, TrafficInv, AtHost
  <2>3. CASE f \in mirrored
    <3>1. "s4" \in Switch /\ Ways("s4") = WaysToS4
      BY Switches DEF Ways
    <3>. QED  BY <2>3, <3>1 DEF PlaneInv, TrafficInv, AtCnf
  <2>4. CASE f \in packetIns
    BY <2>4 DEF PlaneInv, TrafficInv, AtController
  <2>. QED  BY <2>1, <2>2, <2>3, <2>4 DEF Frames
<1>4. f.type = "int" => f.hops # NoHops /\ Len(f.hops) <= INT_MAX_HOPS
  BY <1>3, StackSize
<1>. QED  BY <1>1, <1>2, <1>3, <1>4 DEF FrameSet

(* What TypeOK says of the tables.                                         *)
LEMMA TablesTyped ==
  ASSUME TablesInv
  PROVE  /\ pipeline \subseteq Switch
         /\ \A sw \in Edge : mcast[sw] \subseteq Ports /\ clone[sw] \subseteq {100, 200}
         /\ \A sw \in Edge : DOMAIN dMac[sw] \subseteq Mac /\ ToSet(dMac[sw]) \subseteq Ports
         /\ \A sw \in Router, dst \in Host \cup {"subnet1"} :
              dst \in DOMAIN lpm[sw] => lpm[sw][dst] \in [port : Ports, mac : Mac]
         /\ \A sw \in Router : DOMAIN rewrite[sw] \subseteq Ports
         /\ switchId \in [Switch -> 0..4] /\ marking \in BOOLEAN
<1>1. pipeline \subseteq Switch
  BY DEF TablesInv, Replicas
<1>2. \A sw \in Edge : mcast[sw] \subseteq Ports /\ clone[sw] \subseteq {100, 200}
  BY DEF TablesInv, Replicas, Ports
<1>3. \A sw \in Edge : \A m, p : MacPort(sw, m, p) => m \in Mac /\ p \in Ports
  BY AccessPorts, Names DEF MacPort, Mac, Ports
<1>4. \A sw \in Edge : \A m \in DOMAIN dMac[sw] : m \in Mac /\ dMac[sw][m] \in Ports
  BY <1>3 DEF TablesInv, MacTables
<1>5. \A sw \in Edge : DOMAIN dMac[sw] \subseteq Mac /\ ToSet(dMac[sw]) \subseteq Ports
  BY <1>4 DEF ToSet
<1>6. \A sw \in Router : \A x, r : RouteTo(sw, x, r) => r \in [port : Ports, mac : Mac]
  BY Names DEF RouteTo, ShortRoute, LongRoute, Ports, Mac
<1>7. \A sw \in Router : \A x \in DOMAIN lpm[sw] : lpm[sw][x] \in [port : Ports, mac : Mac]
  BY <1>6 DEF TablesInv, RouteTables
<1>8. \A sw \in Router : DOMAIN rewrite[sw] \subseteq Ports
  BY DEF TablesInv, RouteTables, Ports
<1>9. \A sw \in Switch : NumberOf(sw) \in 0..4
  BY Switches DEF NumberOf
<1>10. switchId \in [Switch -> 0..4] /\ marking \in BOOLEAN
  BY <1>9 DEF TablesInv, IdTables
<1>. QED  BY <1>1, <1>2, <1>5, <1>7, <1>8, <1>10

(***************************************************************************)
(* Type correctness: tables hold ports and MACs, and an INT stack is there *)
(* exactly in INT frames, never longer than INT_MAX_HOPS of headers.p4.    *)
(***************************************************************************)
THEOREM TypeCorrect == Spec => []TypeOK
<1>1. PlaneInv => TypeOK
  <2> SUFFICES ASSUME PlaneInv PROVE TypeOK
    OBVIOUS
  <2>1. TablesInv /\ installed \in 0..Len(Setup)
        /\ reroutes \in 0..MaxReroutes /\ frames \in 0..MaxFrames
    BY DEF PlaneInv, TablesInv, Counters
  <2>2. \A f \in Frames :
          /\ f.type \in {"ipv4", "arp", "int", "cpu"} /\ f.src \in Mac /\ f.dst \in Mac
          /\ f.hops \in Hops /\ Len(f.hops) <= INT_MAX_HOPS
          /\ f.hops # NoHops <=> f.type = "int"
    BY FramesTyped
  <2>. QED  BY <2>1, <2>2, TablesTyped DEF TypeOK
<1>. QED  BY <1>1, PlaneCorrect, PTL

(***************************************************************************)
(* No host ever receives telemetry: s4's strip_int takes the stack off     *)
(* every INT frame, whenever it comes and by whatever way.                 *)
(***************************************************************************)
THEOREM HostsGetNoTelemetry == Spec => []NoIntAtHosts
<1>1. PlaneInv => NoIntAtHosts
  BY DEF PlaneInv, TrafficInv, AtHost, NoIntAtHosts
<1>. QED  BY <1>1, PlaneCorrect, PTL

(***************************************************************************)
(* The stacks that the cNF gets are true: they name the switches the frame *)
(* has passed and the ports it left them by, as insert_int of s1 and       *)
(* write_hop of s2 and s3 recorded them, even during a reroute.            *)
(***************************************************************************)
THEOREM StacksAreTrue == Spec => []TruthfulStack
<1>1. PlaneInv => TruthfulStack
  BY DEF PlaneInv, TrafficInv, AtCnf, HopsOf, HopOf, TruthfulStack
<1>. QED  BY <1>1, PlaneCorrect, PTL

(***************************************************************************)
(* The /32 routes of _install_l3_rules do what they are for: a routed      *)
(* frame is never flooded by an edge switch, so only its addressee gets    *)
(* it, at every moment of setup.                                           *)
(***************************************************************************)
THEOREM RoutedFramesAreNotFlooded == Spec => []RoutedFramesReachTheirHost
<1>1. PlaneInv => RoutedFramesReachTheirHost
  BY DEF PlaneInv, TrafficInv, AtHost, RoutedFramesReachTheirHost
<1>. QED  BY <1>1, PlaneCorrect, PTL

(***************************************************************************)
(* No frame goes round in circles, whatever mixture of the routes of       *)
(* setup_plugin and of te_plugin it meets on s2.                           *)
(***************************************************************************)
THEOREM NoLoops == Spec => []LoopFree
<1>1. PlaneInv => LoopFree
  <2> SUFFICES ASSUME PlaneInv, NEW w \in wires
               PROVE  /\ w.frame.calm => Visits(w.frame, w.at) = {}
                      /\ \A i, j \in Visits(w.frame, w.at) : i = j
    BY DEF LoopFree
  <2> DEFINE f == w.frame
             t == f.trail
  <2>1. OnWire(w)
    BY DEF PlaneInv, TrafficInv
  <2>2. w.at \in Switch /\ t \in Ways(w.at) /\ Sent(f)
    BY <2>1 DEF OnWire
  <2>3. Once(t, w.at)
    BY <2>2, WayShapes
  <2>4. ASSUME f.calm PROVE \A i \in DOMAIN t : t[i][1] # w.at
    <3>1. CASE w.at \in Router
      BY <2>2, <3>1, WayShapes
    <3>2. CASE w.at \in Edge /\ t = <<>>
      BY <3>2
    <3>3. CASE w.at \in Edge /\ t # <<>>
      <4>1. /\ w.at = "s1" => f.to \in Hosts1 /\ t \in WaysToS1
            /\ w.at = "s4" => f.to \in Hosts2 /\ t \in WaysToS4
            /\ w.at = "s1" \/ w.at = "s4"
        BY <2>1, <3>3 DEF OnWire, Ways, Edge
      <4>2. f.kind = "data"
        BY <2>2, <4>1, Names DEF Sent, FrameSet
      <4>3. \/ t[1] = <<"s1", 4>> /\ f.to \in Hosts2
            \/ t[1] = <<"s4", 4>> /\ f.to \in Hosts1
        BY <2>1, <2>4, <3>3, <4>2 DEF OnWire, CalmData
      <4>4. CASE w.at = "s1"
        <5>1. t[1] = <<"s4", 4>>
          BY <4>1, <4>3, <4>4, Names
        <5>. QED  BY <3>3, <4>1, <4>4, <5>1, WayShapes
      <4>5. CASE w.at = "s4"
        <5>1. t[1] = <<"s1", 4>>
          BY <4>1, <4>3, <4>5, Names
        <5>. QED  BY <3>3, <4>1, <4>5, <5>1, WayShapes
      <4>. QED  BY <4>1, <4>4, <4>5
    <3>. QED  BY <2>2, <3>1, <3>2, <3>3 DEF Switch
  <2>. QED  BY <2>3, <2>4 DEF Visits, Once
<1>. QED  BY <1>1, PlaneCorrect, PTL

(***************************************************************************)
(* A unicast frame sent after setup has one copy, and its addressee gets   *)
(* it: the switches neither flood it nor duplicate it, whichever routes    *)
(* te_plugin changes meanwhile.                                            *)
(***************************************************************************)
THEOREM CalmFramesAreExact == Spec => []CalmDeliveryIsExact
<1>1. PlaneInv => CalmDeliveryIsExact
  <2> SUFFICES ASSUME PlaneInv, NEW d \in delivered, CalmData(d.frame)
               PROVE  /\ d.host = d.frame.to
                      /\ \A e \in delivered : e.frame.id = d.frame.id => e = d
    BY DEF CalmDeliveryIsExact, CalmData
  <2>1. d.host = d.frame.to
    BY DEF PlaneInv, TrafficInv, AtHost
  <2>2. \A e \in delivered : e.frame.id = d.frame.id => e = d
    BY DEF PlaneInv, OneCopy
  <2>. QED  BY <2>1, <2>2
<1>. QED  BY <1>1, PlaneCorrect, PTL

=============================================================================
