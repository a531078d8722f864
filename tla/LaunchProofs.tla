---------------------------- MODULE LaunchProofs ----------------------------
(***************************************************************************)
(* The start and the end of a simulation, for any port that my_topo.py is  *)
(* told to begin with and any leftovers.  What matters has a part of the    *)
(* invariant each: who listens on a switch's port, that a cNF which is     *)
(* still there behind the script's last steps has its interface, and       *)
(* whether the clean-up came before the script was through.                *)
(***************************************************************************)
EXTENDS Launch, TLAPS

(* The script has seen its first ports, each of them one of the topology.  *)
PortsInv ==
  /\ \A p \in AllPorts : listener[p] # "none" => p \in TopologyPorts
  /\ \A i \in 1..waited : AwaitedPort(i) \in TopologyPorts
  /\ script \in {"build", "wait"} => waited < N
  /\ script \notin {"build", "wait", "aborted"} => waited = N

(* my_topo.py starts a switch on ports that were free when it came up, and *)
(* nobody but its own processes takes them meanwhile.                      *)
SwitchesInv ==
  /\ script = "build" => mininet = "off"
  /\ mininet = "construct" => made < N /\ \A i \in 1..made : listener[PortOf(i)] = "none"
  /\ mininet = "start" =>
       /\ made < N
       /\ \A i \in 1..N : listener[PortOf(i)] = IF i <= made THEN "ours" ELSE "none"
  /\ mininet \in {"veth", "cli"} => \A i \in 1..N : listener[PortOf(i)] = "ours"

(* The interface that the script has brought up stays so as long as there  *)
(* is a cNF, and a clean-up that is not too early finds no container that  *)
(* is still to come.                                                       *)
CnfInv ==
  /\ container = "starting" => script = "await"
  /\ script \in {"address", "controller", "done"} /\ container \in {"loading", "sniffing"} =>
       veth = "wired"
  /\ script = "done" /\ ~CleaningUp => controller = "up"
  /\ CleaningUp /\ ~late => ScriptEnded
  /\ mininet \in {"kill", "ended"} /\ ~late => container \in {"none", "gone"}
  /\ mininet = "ended" => late \/ controller # "up"

LaunchInv == TypeOK /\ PortsInv /\ SwitchesInv /\ CnfInv

-----------------------------------------------------------------------------
(* The four ports of the topology are different, and all of them count.    *)
LEMMA Ports ==
  /\ \A i \in 1..N : PortOf(i) \in AllPorts /\ AwaitedPort(i) \in AllPorts
  /\ \A i, j \in 1..N : PortOf(i) = PortOf(j) => i = j
  /\ \A p \in TopologyPorts : \E i \in 1..N : p = PortOf(i)
  BY LaunchAssumption DEF N, PortOf, AwaitedPort, AllPorts, TopologyPorts

(* A simulation that has not begun satisfies the invariant, whatever an    *)
(* earlier one has left.                                                   *)
LEMMA InitInv == Init => LaunchInv
<1> SUFFICES ASSUME Init PROVE LaunchInv
  OBVIOUS
<1> USE DEF Init
<1>1. TypeOK
  <2>1. listener \in [AllPorts -> {"none", "ours", "old"}]
    OBVIOUS
  <2>2. waited \in 0..N /\ made \in 0..N
    BY DEF N
  <2>3. ~(made > 0)
    OBVIOUS
  <2>4. /\ veth \in {"none", "free", "attached", "moved", "wired"}
        /\ container \in {"none", "starting", "loading", "sniffing", "ending", "gone"}
        /\ controller \in {"none", "up", "stopped"} /\ late \in BOOLEAN /\ raced \in BOOLEAN
    OBVIOUS
  <2>5. script = "build" /\ mininet = "off"
    OBVIOUS
  <2> HIDE DEF Init
  <2>. QED  BY <2>1, <2>2, <2>3, <2>4, <2>5 DEF TypeOK
<1>2. PortsInv
  BY DEF PortsInv, N
<1>3. SwitchesInv
  BY DEF SwitchesInv
<1>4. CnfInv
  BY DEF CnfInv, CleaningUp
<1>. QED  BY <1>1, <1>2, <1>3, <1>4 DEF LaunchInv

(* What happens to the container leaves the script, Mininet, its switches  *)
(* and the controller alone.                                               *)
LEMMA ContainerLeaves == Container => UNCHANGED <<shell, topology, listener>>
  BY DEF Container, DockerFails, ContainerStarts, CnfSniffs, CnfFails, CnfEnds, Becomes

(* Every step keeps the types. *)
LEMMA TypeStep == LaunchInv /\ [Next]_vars => TypeOK'
<1> SUFFICES ASSUME LaunchInv, [Next]_vars PROVE TypeOK'
  OBVIOUS
<1> USE DEF LaunchInv, TypeOK, shell, topology
<1>1. CASE Script
  <2>1. CASE SeePort
    <3>1. waited' \in 0..N
      BY <2>1 DEF SeePort, Step, PortsInv, N
    <3>. QED  BY <2>1, <3>1 DEF SeePort, Step
  <2>2. CASE BuildFails \/ OpenMininet \/ OpenController \/ SeeContainer \/ RunContainer
    BY <2>2 DEF BuildFails, OpenMininet, OpenController, SeeContainer, RunContainer, Step
  <2>3. CASE DeleteVeth \/ RemoveContainer
    BY <2>3 DEF DeleteVeth, RemoveContainer, VethWithoutContainer, Step
  <2>4. CASE CreateVeth \/ AttachToS4 \/ InspectPid \/ MoveVeth
    BY <2>4 DEF CreateVeth, AttachToS4, InspectPid, MoveVeth, Step
  <2>5. CASE RenameVeth \/ BringVethUp \/ AddAddress
    BY <2>5 DEF RenameVeth, BringVethUp, AddAddress, InContainer, Step
  <2>. QED  BY <1>1, <2>1, <2>2, <2>3, <2>4, <2>5 DEF Script
<1>2. CASE Container
  BY <1>2 DEF Container, DockerFails, ContainerStarts, CnfSniffs, CnfFails, CnfEnds, Becomes,
              VethWithoutContainer
<1>3. CASE ConstructSwitch
  BY <1>3 DEF ConstructSwitch, Turn, SwitchesInv, N
<1>4. CASE StartSwitch
  <2>1. made + 1 \in 0..N
    BY <1>4 DEF StartSwitch, Turn, SwitchesInv, N
  <2>2. listener' \in [AllPorts -> {"none", "ours", "old"}]
    BY <1>4 DEF StartSwitch
  <2>. QED  BY <1>4, <2>1, <2>2 DEF StartSwitch, Turn
<1>5. CASE SwitchFails
  <2>1. listener' \in [AllPorts -> {"none", "ours", "old"}]
    BY <1>5 DEF SwitchFails
  <2>2. late' \in BOOLEAN
    BY <1>5 DEF SwitchFails, ScriptEnded
  <2>. QED  BY <1>5, <2>1, <2>2 DEF SwitchFails, Turn, N
<1>6. CASE Quit
  <2>1. listener' \in [AllPorts -> {"none", "ours", "old"}]
    BY <1>6 DEF Quit
  <2>2. late' \in BOOLEAN
    BY <1>6 DEF Quit, ScriptEnded
  <2>. QED  BY <1>6, <2>1, <2>2 DEF Quit, Turn, N
<1>7. CASE SetUpVeth \/ StopContainer \/ KillController
  <2>1. CASE SetUpVeth
    <3>1. raced' \in BOOLEAN /\ mininet' = "cli"
      BY <2>1 DEF SetUpVeth, Turn
    <3>. QED  BY <2>1, <3>1 DEF SetUpVeth, VethAfterTopology
  <2>2. CASE StopContainer
    BY <2>2 DEF StopContainer, Turn, VethWithoutContainer
  <2>3. CASE KillController
    BY <2>3 DEF KillController, Turn, ControllerKilled
  <2>. QED  BY <1>7, <2>1, <2>2, <2>3
<1>8. CASE UNCHANGED vars
  BY <1>8 DEF vars
<1>. QED  BY <1>1, <1>2, <1>3, <1>4, <1>5, <1>6, <1>7, <1>8 DEF Next, Topology

(* The script only goes on behind a port that somebody listens on, and     *)
(* those who listen are on the topology's ports. *)
LEMMA PortsStep == LaunchInv /\ [Next]_vars => PortsInv'
<1> SUFFICES ASSUME LaunchInv, [Next]_vars PROVE PortsInv'
  OBVIOUS
<1> USE DEF LaunchInv, PortsInv, shell, topology
<1>1. CASE SeePort
  <2>1. script = "wait" /\ waited \in 0..N /\ waited' = waited + 1 /\ listener' = listener
    BY <1>1 DEF SeePort, Step, TypeOK
  <2>2. waited + 1 \in 1..N
    BY <2>1 DEF N
  <2>3. AwaitedPort(waited + 1) \in TopologyPorts
    BY <1>1, <2>2, Ports DEF SeePort
  <2>4. \A i \in 1..waited' : AwaitedPort(i) \in TopologyPorts
    BY <2>1, <2>3
  <2>5. script' = IF waited + 1 = N THEN "unlink" ELSE "wait"
    BY <1>1 DEF SeePort, Step
  <2>. QED  BY <2>1, <2>2, <2>4, <2>5 DEF N
<1>2. CASE Script /\ ~SeePort
  BY <1>2 DEF Script, Step, BuildFails, OpenMininet, DeleteVeth, RemoveContainer, CreateVeth,
              AttachToS4, RunContainer, SeeContainer, InspectPid, MoveVeth, RenameVeth,
              BringVethUp, AddAddress, InContainer, OpenController
<1>3. CASE StartSwitch
  <2>1. made + 1 \in 1..N
    BY <1>3 DEF StartSwitch, Turn, SwitchesInv, TypeOK, N
  <2>2. PortOf(made + 1) \in TopologyPorts
    BY <2>1 DEF TopologyPorts
  <2>3. \A q \in AllPorts : listener'[q] # "none" => q \in TopologyPorts
    BY <1>3, <2>2 DEF StartSwitch, TypeOK
  <2>. QED  BY <1>3, <2>3 DEF StartSwitch
<1>4. CASE SwitchFails
  <2>1. PICK left \in SUBSET {PortOf(i) : i \in 1..(made + 1)} :
               listener' = [q \in AllPorts |-> IF q \in left THEN "old"
                                              ELSE IF listener[q] = "ours" THEN "none"
                                              ELSE listener[q]]
    BY <1>4 DEF SwitchFails
  <2>2. made + 1 \in 1..N
    BY <1>4 DEF SwitchFails, Turn, SwitchesInv, TypeOK, N
  <2>3. left \subseteq TopologyPorts
    BY <2>2 DEF TopologyPorts, N
  <2>4. \A q \in AllPorts : listener'[q] # "none" => q \in TopologyPorts
    BY <2>1, <2>3
  <2>. QED  BY <1>4, <2>4 DEF SwitchFails
<1>5. CASE Quit
  <2>1. \A q \in AllPorts : listener'[q] # "none" => q \in TopologyPorts
    BY <1>5 DEF Quit
  <2>. QED  BY <1>5, <2>1 DEF Quit
<1>6. CASE UNCHANGED <<script, waited, listener>>
  BY <1>6
<1>7. CASE ConstructSwitch \/ SetUpVeth \/ StopContainer \/ KillController \/ UNCHANGED vars
  <2>. QED  BY <1>6, <1>7 DEF ConstructSwitch, SetUpVeth, StopContainer, KillController, vars
<1>8. CASE Container
  <2>. QED  BY <1>6, <1>8, ContainerLeaves
<1>. QED  BY <1>1, <1>2, <1>3, <1>4, <1>5, <1>7, <1>8 DEF Next, Topology

(* A switch of this simulation comes up on a port that nobody had, and is  *)
(* the one that listens there until its own processes go. *)
LEMMA SwitchesStep == LaunchInv /\ [Next]_vars => SwitchesInv'
<1> SUFFICES ASSUME LaunchInv, [Next]_vars PROVE SwitchesInv'
  OBVIOUS
<1> USE DEF LaunchInv, SwitchesInv, shell, topology
<1>1. CASE Script /\ ~OpenMininet
  <2>1. UNCHANGED <<topology, listener>> /\ script' # "build"
    BY <1>1 DEF Script, Step, BuildFails, SeePort, DeleteVeth, RemoveContainer, CreateVeth,
                AttachToS4, RunContainer, SeeContainer, InspectPid, MoveVeth, RenameVeth,
                BringVethUp, AddAddress, InContainer, OpenController
  <2>. QED  BY <2>1
<1>2. CASE OpenMininet
  <2>1. made = 0
    BY <1>2 DEF OpenMininet, Step, TypeOK
  <2>. QED  BY <1>2, <2>1 DEF OpenMininet, Step, N
<1>3. CASE ConstructSwitch
  <2>0. mininet = "construct" /\ script' = script /\ listener' = listener /\ made + 1 \in 1..N
    BY <1>3 DEF ConstructSwitch, TypeOK, N
  <2>1. CASE PortTaken(made + 1)
    BY <1>3, <2>0, <2>1 DEF ConstructSwitch, Turn
  <2>2. CASE ~PortTaken(made + 1)
    <3>1. \A i \in 1..(made + 1) : listener[PortOf(i)] = "none"
      <4>1. made \in 0..N
        BY DEF TypeOK
      <4>. QED  BY <2>0, <2>2, <4>1 DEF PortTaken, N
    <3>2. CASE made + 1 = N
      BY <1>3, <2>0, <2>2, <3>1, <3>2 DEF ConstructSwitch, Turn, N
    <3>3. CASE made + 1 # N
      BY <1>3, <2>0, <2>2, <3>1, <3>3 DEF ConstructSwitch, Turn, N
    <3>. QED  BY <3>2, <3>3
  <2>. QED  BY <2>1, <2>2
<1>4. CASE StartSwitch
  <2>1. mininet = "start" /\ script' = script /\ made' = made + 1 /\ made + 1 \in 1..N
    BY <1>4 DEF StartSwitch, Turn, TypeOK, N
  <2>2. \A i \in 1..N : listener'[PortOf(i)] = IF i <= made' THEN "ours" ELSE "none"
    <3> SUFFICES ASSUME NEW i \in 1..N
                 PROVE  listener'[PortOf(i)] = IF i <= made' THEN "ours" ELSE "none"
      OBVIOUS
    <3>1. PortOf(i) \in AllPorts
      BY Ports
    <3>2. CASE i = made + 1
      BY <1>4, <2>1, <3>1, <3>2 DEF StartSwitch, TypeOK
    <3>3. CASE i # made + 1
      <4>1. PortOf(i) # PortOf(made + 1)
        BY <2>1, <3>3, Ports
      <4>2. listener'[PortOf(i)] = listener[PortOf(i)]
        BY <1>4, <3>1, <4>1 DEF StartSwitch, TypeOK
      <4>3. made \in 0..N
        BY DEF TypeOK
      <4>4. i <= made' <=> i <= made
        BY <2>1, <3>3, <4>3 DEF N
      <4>. QED  BY <2>1, <4>2, <4>4
    <3>. QED  BY <3>2, <3>3
  <2>3. mininet' = IF made + 1 = N THEN "veth" ELSE "start"
    BY <1>4 DEF StartSwitch, Turn
  <2>. QED  BY <2>1, <2>2, <2>3 DEF N
<1>5. CASE SwitchFails \/ Quit
  BY <1>5 DEF SwitchFails, Quit, Turn
<1>6. CASE SetUpVeth \/ StopContainer \/ KillController
  BY <1>6 DEF SetUpVeth, StopContainer, KillController, Turn
<1>7. CASE Container \/ UNCHANGED vars
  BY <1>7, ContainerLeaves DEF vars
<1>. QED  BY <1>1, <1>2, <1>3, <1>4, <1>5, <1>6, <1>7 DEF Next, Script, Topology

(* The container and the controller: the interface of a cNF that is there  *)
(* is left alone by my_topo.py's own ip link add, and a clean-up takes     *)
(* both down. *)
LEMMA CnfStep == LaunchInv /\ [Next]_vars => CnfInv'
<1> SUFFICES ASSUME LaunchInv, [Next]_vars PROVE CnfInv'
  OBVIOUS
<1> USE DEF LaunchInv, CnfInv, CleaningUp, ScriptEnded, shell, topology
<1>1. CASE BuildFails \/ OpenMininet \/ SeePort \/ DeleteVeth \/ RemoveContainer \/ CreateVeth
           \/ AttachToS4
  <2>. QED  BY <1>1 DEF Step, SwitchesInv, BuildFails, OpenMininet, SeePort, DeleteVeth,
                        RemoveContainer, CreateVeth, AttachToS4
<1>2. CASE RunContainer \/ SeeContainer
  BY <1>2 DEF Step, RunContainer, SeeContainer, Running
<1>3. CASE OpenController
  BY <1>3 DEF Step, OpenController
<1>4. CASE InspectPid \/ MoveVeth
  BY <1>4 DEF Step, InspectPid, MoveVeth, Running
<1>5. CASE RenameVeth
  BY <1>5 DEF RenameVeth, InContainer, Step
<1>6. CASE BringVethUp
  BY <1>6 DEF BringVethUp, InContainer, Step
<1>7. CASE AddAddress
  BY <1>7 DEF AddAddress, InContainer, Step
<1>8. CASE Container
  <2>1. UNCHANGED <<shell, topology>>
    BY <1>8, ContainerLeaves
  <2>2. container \in {"starting", "loading", "sniffing", "ending"} /\ container' # "starting"
    BY <1>8 DEF Container, DockerFails, ContainerStarts, CnfSniffs, CnfFails, CnfEnds, Becomes
  <2>3. script = "await" \/ container' \in {"sniffing", "ending", "gone"}
    BY <1>8 DEF Container, DockerFails, ContainerStarts, CnfSniffs, CnfFails, CnfEnds, Becomes
  <2>4. container' = "sniffing" => veth' = "wired"
    BY <1>8 DEF Container, DockerFails, ContainerStarts, CnfSniffs, CnfFails, CnfEnds, Becomes
  <2>. QED  BY <2>1, <2>2, <2>3, <2>4
<1>9. CASE ConstructSwitch \/ SwitchFails \/ Quit
  <2>1. UNCHANGED <<shell, veth, container>> /\ ~CleaningUp
    BY <1>9 DEF ConstructSwitch, SwitchFails, Quit, Turn
  <2>2. (mininet' = "clean" /\ late' = ~ScriptEnded) \/ ~CleaningUp'
    <3>1. CASE ConstructSwitch
      BY <3>1 DEF ConstructSwitch, Turn
    <3>2. CASE SwitchFails \/ Quit
      BY <3>2 DEF SwitchFails, Quit, Turn
    <3>. QED  BY <1>9, <3>1, <3>2
  <2>. QED  BY <2>1, <2>2
<1>10. CASE StartSwitch
  BY <1>10 DEF StartSwitch, Turn
<1>11. CASE SetUpVeth
  BY <1>11 DEF SetUpVeth, Turn, VethAfterTopology
<1>12. CASE StopContainer
  BY <1>12 DEF StopContainer, Turn, TypeOK, Running, InNamespace, VethWithoutContainer
<1>13. CASE KillController
  BY <1>13 DEF KillController, Turn, ControllerKilled
<1>14. CASE UNCHANGED vars
  BY <1>14 DEF vars
<1>. QED  BY <1>1, <1>2, <1>3, <1>4, <1>5, <1>6, <1>7, <1>8, <1>9,
             <1>10, <1>11, <1>12, <1>13, <1>14 DEF Next, Script, Topology

(* The parts of the invariant together are inductive. *)
LEMMA InvStep == LaunchInv /\ [Next]_vars => LaunchInv'
  BY TypeStep, PortsStep, SwitchesStep, CnfStep DEF LaunchInv

(***************************************************************************)
(* However the script, the terminal and the container interleave and       *)
(* whatever an earlier simulation has left, the invariant holds.           *)
(***************************************************************************)
THEOREM LaunchCorrect == Spec => []LaunchInv
  BY InitInv, InvStep, PTL DEF Spec

(* The launch keeps the types, and counts switches only while it starts    *)
(* them. *)
THEOREM TypeCorrect == Spec => []TypeOK
<1>1. LaunchInv => TypeOK
  BY DEF LaunchInv
<1>. QED  BY <1>1, LaunchCorrect, PTL

(* The four ports that wait_for_port asks for can only be the topology's   *)
(* if my_topo.py was told to begin with the first of them.                 *)
LEMMA AwaitedAreOurs ==
  ASSUME \A i \in 1..N : AwaitedPort(i) \in TopologyPorts
  PROVE  \A i \in 1..N : AwaitedPort(i) = PortOf(i)
<1>1. AwaitedPort(1) \in TopologyPorts /\ AwaitedPort(4) \in TopologyPorts
  BY DEF N
<1>. QED  BY <1>1, LaunchAssumption DEF AwaitedPort, TopologyPorts, PortOf, N

(***************************************************************************)
(* SwitchesAreOurs, for every --grpc-port: wait_for_port takes any         *)
(* listener, but once it has seen all four and Mininet has its CLI, those  *)
(* behind the ports that port_add and the controller name are this         *)
(* simulation's switches, and nobody else's.                               *)
(***************************************************************************)
THEOREM SwitchesCorrect == Spec => []SwitchesAreOurs
<1>1. LaunchInv => SwitchesAreOurs
  <2> SUFFICES ASSUME LaunchInv, waited = N, mininet = "cli" PROVE SwitchesReady
    BY DEF SwitchesAreOurs
  <2>1. \A i \in 1..N : AwaitedPort(i) \in TopologyPorts
    BY DEF LaunchInv, PortsInv
  <2>2. \A i \in 1..N : listener[PortOf(i)] = "ours"
    BY DEF LaunchInv, SwitchesInv
  <2>. QED  BY <2>1, <2>2, AwaitedAreOurs DEF SwitchesReady
<1>. QED  BY <1>1, LaunchCorrect, PTL

(***************************************************************************)
(* ConnectedCnfStays: a cNF that is there when its interface has come up   *)
(* keeps it, and the script goes on to its end, through whatever           *)
(* my_topo.py does at the same time, until the clean-up.                   *)
(***************************************************************************)
THEOREM CnfStaysConnected == Spec => ConnectedCnfStays
<1>1. Connected /\ [Next]_vars => Connected' \/ CleaningUp'
  <2> SUFFICES ASSUME Connected, [Next]_vars PROVE Connected' \/ CleaningUp'
    OBVIOUS
  <2> USE DEF Connected, CleaningUp, shell
  <2>1. CASE Script
    BY <2>1 DEF Script, Step, BuildFails, OpenMininet, SeePort, DeleteVeth, RemoveContainer,
                CreateVeth, AttachToS4, RunContainer, SeeContainer, InspectPid, MoveVeth,
                RenameVeth, BringVethUp, AddAddress, InContainer, OpenController, Running,
                InNamespace
  <2>2. CASE Container
    BY <2>2 DEF Container, DockerFails, ContainerStarts, CnfSniffs, CnfFails, CnfEnds, Becomes
  <2>3. CASE ConstructSwitch \/ StartSwitch \/ SwitchFails \/ Quit
    BY <2>3 DEF ConstructSwitch, StartSwitch, SwitchFails, Quit
  <2>4. CASE SetUpVeth
    BY <2>4 DEF SetUpVeth, VethAfterTopology
  <2>5. CASE StopContainer \/ KillController
    BY <2>5 DEF StopContainer, KillController, Turn
  <2>6. CASE UNCHANGED vars
    BY <2>6 DEF vars
  <2>. QED  BY <2>1, <2>2, <2>3, <2>4, <2>5, <2>6 DEF Next, Topology
<1>2. [Next]_vars => [Connected => Connected' \/ CleaningUp']_vars
  BY <1>1
<1>. QED  BY <1>2, PTL DEF Spec, ConnectedCnfStays

(***************************************************************************)
(* TearDownIsComplete: unless the clean-up came before the script's end,   *)
(* docker stop and pkill leave neither the cNF nor the controller.         *)
(***************************************************************************)
THEOREM TearDownLeavesNothing == Spec => []TearDownIsComplete
<1>1. LaunchInv => TearDownIsComplete
  BY DEF LaunchInv, CnfInv, TearDownIsComplete, CleaningUp
<1>. QED  BY <1>1, LaunchCorrect, PTL
=============================================================================
