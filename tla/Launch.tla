------------------------------- MODULE Launch -------------------------------
(***************************************************************************)
(* The start and the end of a simulation: run_sim.sh, the terminal it      *)
(* opens for Mininet (my_topo.py, then a clean-up), the switch processes,  *)
(* the cNF's container and the controller's terminal run side by side, and *)
(* both the script and my_topo.py create the cNF's veth pair.              *)
(*                                                                         *)
(* The script has set -e: a command that fails ends it, except in loops    *)
(* and before "|| true".  The container's process is cnf.py, which opens   *)
(* its interface as soon as it is loaded, and ends if it is not there or   *)
(* not up.  Switch processes and the cNF of an earlier simulation may      *)
(* still be there.                                                         *)
(***************************************************************************)
EXTENDS Integers

CONSTANTS GrpcPort  \* my_topo.py --grpc-port, 50051

ASSUME LaunchAssumption == GrpcPort \in Nat

VARIABLES
  script,     \* what run_sim.sh does next
  waited,     \* how many switches it has waited for
  mininet,    \* what the Mininet terminal does next
  made,       \* how many switches my_topo.py has constructed, then started
  listener,   \* listener[port]: the switch process: "none", "ours" or "old"
  veth,       \* the pair: "none", "free", "attached" to s4, "moved" into the
              \* container's namespace, where it is down, or "wired": up there
  container,  \* "none", "starting"; then its process, cnf.py: "loading",
              \* "sniffing" or "ending"; "gone"
  controller, \* "none", "up" or "stopped"
  late,       \* the clean-up began before the script had ended (history)
  raced       \* my_topo.py's veth pair came while the script had none (history)

shell == <<script, waited, controller>>
topology == <<mininet, made, late, raced>>
vars == <<shell, topology, listener, veth, container>>

N == 4

(* my_topo.py gives the i-th switch the i-th port.  Mutant: one too far.   *)
PortOneTooFar(i) == GrpcPort + i
PortOf(i) == GrpcPort + i - 1

(* wait_for_port, port_add and the controller name the ports themselves.   *)
AwaitedPort(i) == 50050 + i

TopologyPorts == {PortOf(i) : i \in 1..N}
AllPorts == TopologyPorts \cup {AwaitedPort(i) : i \in 1..N}

ScriptEnded == script \in {"done", "aborted"}

(* docker inspect says that the container is running.                      *)
Running == container \in {"loading", "sniffing", "ending"}

Init ==
  /\ script = "build" /\ waited = 0
  /\ mininet = "off" /\ made = 0 /\ late = FALSE /\ raced = FALSE
  /\ \E left \in SUBSET TopologyPorts :
       listener = [p \in AllPorts |-> IF p \in left THEN "old" ELSE "none"]
  /\ \/ veth \in {"none", "free"} /\ container = "none"
     \/ veth = "wired" /\ container = "sniffing"
  /\ controller = "none"

-----------------------------------------------------------------------------
(* run_sim.sh                                                              *)

Step(from, to) == script = from /\ script' = to

(* Compile, build the image; then the Mininet terminal is on its own.      *)
BuildFails ==
  Step("build", "aborted") /\ UNCHANGED <<waited, controller, topology, listener, veth, container>>

OpenMininet ==
  /\ Step("build", "wait")
  /\ mininet' = "construct"
  /\ UNCHANGED <<waited, controller, made, late, raced, listener, veth, container>>

(* nc finds somebody listening: any process will do. *)
SeePort ==
  /\ Step("wait", IF waited + 1 = N THEN "unlink" ELSE "wait")
  /\ listener[AwaitedPort(waited + 1)] # "none"
  /\ waited' = waited + 1
  /\ UNCHANGED <<controller, topology, listener, veth, container>>

DeleteVeth ==
  /\ Step("unlink", "remove")
  /\ veth' = "none"
  /\ UNCHANGED <<waited, controller, topology, listener, container>>

(* The namespace of a container takes the end of the pair in it along.     *)
InNamespace == veth \in {"moved", "wired"}
VethWithoutContainer == IF Running /\ InNamespace THEN "none" ELSE veth

RemoveContainer ==
  /\ Step("remove", "link")
  /\ container' = "none"
  /\ veth' = VethWithoutContainer
  /\ UNCHANGED <<waited, controller, topology, listener>>

(* ip link add fails if my_topo.py was faster. *)
CreateVeth ==
  /\ Step("link", IF veth = "none" THEN "attach" ELSE "aborted")
  /\ veth' = IF veth = "none" THEN "free" ELSE veth
  /\ UNCHANGED <<waited, controller, topology, listener, container>>

(* port_add by s4's Thrift server, if there is one. *)
AttachToS4 ==
  /\ LET works == listener[AwaitedPort(4)] # "none" /\ veth = "free"
     IN  /\ Step("attach", IF works THEN "container" ELSE "aborted")
         /\ veth' = IF works THEN "attached" ELSE veth
  /\ UNCHANGED <<waited, controller, topology, listener, container>>

RunContainer ==
  /\ Step("container", "await")
  /\ container' = "starting"
  /\ UNCHANGED <<waited, controller, topology, listener, veth>>

SeeContainer ==
  /\ Step("await", "pid") /\ Running
  /\ UNCHANGED <<waited, controller, topology, listener, veth, container>>

(* From here on each command fails once the container has ended.           *)
InspectPid ==
  /\ Step("pid", IF Running THEN "move" ELSE "aborted")
  /\ UNCHANGED <<waited, controller, topology, listener, veth, container>>

(* An interface that changes its namespace is down. *)
MoveVeth ==
  /\ LET works == Running /\ veth = "attached"
     IN  /\ Step("move", IF works THEN "rename" ELSE "aborted")
         /\ veth' = IF works THEN "moved" ELSE veth
  /\ UNCHANGED <<waited, controller, topology, listener, container>>

(* nsenter ... ip, which leaves the interface in state `after`. *)
InContainer(from, to, after) ==
  /\ LET works == Running /\ InNamespace
     IN  /\ Step(from, IF works THEN to ELSE "aborted")
         /\ veth' = IF works THEN after ELSE veth
  /\ UNCHANGED <<waited, controller, topology, listener, container>>

RenameVeth == InContainer("rename", "up", veth)
BringVethUp == InContainer("up", "address", "wired")
AddAddress == InContainer("address", "controller", veth)

OpenController ==
  /\ Step("controller", "done")
  /\ controller' = "up"
  /\ UNCHANGED <<waited, topology, listener, veth, container>>

Script ==
  \/ BuildFails \/ OpenMininet \/ SeePort \/ DeleteVeth \/ RemoveContainer \/ CreateVeth
  \/ AttachToS4 \/ RunContainer \/ SeeContainer
  \/ InspectPid \/ MoveVeth \/ RenameVeth \/ BringVethUp \/ AddAddress
  \/ OpenController

-----------------------------------------------------------------------------
(* The container's terminal: docker run, then cnf.py.                      *)

Becomes(from, to) ==
  /\ container \in from
  /\ container' = to
  /\ UNCHANGED <<shell, topology, listener>>

DockerFails == Becomes({"starting"}, "gone") /\ UNCHANGED veth
ContainerStarts == Becomes({"starting"}, "loading") /\ UNCHANGED veth

(* main calls sniff on the interface at once; sniff needs it there and up. *)
CnfSniffs == veth = "wired" /\ Becomes({"loading"}, "sniffing") /\ UNCHANGED veth
CnfFails ==
  /\ veth # "wired"
  /\ Becomes({"loading", "sniffing"}, "ending")
  /\ UNCHANGED veth

(* The process ends, and docker removes the container (--rm). *)
CnfEnds == Becomes({"ending"}, "gone") /\ veth' = VethWithoutContainer

Container == DockerFails \/ ContainerStarts \/ CnfSniffs \/ CnfFails \/ CnfEnds

-----------------------------------------------------------------------------
(* The Mininet terminal: my_topo.py.                                       *)

(* Mutant: the loop over the switches goes on after the last one.          *)
TurnOnceMore(from, to) == mininet = from /\ mininet' = IF to = "veth" THEN "start" ELSE to
Turn(from, to) == mininet = from /\ mininet' = to

(* Mutant: a port that is taken is not noticed.                            *)
PortNeverTaken(i) == FALSE
PortTaken(i) == listener[PortOf(i)] # "none"

(* P4RuntimeSwitch.__init__, which exits if its port is taken. *)
ConstructSwitch ==
  /\ mininet = "construct"
  /\ IF PortTaken(made + 1) THEN Turn("construct", "clean") /\ made' = 0
     ELSE IF made + 1 = N THEN Turn("construct", "start") /\ made' = 0
     ELSE Turn("construct", "construct") /\ made' = made + 1
  /\ late' = (mininet' = "clean" /\ ~ScriptEnded)
  /\ UNCHANGED <<shell, raced, listener, veth, container>>

(***************************************************************************)
(* P4RuntimeSwitch.start: the process is there and somebody listens on the *)
(* port in time.  Who it is is not looked at: a process that found its     *)
(* port taken is there for a moment, too.                                  *)
(***************************************************************************)
StartSwitch ==
  /\ Turn("start", IF made + 1 = N THEN "veth" ELSE "start")
  /\ made' = made + 1
  /\ listener' = [listener EXCEPT ![PortOf(made + 1)] = IF @ = "none" THEN "ours" ELSE @]
  /\ UNCHANGED <<shell, late, raced, veth, container>>

(* It is gone, or does not listen within SWITCH_START_TIMEOUT: my_topo.py  *)
(* exits without net.stop, and the processes started may or may not stay.  *)
SwitchFails ==
  /\ Turn("start", "clean")
  /\ \E left \in SUBSET {PortOf(i) : i \in 1..(made + 1)} :
       listener' = [p \in AllPorts |-> IF p \in left THEN "old"
                                       ELSE IF listener[p] = "ours" THEN "none"
                                       ELSE listener[p]]
  /\ made' = 0
  /\ late' = ~ScriptEnded
  /\ UNCHANGED <<shell, raced, veth, container>>

(* Its own ip link add, whose failure is ignored.  Mutant: it deletes what *)
(* is there first, as run_sim.sh does.                                     *)
VethRecreated(v) == "free"
VethAfterTopology(v) == IF v = "none" THEN "free" ELSE v

SetUpVeth ==
  /\ Turn("veth", "cli")
  /\ veth' = VethAfterTopology(veth)
  /\ raced' = (raced \/ script \in {"remove", "link"})
  /\ UNCHANGED <<shell, made, late, listener, container>>

(* The user leaves the CLI, and net.stop kills the switches. *)
Quit ==
  /\ Turn("cli", "clean")
  /\ made' = 0
  /\ listener' = [p \in AllPorts |-> IF listener[p] = "ours" THEN "none" ELSE listener[p]]
  /\ late' = ~ScriptEnded
  /\ UNCHANGED <<shell, raced, veth, container>>

(* docker stop, which fails before the container runs; then pkill.         *)
StopContainer ==
  /\ Turn("clean", "kill")
  /\ container' = IF Running THEN "gone" ELSE container
  /\ veth' = VethWithoutContainer
  /\ UNCHANGED <<shell, made, late, raced, listener>>

(* Mutant: pkill comes first, as part of the CLI's exit, and is left out.  *)
ControllerLeft == controller
ControllerKilled == IF controller = "up" THEN "stopped" ELSE controller

KillController ==
  /\ Turn("kill", "ended")
  /\ controller' = ControllerKilled
  /\ UNCHANGED <<script, waited, made, late, raced, listener, veth, container>>

Topology ==
  \/ ConstructSwitch \/ StartSwitch \/ SwitchFails \/ SetUpVeth \/ Quit
  \/ StopContainer \/ KillController

-----------------------------------------------------------------------------

Next == Script \/ Container \/ Topology

Spec == Init /\ [][Next]_vars

(***************************************************************************)
(* Every process goes on; switches need not fail and the user need not     *)
(* quit.                                                                   *)
(***************************************************************************)
FairSpec ==
  /\ Spec
  /\ WF_vars(Script) /\ WF_vars(Container)
  /\ WF_vars(ConstructSwitch \/ StartSwitch \/ SetUpVeth \/ StopContainer \/ KillController)

-----------------------------------------------------------------------------

TypeOK ==
  /\ script \in {"build", "wait", "unlink", "remove", "link", "attach", "container",
                 "await", "pid", "move", "rename", "up", "address", "controller",
                 "done", "aborted"}
  /\ mininet \in {"off", "construct", "start", "veth", "cli", "clean", "kill", "ended"}
  /\ waited \in 0..N /\ made \in 0..N /\ late \in BOOLEAN /\ raced \in BOOLEAN
  /\ listener \in [AllPorts -> {"none", "ours", "old"}]
  /\ veth \in {"none", "free", "attached", "moved", "wired"}
  /\ container \in {"none", "starting", "loading", "sniffing", "ending", "gone"}
  /\ controller \in {"none", "up", "stopped"}
  /\ made > 0 => mininet \in {"construct", "start", "veth", "cli"}

CleaningUp == mininet \in {"clean", "kill", "ended"}

SwitchesReady == \A i \in 1..N : listener[AwaitedPort(i)] = "ours"

(***************************************************************************)
(* wait_for_port takes any listener for a switch.  Still, once it has seen *)
(* all four and Mininet has its CLI, they are this Mininet's switches and  *)
(* not those that an earlier one has left.                                 *)
(***************************************************************************)
SwitchesAreOurs == waited = N /\ mininet = "cli" => SwitchesReady

(***************************************************************************)
(* Once the script has brought the interface of a cNF up that is there,    *)
(* the cNF has it until the clean-up: whatever my_topo.py's own commands   *)
(* for the same veth pair do in the meantime, and the script goes on.      *)
(***************************************************************************)
Connected ==
  /\ script \in {"address", "controller", "done"}
  /\ container \in {"loading", "sniffing"} /\ veth = "wired"

ConnectedCnfStays == [][Connected => Connected' \/ CleaningUp']_vars

(***************************************************************************)
(* run_sim.sh:83: "INT analyser cNF ready on s4 port 6.", and :91:         *)
(* "Simulation running".  So the cNF is there when the script says so, and *)
(* it has its interface.                                                   *)
(***************************************************************************)
CnfIsReady == script = "done" /\ mininet = "cli" => Running /\ veth = "wired"

(***************************************************************************)
(* The end of Mininet is the end of the simulation, unless the script was  *)
(* still starting it: the cNF and the controller are stopped then.         *)
(***************************************************************************)
TearDownIsComplete ==
  mininet = "ended" /\ ~late => container \in {"none", "gone"} /\ controller # "up"

(***************************************************************************)
(* If Mininet comes up and stays, so does the simulation, whatever was     *)
(* left of an earlier one.  There are two ways for it not to: my_topo.py's *)
(* veth pair comes between the script's deleting and creating it, or the   *)
(* container ends.                                                         *)
(***************************************************************************)
Up == SwitchesReady /\ Connected /\ container = "sniffing" /\ script = "done" /\ controller = "up"

CnfLost == container = "gone" /\ script \notin {"build", "wait", "unlink", "remove"}

SimulationComesUp == <>[](mininet = "cli") => <>[]Up \/ <>(raced \/ CnfLost)

=============================================================================
