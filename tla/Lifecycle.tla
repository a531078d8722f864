----------------------------- MODULE Lifecycle -----------------------------
(***************************************************************************)
(* The life of controller processes on switches that keep running: a       *)
(* process connects to the switches, sets them up and runs until it is     *)
(* killed, interrupted, or a P4Runtime call raises, and the operator       *)
(* starts another one, even while the last is still there.  The switches   *)
(* keep what a process wrote, and te_plugin starts from "short" each time. *)
(*                                                                         *)
(* All requests carry the same election id (switch.py:63, 74, 91), so a    *)
(* write is accepted whichever process holds the stream.  What keeps the   *)
(* processes apart is that a switch rejects a second stream with that id.  *)
(*                                                                         *)
(* A write of a dead process reaches the switch before it dies or never.   *)
(***************************************************************************)
EXTENDS P4InfoHelper, FiniteSets

CONSTANTS MaxProcesses  \* bound: processes the operator starts

ASSUME LifecycleAssumption == MaxProcesses \in Nat

VARIABLES
  phase,        \* phase[c]: "none", "setup", "running", "closing" or "gone"
  step,         \* step[c]: the writes of setup_plugin done by process c
  opened,       \* opened[c]: the switches it has opened a stream to
  closed,       \* closed[c]: those of them that shutdown has closed
  current_path, \* current_path[c] of its te_plugin
  job,          \* job[c]: 0, or the host whose route te_plugin is to write next
  failed,       \* failed[c]: a reroute of c was given up half-way (history)
  session,      \* session[sw]: the process whose stream sw has, or 0
  entries,      \* entries[sw]: its table entries
  pre,          \* pre[sw]: the entries of its packet replication engine
  preSurvives,  \* whether a new pipeline leaves the replication engine alone
  calm          \* whether the faults are over (history)

process == <<phase, step, opened, closed, current_path, job, failed>>
switch == <<session, entries, pre>>
vars == <<process, switch, preSurvives, calm>>

Process == 1..MaxProcesses
Paths == {"short", "long"}
Other(path) == IF path = "short" THEN "long" ELSE "short"

Alive(c) == phase[c] \in {"setup", "running", "closing"}

(* te_plugin.startup: the path a new process takes for the active one.     *)
(* Mutant: it is the one the last process left. *)
FirstPathKept(c) == IF c = 1 THEN "short" ELSE current_path[c - 1]

FirstPath(c) == "short"

Init ==
  /\ phase = [c \in Process |-> "none"]
  /\ step = [c \in Process |-> 0]
  /\ opened = [c \in Process |-> {}]
  /\ closed = [c \in Process |-> {}]
  /\ current_path = [c \in Process |-> "short"]
  /\ job = [c \in Process |-> 0]
  /\ failed = [c \in Process |-> FALSE]
  /\ session = [sw \in Switch |-> 0]
  /\ entries = [sw \in Switch |-> {}]
  /\ pre = [sw \in Switch |-> {}]
  /\ preSurvives \in BOOLEAN
  /\ calm = FALSE

(* The operator starts the controller.                                     *)
Launch(c) ==
  /\ phase[c] = "none" /\ \A d \in 1..(c - 1) : phase[d] # "none"
  /\ phase' = [phase EXCEPT ![c] = "setup"]
  /\ current_path' = [current_path EXCEPT ![c] = FirstPath(c)]
  /\ UNCHANGED <<step, opened, closed, job, failed, switch, preSurvives, calm>>

-----------------------------------------------------------------------------
(***************************************************************************)
(* setup_plugin's calls.  connect opens the stream and waits for the       *)
(* answer; a stream with an election id that is taken ends with an error.  *)
(***************************************************************************)

(* Mutant: the error is not noticed. *)
NeverRejected(sw) == FALSE

Rejected(sw) == session[sw] # 0

TheWrite(c) == Setup[step[c] + 1]
Connecting(c) == TheWrite(c).op = "pipeline" /\ TheWrite(c).sw \notin opened[c]

(* A table write: INSERT needs a new key and MODIFY one that is there.     *)
HasKey(table, key) == \E e \in table : e.key = key

(* Mutant: an update leaves the old entry beside the new one. *)
WrittenBeside(table, e) == table \cup {e}

Written(table, e) == {f \in table : f.key # e.key} \cup {e}

EntryOf(w) == BuildTableEntry(w.sw, RuleOf(w))

(* The call of c that is next returns if nothing unexpected happens.       *)
Succeeds(c) ==
  LET w == TheWrite(c)
  IN  IF Connecting(c) THEN ~Rejected(w.sw)
      ELSE CASE w.op = "pipeline" -> TRUE
             [] w.op \in {"mcast", "clone"} -> ~HasKey(pre[w.sw], BuildPreEntry(w).key)
             [] OTHER -> /\ RuleBuilds(w.sw, RuleOf(w))
                         /\ ~HasKey(entries[w.sw], EntryOf(w).key)

(* A new pipeline empties the tables.  Mutant: it does not. *)
PushedKeepsTables(table) == table
Pushed(table) == {}

(* What the call does to the switches.                                     *)
Effect(c) ==
  LET w == TheWrite(c)
  IN  IF Connecting(c)
      THEN /\ session' = [session EXCEPT ![w.sw] = IF @ = 0 THEN c ELSE @]
           /\ opened' = [opened EXCEPT ![c] = @ \cup {w.sw}]
           /\ UNCHANGED <<entries, pre>>
      ELSE /\ UNCHANGED <<session, opened>>
           /\ IF w.op \in {"mcast", "clone"}
              THEN /\ pre' = [pre EXCEPT ![w.sw] = @ \cup {BuildPreEntry(w)}]
                   /\ UNCHANGED entries
              ELSE IF w.op = "pipeline"
              THEN /\ entries' = [entries EXCEPT ![w.sw] = Pushed(@)]
                   /\ pre' = IF preSurvives THEN pre ELSE [pre EXCEPT ![w.sw] = {}]
              ELSE /\ entries' = [entries EXCEPT ![w.sw] = Written(@, EntryOf(w))]
                   /\ UNCHANGED pre

NoEffect == UNCHANGED <<switch, opened>>

(***************************************************************************)
(* A process that was interrupted closes its streams and exits within less *)
(* time than it takes the next one to push its first pipeline: until it is *)
(* gone its te_plugin thread may still be writing.                         *)
(***************************************************************************)
Undisturbed(c) ==
  step[c] = 0 /\ ~Connecting(c) => \A d \in Process \ {c} : phase[d] # "closing"

CallReturns(c) ==
  /\ phase[c] = "setup" /\ Succeeds(c) /\ Undisturbed(c)
  /\ Effect(c)
  /\ step' = [step EXCEPT ![c] = IF Connecting(c) THEN @ ELSE @ + 1]
  /\ phase' = [phase EXCEPT ![c] = IF step'[c] = Len(Setup) THEN "running" ELSE @]
  /\ UNCHANGED <<closed, current_path, job, failed, preSurvives, calm>>

(* The call raises, and run_controller goes to its finally clause.         *)
Stop(c) ==
  /\ phase' = [phase EXCEPT ![c] = "closing"]
  /\ UNCHANGED <<step, closed, current_path, job, failed, preSurvives, calm>>

CallRaises(c) == phase[c] = "setup" /\ ~Succeeds(c) /\ NoEffect /\ Stop(c)

(* Mutant: that a multicast group could not be installed is only logged. *)
InterruptIsLogged(c, applied) ==
  /\ ~calm /\ phase[c] = "setup" /\ Succeeds(c) /\ TheWrite(c).op = "mcast"
  /\ NoEffect
  /\ step' = [step EXCEPT ![c] = @ + 1]
  /\ phase' = [phase EXCEPT ![c] = IF step'[c] = Len(Setup) THEN "running" ELSE @]
  /\ UNCHANGED <<closed, current_path, job, failed, preSurvives, calm>>

(* Ctrl+C, or a call that fails, with the call done by the switch or not.  *)
InterruptSetup(c, applied) ==
  /\ ~calm /\ phase[c] = "setup" /\ Succeeds(c) /\ Undisturbed(c)
  /\ IF applied THEN Effect(c) ELSE NoEffect
  /\ Stop(c)

InterruptRun(c) == ~calm /\ phase[c] = "running" /\ NoEffect /\ Stop(c)

-----------------------------------------------------------------------------
(***************************************************************************)
(* te_plugin's thread, from run() until the process is gone: at any time a *)
(* reroute may start (TEPlugin says when), one MODIFY per host of s2.      *)
(***************************************************************************)
Serving(c) == phase[c] \in {"running", "closing"} /\ step[c] = Len(Setup)

RouteWrite(path, h) ==
  IF path = "short" THEN Route("s2", h, 3, h) ELSE Route("s2", h, 2, "cc31")

StartReroute(c) ==
  /\ Serving(c) /\ job[c] = 0
  /\ job' = [job EXCEPT ![c] = 1]
  /\ UNCHANGED <<phase, step, opened, closed, current_path, failed, switch, preSurvives, calm>>

Writing(c) == Serving(c) /\ job[c] \in 1..Len(Subnet2)
NextRoute(c) == RouteWrite(Other(current_path[c]), Subnet2[job[c]])

ModifySucceeds(c) ==
  /\ RuleBuilds("s2", RuleOf(NextRoute(c)))
  /\ HasKey(entries["s2"], EntryOf(NextRoute(c)).key)

Modify(c) == entries' = [entries EXCEPT !["s2"] = Written(@, EntryOf(NextRoute(c)))]

(* Without a stream to s2 the write may be accepted or denied. *)
WriteRoute(c) ==
  /\ Writing(c) /\ ModifySucceeds(c)
  /\ Modify(c)
  /\ job' = [job EXCEPT ![c] = @ + 1]
  /\ UNCHANGED <<phase, step, opened, closed, current_path, failed, session, pre,
                 preSurvives, calm>>

RouteFails(c, applied) ==
  /\ Writing(c)
  /\ ~calm \/ session["s2"] = 0 \/ ~ModifySucceeds(c)
  /\ IF applied THEN ModifySucceeds(c) /\ Modify(c) ELSE UNCHANGED entries
  /\ job' = [job EXCEPT ![c] = 0]
  /\ failed' = [failed EXCEPT ![c] = TRUE]
  /\ UNCHANGED <<phase, step, opened, closed, current_path, session, pre, preSurvives, calm>>

EndReroute(c) ==
  /\ Serving(c) /\ job[c] = Len(Subnet2) + 1
  /\ job' = [job EXCEPT ![c] = 0]
  /\ current_path' = [current_path EXCEPT ![c] = Other(@)]
  /\ UNCHANGED <<phase, step, opened, closed, failed, switch, preSurvives, calm>>

-----------------------------------------------------------------------------
(* The end of a process.                                                   *)

(* ShutdownAllSwitchConnections: in the order in which they were opened.   *)
Connections == <<"s1", "s2", "s3", "s4">>

CloseStream(c, i) ==
  /\ phase[c] = "closing"
  /\ Connections[i] \in opened[c] \ closed[c]
  /\ \A j \in 1..(i - 1) : Connections[j] \notin opened[c] \ closed[c]
  /\ closed' = [closed EXCEPT ![c] = @ \cup {Connections[i]}]
  /\ UNCHANGED <<phase, step, opened, current_path, job, failed, switch, preSurvives, calm>>

(* Its memory goes with it (current_path stays, as history).            *)
Leave(c) ==
  /\ phase' = [phase EXCEPT ![c] = "gone"]
  /\ step' = [step EXCEPT ![c] = 0]
  /\ opened' = [opened EXCEPT ![c] = {}]
  /\ closed' = [closed EXCEPT ![c] = {}]
  /\ job' = [job EXCEPT ![c] = 0]
  /\ failed' = [failed EXCEPT ![c] = FALSE]
  /\ UNCHANGED <<current_path, switch, preSurvives, calm>>

Exit(c) == phase[c] = "closing" /\ closed[c] = opened[c] /\ Leave(c)

(* run_sim.sh's pkill, or any other death without a finally clause. *)
Kill(c) == ~calm /\ Alive(c) /\ Leave(c)

(* A switch learns some time later that a stream has gone. *)
StreamDrops(c, sw) ==
  /\ session[sw] = c
  /\ sw \in closed[c] \/ phase[c] = "gone"
  /\ session' = [session EXCEPT ![sw] = 0]
  /\ UNCHANGED <<process, entries, pre, preSurvives, calm>>

FaultsEnd == ~calm /\ calm' = TRUE /\ UNCHANGED <<process, switch, preSurvives>>

-----------------------------------------------------------------------------

Setting(c) ==
  \/ CallReturns(c) \/ CallRaises(c)
  \/ \E applied \in BOOLEAN : InterruptSetup(c, applied)

Rerouting(c) ==
  \/ StartReroute(c) \/ WriteRoute(c) \/ EndReroute(c)
  \/ \E applied \in BOOLEAN : RouteFails(c, applied)

Ending(c) ==
  \/ InterruptRun(c) \/ Exit(c) \/ Kill(c)
  \/ \E i \in DOMAIN Connections : CloseStream(c, i)

Next ==
  \/ \E c \in Process : Launch(c) \/ Setting(c) \/ Rerouting(c) \/ Ending(c)
  \/ \E c \in Process, sw \in Switch : StreamDrops(c, sw)
  \/ FaultsEnd

Spec == Init /\ [][Next]_vars

(***************************************************************************)
(* The operator starts the controller again, calls return or raise, the    *)
(* finally clause runs, and a switch notices that a stream has gone.       *)
(***************************************************************************)
Fairness ==
  /\ WF_vars(\E c \in Process : Launch(c))
  /\ \A c \in Process :
       /\ WF_vars(CallReturns(c) \/ CallRaises(c))
       /\ WF_vars(Exit(c) \/ \E i \in DOMAIN Connections : CloseStream(c, i))
       /\ \A sw \in Switch : WF_vars(StreamDrops(c, sw))

FairSpec == Spec /\ Fairness

-----------------------------------------------------------------------------

(* No switch ever has two entries with one key.                            *)
TypeOK ==
  /\ phase \in [Process -> {"none", "setup", "running", "closing", "gone"}]
  /\ step \in [Process -> 0..Len(Setup)]
  /\ opened \in [Process -> SUBSET Switch]
  /\ \A c \in Process : closed[c] \subseteq opened[c]
  /\ current_path \in [Process -> Paths] /\ job \in [Process -> 0..(Len(Subnet2) + 1)]
  /\ session \in [Switch -> {0} \cup Process]
  /\ preSurvives \in BOOLEAN /\ calm \in BOOLEAN
  /\ \A sw \in Switch :
       /\ \A e, f \in entries[sw] : e.key = f.key => e = f
       /\ \A e, f \in pre[sw] : e.key = f.key => e = f

(***************************************************************************)
(* Mastership: a process that is setting up or running holds the streams   *)
(* it has opened.  So no two of them ever control the same switch, though  *)
(* they share the election id, and the loser writes nothing.               *)
(***************************************************************************)
Controls(c) == phase[c] \in {"setup", "running"}

StreamsAreHeld ==
  \A c \in Process, sw \in Switch : Controls(c) /\ sw \in opened[c] => session[sw] = c

(***************************************************************************)
(* While a process runs, the tables and replication engines are exactly    *)
(* what its setup_plugin wrote, whatever earlier processes left, whenever  *)
(* they were stopped, and whoever else tries to start.                     *)
(***************************************************************************)
WritesTo(sw, ops) == {w \in ToSet(Setup) : w.sw = sw /\ w.op \in ops}
SetupEntries ==
  [sw \in Switch |->
     {EntryOf(w) : w \in WritesTo(sw, {"dMac", "lpm", "rewrite", "switchId", "marking"})}]
SetupPre == [sw \in Switch |-> {BuildPreEntry(w) : w \in WritesTo(sw, {"mcast", "clone"})}]
RouteKeys == {EntryOf(RouteWrite("short", h)).key : h \in Hosts2}

SetupIsComplete ==
  (\E c \in Process : phase[c] = "running") =>
     \A sw \in Switch :
       /\ pre[sw] = SetupPre[sw]
       /\ {e.key : e \in entries[sw]} = {e.key : e \in SetupEntries[sw]}
       /\ {e \in SetupEntries[sw] : sw # "s2" \/ e.key \notin RouteKeys}
            \subseteq entries[sw]

(***************************************************************************)
(* A restart heals what a crash left: while a process runs, the routes on  *)
(* s2 are the ones of its current_path, except those that the reroute in   *)
(* progress has moved, unless one of its own reroutes failed half-way.     *)
(***************************************************************************)
RoutesFollowPath ==
  \A c \in Process :
    phase[c] = "running" /\ ~failed[c] =>
      \A i \in DOMAIN Subnet2 :
        EntryOf(RouteWrite(IF i < job[c] THEN Other(current_path[c]) ELSE current_path[c],
                           Subnet2[i]))
          \in entries["s2"]

(***************************************************************************)
(* No call is refused for what it asks.  p4runtime_lib builds every write  *)
(* of setup_plugin and te_plugin, an INSERT finds its key free whatever    *)
(* earlier processes left, and a MODIFY its entry there: what can make a   *)
(* call raise is a stream that is taken, a fault, or a target that keeps   *)
(* its groups and sessions across a new pipeline.                          *)
(***************************************************************************)
CallsAreAccepted ==
  \A c \in Process :
    /\ phase[c] = "setup" /\ ~Connecting(c)
         /\ (preSurvives => TheWrite(c).op \notin {"mcast", "clone"}) => Succeeds(c)
    /\ phase[c] = "running" /\ Writing(c) => ModifySucceeds(c)

(***************************************************************************)
(* A restart works: if the faults are over and the switches have noticed   *)
(* the end of all processes before, the next one gets to run, whatever the *)
(* earlier ones left in the tables.  It cannot where a new pipeline leaves *)
(* the replication engine alone: setup_plugin only ever inserts.           *)
(***************************************************************************)
CleanSlate ==
  /\ calm /\ ~preSurvives
  /\ \A sw \in Switch : session[sw] = 0
  /\ \A c \in Process : ~Alive(c)
  /\ \E c \in Process : phase[c] = "none"

RestartWorks == CleanSlate ~> \E c \in Process : phase[c] = "running"

=============================================================================
