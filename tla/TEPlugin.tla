------------------------------ MODULE TEPlugin ------------------------------
(***************************************************************************)
(* The traffic-engineering plugin (controller/plugins/te_plugin.py): it    *)
(* receives the cNF's reports one at a time on its own thread and, when a  *)
(* report says "degraded" and the cooldown has expired, moves s2's         *)
(* per-host routes to the other path, one P4Runtime write per host.        *)
(*                                                                         *)
(* Everything between s2 choosing a route for a telemetry packet and the   *)
(* plugin popping the resulting report (links, s4's clone, the cNF, the    *)
(* PacketIn stream, the two controller queues) is one unordered lossy set, *)
(* `pending`: a superset of the orders the real pipeline can produce.      *)
(*                                                                         *)
(* Time is a discrete clock.  MaxLag bounds the age of a pending report    *)
(* and MaxWrite the time between reading the clock in _reroute and the end *)
(* of its last write.  The code enforces neither (no gRPC deadline, no     *)
(* check of the report's own timestamp): they are the timing assumptions   *)
(* under which its cooldown does what it is there for.                     *)
(***************************************************************************)
EXTENDS Integers, Sequences, FiniteSets

CONSTANTS
  NHosts,       \* number of SUBNET2_HOSTS; a host is its index in that list
  Cooldown,     \* REROUTE_COOLDOWN, in ticks
  MaxLag,       \* timing assumption: age of a report when it is handled
  MaxWrite,     \* timing assumption: duration of the writes of one reroute
  MaxClock,     \* bound: the clock stops here
  MaxPending,   \* bound: reports in transit
  MaxFailures   \* bound: failed P4Runtime writes

ASSUME TEAssumption ==
  /\ NHosts \in Nat \ {0}
  /\ Cooldown \in Nat \ {0}
  /\ MaxLag \in Nat
  /\ MaxWrite \in Nat
  /\ MaxClock \in Nat
  /\ MaxPending \in Nat
  /\ MaxFailures \in Nat

VARIABLES
  current_path, \* self.current_path: the path the plugin believes is active
  last_reroute, \* self.last_reroute
  route,        \* s2's ipv4Lpm entry of each subnet-2 host
  pc,           \* the plugin thread: waiting for a report, or inside _reroute
  job,          \* _reroute's locals: path_name, the loop position, now
  emitted,      \* new_path of the ENTRY_ADDED events emitted so far
  pending,      \* reports on their way to the plugin thread
  clock,        \* time.time()
  failures,     \* writes that raised so far
  finished      \* history: the clock when the last reroute completed

pluginVars == <<current_path, last_reroute, pc, job, emitted>>
vars == <<current_path, last_reroute, route, pc, job, emitted,
          pending, clock, failures, finished>>

Host == 1..NHosts
Path == {"short", "long"}
Kind == {"degraded", "ok", "malformed"}
Report == [kind : Kind, host : Host, path : Path, born : Nat]
Job == [target : Path, next : 1..(NHosts + 1), now : Nat]

Other(p) == IF p = "short" THEN "long" ELSE "short"

-----------------------------------------------------------------------------

(* startup(); the wall clock is far past the cooldown at that point. *)
Init ==
  /\ current_path = "short"
  /\ last_reroute = 0
  /\ route = [h \in Host |-> "short"]
  /\ pc = "idle"
  /\ job = [target |-> "short", next |-> 1, now |-> 0]
  /\ emitted = <<>>
  /\ pending = {}
  /\ clock = Cooldown
  /\ failures = 0
  /\ finished = 0

(***************************************************************************)
(* The environment: s2 forwards a packet to h along its current route and  *)
(* the cNF reports on it; a report is lost; time passes.                   *)
(***************************************************************************)
Produce(h, k) ==
  /\ Cardinality(pending) < MaxPending
  /\ pending' = pending \cup
       {[kind |-> k, host |-> h, path |-> route[h], born |-> clock]}
  /\ UNCHANGED <<pluginVars, route, clock, failures, finished>>

Lose(r) ==
  /\ pending' = pending \ {r}
  /\ UNCHANGED <<pluginVars, route, clock, failures, finished>>

Tick ==
  /\ clock < MaxClock
  /\ \A r \in pending : clock + 1 - r.born <= MaxLag
  /\ pc = "writing" => clock + 1 - job.now <= MaxWrite
  /\ clock' = clock + 1
  /\ UNCHANGED <<pluginVars, route, pending, failures, finished>>

(***************************************************************************)
(* on_packet_in: an unparsable or healthy report changes nothing, and a    *)
(* degraded one is skipped while the cooldown is active.                   *)
(***************************************************************************)
Discard(r) ==
  /\ pc = "idle"
  /\ r.kind # "degraded"
  /\ pending' = pending \ {r}
  /\ UNCHANGED <<pluginVars, route, clock, failures, finished>>

CooldownActive == clock - last_reroute < Cooldown

Skip(r) ==
  /\ pc = "idle"
  /\ r.kind = "degraded"
  /\ CooldownActive
  /\ pending' = pending \ {r}
  /\ UNCHANGED <<pluginVars, route, clock, failures, finished>>

(* Mutant: the cooldown test dropped from _reroute. *)
StartNoCooldown(r) ==
  /\ pc = "idle"
  /\ r.kind = "degraded"
  /\ pending' = pending \ {r}
  /\ pc' = "writing"
  /\ job' = [target |-> Other(current_path), next |-> 1, now |-> clock]
  /\ UNCHANGED <<current_path, last_reroute, route, emitted, clock, failures, finished>>

(* Mutant: the target taken from the report's path instead of current_path. *)
StartFromReport(r) ==
  /\ pc = "idle"
  /\ r.kind = "degraded"
  /\ ~CooldownActive
  /\ pending' = pending \ {r}
  /\ pc' = "writing"
  /\ job' = [target |-> Other(r.path), next |-> 1, now |-> clock]
  /\ UNCHANGED <<current_path, last_reroute, route, emitted, clock, failures, finished>>

(* _reroute up to its loop: read the clock, pick the alternative path. *)
Start(r) ==
  /\ pc = "idle"
  /\ r.kind = "degraded"
  /\ ~CooldownActive
  /\ pending' = pending \ {r}
  /\ pc' = "writing"
  /\ job' = [target |-> Other(current_path), next |-> 1, now |-> clock]
  /\ UNCHANGED <<current_path, last_reroute, route, emitted, clock, failures, finished>>

(* One iteration of the loop: MODIFY the entry of the next host on s2. *)
WriteEntry ==
  /\ pc = "writing"
  /\ job.next <= NHosts
  /\ route' = [route EXCEPT ![job.next] = job.target]
  /\ job' = [job EXCEPT !.next = @ + 1]
  /\ UNCHANGED <<current_path, last_reroute, pc, emitted, pending, clock,
                 failures, finished>>

(* Mutant: the exception is not caught, and the plugin thread dies. *)
WriteFailsKillsThread(applied) ==
  /\ pc = "writing"
  /\ job.next <= NHosts
  /\ failures < MaxFailures
  /\ failures' = failures + 1
  /\ route' = IF applied THEN [route EXCEPT ![job.next] = job.target] ELSE route
  /\ pc' = "dead"
  /\ UNCHANGED <<current_path, last_reroute, job, emitted, pending, clock, finished>>

(***************************************************************************)
(* A write raises: on_packet_in logs the exception and returns.  Neither   *)
(* current_path nor last_reroute has been assigned, and the entries        *)
(* already moved stay moved.  A lost reply raises too, after the switch    *)
(* has applied the write.                                                  *)
(***************************************************************************)
WriteFails(applied) ==
  /\ pc = "writing"
  /\ job.next <= NHosts
  /\ failures < MaxFailures
  /\ failures' = failures + 1
  /\ route' = IF applied THEN [route EXCEPT ![job.next] = job.target] ELSE route
  /\ pc' = "idle"
  /\ UNCHANGED <<current_path, last_reroute, job, emitted, pending, clock, finished>>

(* Mutant: the assignment of current_path forgotten. *)
FinishKeepsPath ==
  /\ pc = "writing"
  /\ job.next = NHosts + 1
  /\ last_reroute' = job.now
  /\ emitted' = Append(emitted, job.target)
  /\ pc' = "idle"
  /\ finished' = clock
  /\ UNCHANGED <<current_path, route, job, pending, clock, failures>>

(* The assignments after the loop, and the ENTRY_ADDED event. *)
Finish ==
  /\ pc = "writing"
  /\ job.next = NHosts + 1
  /\ current_path' = job.target
  /\ last_reroute' = job.now
  /\ emitted' = Append(emitted, job.target)
  /\ pc' = "idle"
  /\ finished' = clock
  /\ UNCHANGED <<route, job, pending, clock, failures>>

Handle(r) == Discard(r) \/ Skip(r) \/ Start(r)

Next ==
  \/ \E h \in Host, k \in Kind : Produce(h, k)
  \/ \E r \in pending : Lose(r)
  \/ Tick
  \/ \E r \in pending : Handle(r)
  \/ WriteEntry
  \/ \E applied \in BOOLEAN : WriteFails(applied)
  \/ Finish

Spec == Init /\ [][Next]_vars

(***************************************************************************)
(* Fairness: the plugin thread keeps popping its queue, a P4Runtime call   *)
(* returns or raises, and some flow keeps being reported as degraded.      *)
(* Time may stop.                                                          *)
(***************************************************************************)
Fairness ==
  /\ WF_vars(\E r \in pending : Discard(r))
  /\ SF_vars(\E r \in pending : Start(r))
  /\ WF_vars(WriteEntry \/ \E applied \in BOOLEAN : WriteFails(applied))
  /\ WF_vars(Finish)
  /\ SF_vars(\E h \in Host : Produce(h, "degraded"))

FairSpec == Spec /\ Fairness

(***************************************************************************)
(* The scheduling under which recovery can be asked about: the plugin      *)
(* keeps handling reports, healthy ones keep coming, and time goes on.     *)
(***************************************************************************)
RecoverySpec ==
  /\ Spec
  /\ WF_vars(Tick)
  /\ SF_vars(\E r \in pending : Discard(r))
  /\ WF_vars(\E r \in pending : Skip(r))
  /\ SF_vars(\E r \in pending : Start(r))
  /\ WF_vars(WriteEntry \/ \E applied \in BOOLEAN : WriteFails(applied))
  /\ WF_vars(Finish)
  /\ WF_vars(\E h \in Host : Produce(h, "ok"))

-----------------------------------------------------------------------------

(* The types of the plugin's attributes, s2's routes and the queue. *)
TypeOK ==
  /\ current_path \in Path
  /\ last_reroute \in Nat
  /\ route \in [Host -> Path]
  /\ pc \in {"idle", "writing"}
  /\ job \in Job
  /\ emitted \in Seq(Path)
  /\ pending \in SUBSET Report
  /\ clock \in Nat
  /\ failures \in Nat
  /\ finished \in Nat

(***************************************************************************)
(* However many attempts fail, and wherever, the hosts whose route on s2   *)
(* differs from current_path are the first n of SUBNET2_HOSTS: failed      *)
(* reroutes never scatter the routes, because a retry repeats the same     *)
(* direction from the first host (_reroute's loop, current_path assigned   *)
(* only after it).                                                         *)
(***************************************************************************)
MovedHostsArePrefix ==
  \E n \in 0..NHosts : \A h \in Host : (route[h] # current_path) <=> (h <= n)

(* All of s2's subnet-2 routes agree with the plugin's idea of the path. *)
Uniform == \A h \in Host : route[h] = current_path

(***************************************************************************)
(* The plugin's announcements tell the truth: the last ENTRY_ADDED (short  *)
(* before the first one) names current_path, and they alternate, so a      *)
(* subscriber that counts them knows the active path.                      *)
(***************************************************************************)
EventsNamePath ==
  /\ current_path = IF emitted = <<>> THEN "short" ELSE emitted[Len(emitted)]
  /\ \A i \in 1..Len(emitted) :
       emitted[i] = Other(IF i = 1 THEN "short" ELSE emitted[i - 1])

(***************************************************************************)
(* Two completed reroutes are at least a cooldown apart, measured between  *)
(* the clock readings of _reroute, whatever failed in between.             *)
(***************************************************************************)
CooldownSpacing ==
  [][last_reroute' # last_reroute => last_reroute' - last_reroute >= Cooldown]_vars

(***************************************************************************)
(* When all routes agree, the report that starts a reroute is about the    *)
(* path that is being left, although _reroute never reads its path_id: the *)
(* log line "DEGRADATION detected on <path>" is right, and a reroute never *)
(* flees to the path that was reported as degraded.                        *)
(***************************************************************************)
ReroutesLeaveReportedPath ==
  [][pc = "idle" /\ pc' = "writing" /\ Uniform
       => \A r \in pending \ pending' : r.path = current_path]_vars

(***************************************************************************)
(* The comment of _reroute, te_plugin.py:129: the cooldown prevents        *)
(* flapping when multiple degraded reports arrive, that is, no reroute is  *)
(* started by a report that dates from before the last one completed.      *)
(***************************************************************************)
CooldownPreventsFlapping ==
  [][pc = "idle" /\ pc' = "writing"
       => \A r \in pending \ pending' : r.born >= finished]_vars

(***************************************************************************)
(* A reroute that failed half-way does not leave s2 split for ever: as     *)
(* long as degraded reports keep coming and writes stop failing, a retry   *)
(* brings all routes and current_path back into agreement.                 *)
(***************************************************************************)
SplitRoutesHeal == ~Uniform ~> Uniform

(***************************************************************************)
(* te_plugin.py:12: "When quality recovers, restore the original path."    *)
(* Once degraded reports stop and the cooldown has expired, the plugin     *)
(* ends up on the short path it started from.                              *)
(***************************************************************************)
RecoveryRestoresPath ==
  <>[](~CooldownActive /\ \A r \in pending : r.kind = "ok")
    => <>[](current_path = "short")

-----------------------------------------------------------------------------

(***************************************************************************)
(* The inductive invariant behind the theorems of TEPluginProofs.          *)
(***************************************************************************)

(* A reroute in progress was allowed to start, is on time, heads for the   *)
(* path that is not current, and has moved the hosts before the next one.  *)
JobInv ==
  pc = "writing" =>
    /\ job.target = Other(current_path)
    /\ \A k \in Host : k < job.next => route[k] = job.target
    /\ job.now <= clock
    /\ clock - job.now <= MaxWrite
    /\ job.now - last_reroute >= Cooldown

(* No report is older than MaxLag; the last reroute took at most MaxWrite. *)
TimeInv ==
  /\ \A r \in pending : r.born <= clock /\ clock - r.born <= MaxLag
  /\ finished <= clock
  /\ finished - last_reroute <= MaxWrite

(* While s2's routes agree, a report about the other path is a leftover    *)
(* from before the last reroute completed.                                 *)
StaleReportsAreOld ==
  Uniform => \A r \in pending : r.path = current_path \/ r.born <= finished

(***************************************************************************)
(* What the plugin's _reroute relies on between any two of its statements: *)
(* the strengthening of MovedHostsArePrefix, CooldownSpacing and the two   *)
(* staleness properties that every step preserves.                         *)
(***************************************************************************)
IInv == TypeOK /\ MovedHostsArePrefix /\ JobInv /\ TimeInv /\ StaleReportsAreOld

=============================================================================
