# Telemetry-driven traffic engineering: a TLA+ verification project

The system is a closed loop. Four P4 switches carry traffic between two subnets
and record in-band telemetry (INT) in it; a container (the cNF) receives a copy
of every telemetry packet, keeps a latency window per flow and reports to the
controller; a controller plugin moves the routes of one switch to the other
path when a report says that a path is degraded.

    h1 h2 h3 -- s1 -- s2 ------------ s4 -- h4 h5 h6      short path: s1 s2 s4
                        \            / |
                         `--- s3 ---'  cNF                 long path: s1 s2 s3 s4

This directory holds TLA+ modules that are translated from that code, the TLC
configurations that check them on small instances, and proofs for TLAPS.
`PROJECT.json` lists the runs, the source lines behind every definition, the
mutants that show that each property can fail, the findings and the hazards.

    tlc -config <file>.cfg <MC module>.tla      # a run, see the table below
    tlapm TEPluginProofs.tla                    # the proofs, about 10 s
    tlapm CnfProofs.tla                         # about 40 s
    tlapm EventBusProofs.tla                    # about 20 s
    tlapm ClosedLoopProofs.tla                  # about 60 s
    tlapm SetupProofs.tla                       # about 15 s
    tlapm LifecycleProofs.tla                   # about 110 s
    tlapm DataPlaneProofs.tla                   # about 100 s
    tlapm LaunchProofs.tla                      # about 10 s

## 1. Inventory

| Component | State it keeps | Operations | Interacts by |
|---|---|---|---|
| **te_plugin** (`controller/plugins/te_plugin.py`) | `current_path`, `last_reroute` | `startup`, `_is_cnf_report` (filter), `on_packet_in`, `_reroute` | receives PacketIns on its own thread; one P4Runtime MODIFY per subnet-2 host on s2; emits ENTRY_ADDED |
| **cNF** (`cNF/cnf.py`) | per flow: `samples`, `baselines`, `last_path`, `packet_counter` | `handle_packet` = parse, `update`, `is_degraded`, `send_report` | receives clones from s4 port 6; sends reports as UDP frames into s4 port 6 |
| **setup_plugin** (`controller/plugins/setup_plugin.py`) | none | `startup`: pipelines, multicast groups, clone sessions, L2, L3, switch ids, INT marking | about 40 P4Runtime writes in sequence, while hosts may already send |
| **switches** (`p4/s1.p4` .. `s4.p4`) | tables and replication engine | ingress, egress of a frame | frames on links; clones to the CPU port (510) and to the cNF (6) |
| **topology** (`mininet/my_topo.py`) | links, hosts, static gateway ARP entries | none at run time | says what is at the end of each port |
| **controller** (`controller/controller.py`) | device table, handlers, event queue, queue per plugin, write lock | write API, `subscribe`, `emit`, read threads, dispatcher, plugin threads | threads joined by queues; sentinel `None` stops a plugin thread |
| **runner, plugin interface** (`run_controller.py`, `plugin_base.py`) | list of plugins | load, `startup` in order, `run`, `shutdown` | calls; the end of `main` is the end of the process |
| **p4runtime_lib** (`switch.py`, `helper.py`, `convert.py`) | list of connections, one stream per switch, request log | stream and mastership, pipeline, table and replication writes, reads, closing; lookups in the P4Info; encoding of values | gRPC calls to the switches, which keep what was written when a process ends |
| **Mininet wrappers** (`p4runtime_switch.py`, `p4_mininet.py`, `netstat.py`) | port and process of each switch | construct, start and wait for the port, stop | processes; TCP ports |
| **launch script** (`run_sim.sh`, `Dockerfile.cnf`) | none; the machine's ports, veth pair and container | build, open terminals, wait, wire the cNF, clean up | runs beside `my_topo.py` in the Mininet terminal, on the same ports and the same veth pair |
| `l3s.p4`, `core.p4`, `v1model.p4` | | left over from a lab, or vendored | |

### What is hard in this code, and what makes each part correct

* **te_plugin.** A reroute is several writes that can fail one by one; reports
  queue up while it runs and are about a network that no longer exists; the
  decision uses only the plugin's own idea of the path and a wall-clock
  cooldown. Correct means: routes and `current_path` agree again after any
  failure, the last announcement tells the active path, a reroute leaves the
  path that was reported, and one degradation does not make the routes swing.
* **cNF.** Packets of both paths arrive interleaved during a reroute; the
  window and the baseline are reset, filled, frozen and compared at boundaries.
  Correct means: the verdict on each packet is the one that a detector with the
  whole history would give, no false alarm on steady latencies, no lasting shift
  missed.
* **setup_plugin and switches.** Traffic meets half-installed tables and
  half-moved routes. Correct means: no telemetry reaches a host, no loop, no
  delivery to the wrong host, no loss by a reroute, truthful INT stacks.
* **controller.** Threads, queues, filters called on the dispatcher's thread,
  shutdown with work in the queues. Correct means: each plugin sees its events
  once per subscription, in order and without a gap, one plugin's exceptions do
  not cost it or another its events, and a thread that is told to stop works off
  its queue first.
* **The closed loop.** A reroute changes what the cNF measures and empties its
  windows and baselines, while packets of both paths overtake each other, and
  the cNF's next report is what the next reroute is decided on. Correct means: one
  change of the network causes at most one reroute, none causes none, several do
  not make the routes swing, and a path that measures badly is left in the end.
* **Processes and switches.** The switches outlive the controller. A process can
  die between any two calls, and the next one starts on what it left, perhaps
  while it is still there, with the same election id. Correct means: no two
  processes control a switch, one that runs finds what its own setup wrote, and
  a restart works.
* **Launch.** The script, `my_topo.py` and the cNF's container run side by side on
  shared names (ports, veth pair, container) that an earlier simulation may still
  hold. Correct means: what the script waits for is this simulation's, a cNF that
  has its interface keeps it, the simulation comes up if its parts do, and nothing
  is left when it ends. (That there is a cNF when the script says so is not true:
  finding 5.)

The hazards are listed with their lines in `PROJECT.json`; those that no
property covers yet say so.

## 2. Modules

| Module | Models | Kind |
|---|---|---|
| `TEPlugin` | `te_plugin.py`, with the way of a report and P4Runtime failures as its environment | component |
| `TEPluginProofs` | theorems about `TEPlugin` | proofs |
| `Averages` | exact means and the threshold test of `is_degraded` | operators |
| `LatencyDetector` | what the cNF promises, over each flow's whole history | abstract specification |
| `Cnf` | `PathState` and `handle_packet` | component, implements `LatencyDetector` |
| `CnfProofs` | lemmas about sums, and theorems about `Cnf`, among them the refinement | proofs |
| `EventLog` | what the event engine promises: one log, delivered once and in order | abstract specification |
| `EventBus` | the threads and queues of `controller.py` as `run_controller.py` drives them | component, implements `EventLog` |
| `EventBusProofs` | theorems about `EventBus`, among them the refinement | proofs |
| `SetupRules` | the writes of `setup_plugin`, in order, as data | operators |
| `SetupProofs` | which writes they are and in which order they come, for any hosts | proofs |
| `DataPlane` | `s1.p4`..`s4.p4`, the links of `my_topo.py`, the writes of `setup_plugin` and te_plugin's route changes | components composed |
| `DataPlaneProofs` | theorems about `DataPlane`, at every moment of setup and reroutes | proofs |
| `ClosedLoop` | s2's routes, the stamps of the packets, `Cnf` and `TEPlugin` acting on each other | components composed, implements `TEPlugin` |
| `ClosedLoopProofs` | theorems about `ClosedLoop`: the refinement and what follows from it, and that a steady network is left alone | proofs |
| `P4InfoHelper` | `p4runtime_lib`'s lookups, message building and encoding | operators |
| `Lifecycle` | controller processes, one after the other or at once: `switch.py`, `run_controller.py`, setup and reroutes call by call on switches that keep their state | components composed |
| `LifecycleProofs` | theorems about `Lifecycle`: mastership, setup, routes, and that no call is refused for what it asks | proofs |
| `Launch` | `run_sim.sh`, the Mininet terminal, the switch wrappers, the container and the start of `cnf.py` in it | component |
| `LaunchProofs` | theorems about `Launch` | proofs |
| `MCTEPlugin`, `MCCnf`, `MCEventBus`, `MCDataPlane`, `MCClosedLoop`, `MCLifecycle`, `MCLaunch` | instances for TLC | model checking |

### TEPlugin

`Discard`, `Skip` and `Start` are the ways `on_packet_in` can go when it takes a
report: not degraded or unreadable; cooldown active; a reroute begins. `Start`
is `_reroute` up to its loop: the clock is read into the local `now`, the target
is the path that is not current. `WriteEntry` is one iteration of the loop, so
everything else can happen between two writes. `WriteFails` is a write that
raises, with the entry changed on the switch (the reply was lost) or not: the
exception ends `on_packet_in`, and neither `current_path` nor `last_reroute` has
been assigned. `Finish` is the end of `_reroute`.

Reports on their way, from the moment s2 routes a packet until the plugin thread
takes the report, are one set from which any may be taken or lost: that covers
every order the links, the cNF, s4 and the two queues can produce, and no
property relies on their order. A report remembers the route its packet took and
when. `finished` is a history variable.

Two things bound time. `MaxLag` is the age a report may have when it is taken,
and `MaxWrite` the duration of one reroute. **The code guarantees neither**;
they are constants so that the theorems can say how small they must be:
`MaxWrite + MaxLag < Cooldown`. The run `te_slow_write` shows what happens
otherwise. The model's clock moves only forward; `time.time()` need not.

### Cnf and LatencyDetector

`HandlePacket` is the whole of `handle_packet` for a packet with a readable
stack and flow: reset on a change of path, append, trim, baseline, verdict,
count, report. `IgnorePacket` is a packet for which `parse_int_packet` returns
`None` or gives no flow. scapy calls the handler for one packet at a time.
Latencies are natural numbers and means are compared by cross-multiplication:
exact, where the code rounds in floating point, so a mean exactly on the
threshold may be judged differently by the code.

`LatencyDetector` keeps each flow's log for ever and has no window and no
baseline: the *run* is the stretch since the flow last changed path, and a packet
is degraded when the mean of the run's last `WINDOW_SIZE` packets is more than
`DEGRADATION_PCT` percent from the mean of its first `WINDOW_SIZE`. `Cnf`'s
variables `log` and `sent` are the abstract state itself (`log` is history that
no part of the code's state reads), so the refinement is
`ImplementsDetector == Detector!Spec`.

### EventBus and EventLog

`main` is where the main thread is: starting plugins, launching threads, waiting
on the event queue, routing one event, stopping, gone. `Subscribe` and
`EmitAtStartup` are what plugins may do in `startup`; `Run`, the launches and
`Listen` are `run()` up to its loop, so read threads are already at work while
plugin threads are still being started. `TakeEvent` is the `get`; `Route` is one
turn of the loop over the handlers, so read threads, plugin threads and Ctrl+C
come between the handlers of one event. (`_handlers` is one list here and a list
per event type in the code: `Route` steps over the handlers of other types.)
`FilterRaises`, `Interrupt` and `Abort` are the ways out of the main loop and of
what comes before it; `Signal` is one turn of the loop in its `finally` clause,
after which the process ends with whatever the daemon threads were doing.
`TakeItem`, `TakeSentinel`, `HandlerEmits` and `HandlerEnds` are a plugin thread;
a handler that returns and one that raises do the same. No plugin of the
repository has a filter that raises or emits at startup: these are what the
engine's interface allows.

A queue item is the place of an event in the log and the subscription it is
for. `EventLog` has no dispatcher and no queue: a plugin's next delivery is the
first in the log, by event and then by subscription, that it has not had.
`published` and `taken` are history, and the state of `EventLog`. `taken` is, for
each plugin, the sequence of its handler calls: a call that is repeated, now or
later, is one element more, and no step of `EventLog` adds one that is there.

### DataPlane

`installed` counts the writes of `setup_plugin` done so far; `Setup` is their
sequence, one action per kind of write. A frame is a record with its addresses,
EtherType and INT stack; `Forward` lets a switch take a frame from a wire and
emit what its program says for the tables as they are. `Reroute` is one write
of te_plugin to one host's entry, in any order and direction: more than
`TEPlugin` can do, so what holds here holds under it.

Facts about the target that the model uses, from its architecture description:
of several clone calls in one ingress the last wins; an ingress-to-egress clone
carries the frame as it was received; a frame sent to a multicast group is not
also sent to its egress port. Switches handle a frame in one step, so a write
never takes effect in the middle of a pipeline; wires deliver in any order and
lose nothing, so that a loss in the model is one the tables cause. `sMacLookup`
never gets an entry (no plugin installs one), so every frame is cloned to the CPU.

### ClosedLoop

`TEPlugin` lets any report arrive; here a report is what `Cnf` says of packets
that took the routes of the moment. `SendPacket` puts a packet on the path its
host's route has, with the hop entries that s1 and the routers will stamp; the
two paths are separate channels, so packets of different paths reach the cNF in
any order and those of one path in order. `Analyse` is `handle_packet` and uses
`Cnf`'s own operators; the remaining steps are `TEPlugin`'s own actions. `Shift`
changes the delay of a link, as README.md:84 of the repository does by hand.

A stamp is the time since the packet was sent plus the offset of the switch's
clock: all measurements are differences of two stamps, so the time of sending
cancels. Each `simple_switch_grpc` counts from its own start, which is why the
measured "latency" is a delay plus an offset, and why either sign occurs. The
stack the cNF gets ends at the last router (finding 3), and so does the measurement.

`Abstract` maps the reports of `TEPlugin` to `Foreseen`: those that are under
way and those that a packet under way may still lead to. A packet that turns out
healthy is a lost report there. So `TEPlugin`'s theorems hold in the loop (section
4), and its `MaxLag` is the time from s2's choice of the route to the reroute.

`OneChangeOneReroute` allows one reroute for one change, and none for none. There
is no such bound for two changes (`loop_swing`): `PathState` empties a flow's
window when one of the flow's *own* packets comes by another path. A flow that is
silent while the other path is active keeps a baseline from before the changes,
and two such flows, one per path, move the routes to and fro for ever.

### SetupRules, P4InfoHelper and Lifecycle

`SetupRules` has the writes as records; `DataPlane` gives them their meaning for
traffic and `Lifecycle` sends them, `P4InfoHelper` telling which entry a write
makes and whether the library builds it at all. A name that is not in the P4Info
of the switch's own program, or a value that does not fit its field, raises.

In `Lifecycle` a process opens a stream to one switch after the other and pushes
its pipeline, makes the other writes, runs, and ends by closing its streams
(`CloseStream`, `Exit`) or by being killed. `CallReturns`, `CallRaises` and
`InterruptSetup` are the ways one call of the setup can go: `Effect` is what it
does to the switch, which may happen although the call is reported as failed.
`StartReroute` to `EndReroute` are te_plugin at any time, without its reasons,
and go on while the process is closing: plugin threads are daemons that nobody
waits for.

What the switches do is external: INSERT of a key that is there fails, MODIFY of
one that is not fails, a new pipeline empties the tables, a second stream with an
election id in use is ended, and a stream's end is noticed some time later. Two
things the target leaves open are nondeterministic or assumed: whether a new
pipeline also empties the replication engine (`preSurvives`), and the write of a
process that is being replaced. All writes carry election id 1, so a switch could
take one for its successor's: `Undisturbed` assumes that a process that is closing
its streams is gone before the next one has pushed its first pipeline.

### Launch

One action per command of `run_sim.sh` that changes something or can fail, guarded
by its exit status (`set -e`), beside `my_topo.py`: constructing the four switches
(which exits if a port is taken), starting them (which waits for *somebody* to
listen), the veth pair it creates itself, the CLI, and the clean-up of the
terminal. At the start any of the topology's ports may have an `"old"` listener,
and a veth pair and a container may be left over.

The container is `docker run` in a terminal of its own, which may fail, and then
the process in it, `cnf.py`: it loads, opens `veth-cnf1` (`CnfSniffs`) if that is
there and up, and otherwise ends (`CnfFails`), also later if the interface goes;
docker then removes the container (`CnfEnds`, `--rm`) and with its namespace the
veth pair. Meanwhile the script asks for the process (`InspectPid`), moves the
interface (`MoveVeth`, after which it is down), renames it, brings it up and gives
it an address (`RenameVeth`, `BringVethUp`, `AddAddress`): five commands, each of
which fails if the container has gone, and between any two of which it may go. A
cNF that has ended but whose container docker has not yet removed still has its
namespace, so the commands succeed.

`late` records that the clean-up came before the script was through: it then stops
what there is, and the script goes on to start the rest. `raced` records that
`my_topo.py` made its veth pair between the script's deleting and creating it.

## 3. Runs

| Run | Checks | Instance | Distinct states |
|---|---|---|---|
| `te` | routes, announcements, cooldown, staleness, `IInv` (whose first part is `TypeOK`), and that split routes heal | 2 hosts, cooldown 3, lag 1, write 1, clock to 9, 2 reports, 2 failures | 201,643 |
| `te_slow_write` | `CooldownPreventsFlapping`, **violated** | writes as long as the cooldown | |
| `te_recovery` | `RecoveryRestoresPath`, **violated** | 1 host | |
| `bus` | order, gaps, shutdown and progress of the event engine | 2 plugins, 3 subscriptions, 1 device, 3 events | 155,416 |
| `cnf` | window invariant, false alarms, missed shifts, `ImplementsDetector` | 2 flows, 2 paths, 3 latencies, window 2, interval 3, 4 packets each | 1,806,910 |
| `dp` | telemetry, loops, wrong delivery, stacks, and that nothing is lost after setup | the real 3 + 3 hosts, 1 frame, 3 route changes | 28,527 |
| `loop` | one reroute at most for one change, none for none, progress, `ImplementsPlugin` | 2 hosts, window 2, cooldown 3, lag 1, write 1, clock to 9, the shared link shifts once, 1 failure | 413,919 |
| `loop_blind` | `SlowPathIsLeft`, **violated** | 1 host, the link into s4 shifts | |
| `loop_swing` | `RoutesDoNotSwing`, **violated** | 2 hosts, the shared link shifts twice, clock to 15 | |
| `lifecycle` | mastership, setup, routes, that calls are accepted, and restart | 2 processes, 1 + 2 hosts | 209,012 |
| `launch` | whose switches they are, that a connected cNF stays, that the simulation comes up and is torn down | the four switches, any leftovers | 2,131 |
| `launch_cnf` | `CnfIsReady`, **violated** | as `launch` | |

**Why the bounds are enough to be interesting.** `te`: two hosts are what
a half-finished loop needs; the clock allows three reroutes, two failures allow
a retry that fails again, and two pending reports allow a stale one beside a
fresh one. `cnf`: four packets fill a window of two twice, or change path in the
middle of it, and an interval of three makes periodic reports both coincide with
alarms and fall apart from them; two flows interleave (they are interchangeable:
symmetry). The latencies are one that is measured with a single hop (0), and 100
and 102, which are exactly on the threshold: a mean with 0 in it is beyond it.
`bus`: one subscription has a filter, two of one plugin are for different events,
and two plugins want the same event; three events are one that is being handled,
one that is being routed and one that waits. `dp`: the tables do not depend on
frames and a frame's way does not depend on other frames, so one frame at a time
loses no behaviour of a frame; three route changes are as many as can matter to a
frame that meets s2 once. `loop`: one packet may be under way on each path, so
one of the old path can be overtaken by those of the new; the clock has room for
three cooldowns. The link from s1 to s2, which both paths share, changes by six
units (one unit is 5 ms, the delay of a link): more than the threshold on either
path. `lifecycle`: two processes are one that leaves something behind, or is
still there, and one that meets it. `launch`: every combination of old listeners
on the four ports, veth pair and container; nothing else is bounded.

**Deadlock.** `TEPlugin`, `Cnf` and `ClosedLoop` always have a step, which is
checked. It is not checked where the system may end: in `dp` all frames may have
arrived and nobody sends, in `bus` and `lifecycle` the last process may be gone,
and in `launch` the script and the terminal come to their ends.

### Fairness

* `TEPlugin!FairSpec`: the plugin thread keeps taking reports
  (`_plugin_loop` never ends and survives exceptions), writes return or raise,
  and degraded reports keep coming and are not all lost or skipped. Nothing is
  assumed of the clock: a reroute that failed has not set `last_reroute`, so the
  cooldown cannot hold its retry back.
* `TEPlugin!RecoverySpec` (only for the finding): additionally time goes on and
  healthy reports keep coming, so the counterexample is not a stopped system.
* `EventBus!FairSpec`: the dispatcher and the plugin threads are scheduled and
  handlers return. Nothing is assumed of devices, of startup or of shutdown:
  after Ctrl+C the process may end before a queue is worked off, which is why
  `EventsAreHandled` speaks of a running main loop.
* `DataPlane!FairSpec`: a switch keeps processing what arrives. Setup may stop at
  any write, hosts need not send, te_plugin need not reroute.
* `ClosedLoop!FairSpec`: each flow sends again and again, the cNF handles what
  reaches it, some report is acted on when that is possible again and again, and
  P4Runtime calls return or raise. Nothing is assumed of the clock: `LoopCloses`
  has the end of the cooldown as its premise.
* `Lifecycle!FairSpec`: the operator starts the controller again, a call returns
  or raises, the `finally` clause runs, and a switch notices the end of a stream.
  Faults are not limited in number; they end when `calm` becomes true, which
  may be at any time or never, and `RestartWorks` speaks of the time after.
* `Launch!FairSpec`: the script, docker, `cnf.py` and `my_topo.py` go on; no switch
  need fail and no user need quit. A container that is starting may fail, and one
  that is loading may find its interface or not: that is a choice, not fairness.
  `SimulationComesUp` has what must not happen (`raced`, `CnfLost`) in its
  conclusion.

### Findings

1. `te_plugin.py:129` says that the cooldown prevents flapping. It is counted
   from a clock reading before the writes, and the writes have no deadline; when
   they are slow, the next queued report undoes the reroute (`te_slow_write`).
2. `te_plugin.py:12` promises to restore the original path when quality
   recovers. Only another report marked degraded moves the routes back; healthy
   ones never do (`te_recovery`). (A recovery is itself reported as degraded when
   it moves the latency of the path in use by more than the threshold; the
   recovery of the path that was left is not measured at all.)
3. README.md:21 says that te_plugin detects that a path degrades. When the link
   from s2 to s4 becomes slower for good, no measurement changes and no flow
   leaves the short path (`loop_blind`): `s4.p4:262` calls the clone's INT stack
   full, after s4 has appended its own entry, but the clone is the frame as
   received and has none, so the total latency ends at the last router's ingress.
4. `cnf.py:165` says that a flow is reset when the active path changes, so that no
   stale baseline lingers. It is reset when one of its packets comes by another
   path. After two changes of a delay, two flows that are each silent while the
   other's path is active are both judged by old baselines, and their reports move
   the routes to and fro, one reroute per cooldown, although nothing changes any
   more (`loop_swing`; five reroutes complete in the trace, four of which started
   after the last change).
5. `run_sim.sh:83` says that the cNF is ready, and `run_sim.sh:91` that the
   simulation is running. `cnf.py` opens its interface as soon as it is loaded
   (`cnf.py:270`), and the script moves it in only when it has seen the container
   run. If `cnf.py` is faster, it ends, and if its container goes after the last
   `nsenter`, the script ends with both messages, no cNF and no veth pair
   (`launch_cnf`). If the container goes earlier, a command of the script fails or
   the loop of `run_sim.sh:68` never ends.

A constant is documented differently from what it is, which no run shows: the
comment at `cnf.py:149` says 5 %, the code uses 2 %.

## 4. Proofs

TLAPS proves the following for every value of the constants that satisfies the
assumption of the module:

* `TEAssumption`, `CnfAssumption`, `LoopAssumption`, `LifecycleAssumption`,
  `LaunchAssumption`: at least one host, a window, an interval and a cooldown of at
  least one, and natural numbers for bounds, delays, clock offsets and ports.
* `BusAssumption`: a list of subscriptions by known plugins.
* `SubnetAssumption`: each subnet has one to three hosts (s1 and s4 have three
  ports for them), and no address is there twice or for two purposes.
* `DataPlaneAssumption`: `INT_MAX_HOPS` is at least 4, as headers.p4:25 says of the
  topology; the program has 8.

Every safety invariant that a passing run checks is proved, and so are the action
properties and the three refinements.

**`TEPluginProofs`.** `MovedHostsArePrefix` and the properties about time are not
inductive. `IInv` adds: while a reroute is in progress its target is the other
path, the hosts before the loop position are already moved, and it was allowed
to start (`JobInv`); reports are younger than `MaxLag`, and the last reroute
finished at most `MaxWrite` after its clock reading (`TimeInv`); while all routes
agree, a report about the other path is older than the end of the last reroute
(`StaleReportsAreOld`). One lemma per part shows that each action keeps it.
From `IInv` follow `TypeCorrect`, `EventsTellPath` (the announcements alternate
and the last one is `current_path`), `MovedHosts`, `ReroutesAreSpaced`, and under
`MaxWrite + MaxLag < Cooldown` `NoFlapping` and `LeavesReportedPath`.

**`CnfProofs`.** `WindowInv` says, per flow, that some position of the log starts
the current run, that the window is the end of the log and no longer than the
run or `WINDOW_SIZE`, and that there is a baseline exactly when the run has
filled a window, which is the total of the run's first window. It is inductive
(`WindowCorrect`). Since run starts are unique (`RunStartUnique`), it follows that
window and baseline give the detector's verdict (`SameVerdict`) and that every
step is a step of the detector (`CnfImplementsDetector`). Both sides sum the same
sequence there, so the sum need not be known.

It must be known for `AlarmsAreJustified` and `ShiftsAreReported`. `Total` is a
recursive function, of which the provers know only that it satisfies its equation
if some function does: `SumsExist` shows that one does, `TotalIsSum` that `Total`
is its last value. `TotalsInProportion` compares the totals of two windows of the
same length whose samples are in proportion pairwise. These are inductions over
the length of a window, and the library's induction rules, which take a predicate,
cannot be used; `Induction` states induction for *sets* of numbers and gets it
from the well-foundedness of the subsets of a finite interval. To compare every
sample of one window with *every* one of the other, one of the two is first
replaced by the multiple of a single sample (`SampleWithin`, `SampleBeyond`,
`WithinDoesNotExceed`, `BeyondExceeds`).

**`EventBusProofs`.** `BusInv`, the inductive invariant (`BusCorrect`), says that
the event queue is the part of the log after the dispatcher's current event
(`QueueIsRestOfLog`); that while the loop runs every subscription is in place and
the dispatcher is between events only when it has been past every handler
(`DispatcherInv`); and of each plugin (`PluginInv`) that what it has taken and
what is in its queue are, together, what the dispatcher has been past, that both
are in strict order and the queue follows all that was taken, and that a sentinel
is last.
So the item at the head of a queue is the first that the plugin has yet to get
(`TakenIsNext`), every step is a step of the log or does not concern it
(`BusImplementsLog`), and a thread that took the sentinel had nothing left to do
(`StoppedDrained`). The steps are grouped by what they change of the queues
(`StepKinds`): the many that change nothing are dealt with once.

**`SetupProofs`** is about data: the sequence `Setup` has the writes one would
list, and each of them once (`Lists`), the four pipelines come first, all MAC
entries before any route (position `L2End`), and s1's marking rule last.
`DataPlaneProofs` and `LifecycleProofs` use nothing else of it.

**`DataPlaneProofs`.** `PlaneInv` has three parts. `TablesInv`: a table holds only
entries that `setup_plugin` or te_plugin writes into it, at least those of the
writes done so far, and routes only once the MAC tables are complete. So there are
few ways by which a frame can come to a switch (`WaysToS1`, ...; `WayShapes` says
of each where it has been and that it is not longer than it should be), and
`TrafficInv` says of every frame on a wire that it came by one of them, that its
destination MAC is the one the last router wrote, and that its INT stack is the
trail of its hops, and says the corresponding of what was delivered, cloned and
sent to the controller. `OneCopy` says of a unicast frame sent after setup that
there is one of it, on the wires or delivered. A write keeps `TrafficInv` because
ways do not depend on the tables; a switch keeps it because what its program emits
goes out on a way (`S1Emits`, `S2Emits`, `S3Emits`, `S4Emits`). A route that is
being changed is either of two entries, both of which lie on ways: that is why a
reroute in the middle of a frame's journey does no harm. From `PlaneInv` follow
`TypeCorrect`, `HostsGetNoTelemetry`, `StacksAreTrue`,
`RoutedFramesAreNotFlooded`, `NoLoops` and `CalmFramesAreExact`.

**`ClosedLoopProofs`.** `LoopImplementsPlugin`: every step of the loop is a step of
`TEPlugin` with `Foreseen` for its reports, or leaves its state alone. The cNF's
`Analyse` is the delicate one: a packet that raises an alarm turns into its report,
so nothing changes for `TEPlugin`, and one that does not is a report lost, which
is one step of `TEPlugin` only if no other packet foresees the same report.
`NothingTwice` says that, and with the few types it needs (`LoopTypes`) it is
inductive: `LoopInv`. Nothing about latencies is used, so the theorem holds
whatever the cNF measures. Hence `TEPlugin`'s theorems can be cited for the loop
(an instance of `TEPluginProofs` with the mapping): `LoopKeepsRoutes`,
`LoopSpacesReroutes` and, under `MaxWrite + MaxLag < Cooldown`, `LoopDoesNotFlap`.

`SteadyNetwork` is about latencies: as long as no delay changes, no packet raises
an alarm and no flow is moved. The argument is made path by path. On a path that
is steady (`SteadyOn`) all packets carry the same stack, all samples of its flows
are the same number, a flow with a baseline has a full window, and the baseline is
that window's total. The verdict then compares a total with itself, of which one
need only know that it is a number (`TotalIsNumber`, from `CnfProofs`). `Quiet`
says that, before the first change, the short path is steady and the long one
unused (`Unused`).

`ChangeMovesOnce` (under `MaxWrite + MaxLag < Cooldown`) goes on from there. A
change can hit the short path, with packets and baselines of before; but the long
path is unused at that moment, so all its packets and baselines are of after the
change and it is steady from then on: nothing is ever reported about it. So the
routes can only come back by a report about the short path after they have left
it, and `TEPlugin`'s invariant, cited for the loop, says that such a report, of a
straggler, is older than the end of that reroute: the cooldown outlives it
(`NoWayBack`). `Settled` is the invariant that puts this together. With a second
change the long path is not unused any more, and `loop_swing` shows that the
statement is then false.

`TypeCorrect` needs the recursive function for the arrival times
(`ArrivalType`), whose few values are computed one by one.

**`LifecycleProofs`.** `MastershipIsExclusive`: a process that sets up or runs
holds every stream it opened. `StreamInv` adds that such a process has closed
nothing, and that one that has not been started has opened nothing
(`NotClosing`). A switch with a stream rejects others (`Rejected`), a stream ends
only after its process closed it or is gone, and all else leaves streams alone
(`QuietStreams`). From mastership it follows that at most one process is at work
(`OnlyWriter`), so what it finds in the tables is what it wrote: its first call to
a switch empties them, and from then on they hold the entries of the writes it has
made, with s2's routes on either path (`TablesInv`). When it has made them all,
that is `SetupCorrect`; `RoutesCorrect` adds which of its routes the reroute in
progress has moved. `LifecycleAssumption` bounds nothing but the number of
processes.

`CallsSucceed` says that no call is refused for what it asks. That needs to know
what `p4runtime_lib` makes of each write: `Knows` that the P4Info of the write's
switch has the names its rule uses, and one match field of each name; `Encodings`
that ports up to 511 fit nine bits and ids up to 255 fit eight, and that no two
values become the same bytes; so every table write of setup, for any hosts, is
built (`WritesMatch`), and two of them to one switch have different keys
(`KeysTellWritesApart`: the match field tells the tables apart, its value the
writes to one table). By `TablesInv` a table holds the entries of the writes before
this one and nothing else, so an INSERT finds its key free. `EngineInv` is the
same for groups and sessions, where a new pipeline empties the replication engine;
where it does not, `setup_plugin`'s INSERTs do fail. The MODIFYs of a running
process find the keys that `SetupCorrect` has there. While a process waits for its
streams, or closes them, nothing is claimed.

**`LaunchProofs`.** `LaunchInv` says who listens on the ports the script has seen
(`PortsInv`: nobody but a switch of the topology ever does), that a switch which
`my_topo.py` starts found its port free when all four were constructed
(`SwitchesInv`), and, in `CnfInv`, that once the script has brought the interface up
a cNF which is loading or sniffing has it, and which of container and controller
are there during and after the clean-up. It is inductive (`LaunchCorrect`) with a
container that may end at any step. `SwitchesCorrect` and `TearDownLeavesNothing`
follow; `CnfStaysConnected` is about single steps and needs no invariant.

**Only model-checked.** All liveness properties (`SplitRoutesHeal`, `EventsAreHandled`, `CalmFramesArrive`,
`ReportsArrive`, `LoopCloses`, `RestartWorks`, `SimulationComesUp`), which are out of the
prover's reach. The counterexamples of the findings.

## 5. Not modelled, and the plan

Not modelled, and why:

* `l3s.p4` and the vendored headers: nothing loads the one, the others only
  declare what the target provides.
* TTLs (nothing drops an expired frame), checksums, the bytes of headers and
  reports, bandwidth and queues of links, the 48-bit width of stamps (about nine
  years of microseconds).
* The read calls of `controller.py` and `switch.py`, decoding, the request log
  and error printing: they change nothing that a step reads.
* The locks of `controller.py`: each only makes one step of the models atomic.
* A wall clock that is set back: reports are then skipped until it has caught up,
  and nothing else changes. `TEPlugin`'s clock moves only forward.
* The abstract methods of `PluginBase`, argument parsing, loading of classes.

Planned next:

* `WireFormat`: the deparser's and parser's offsets (the 5-byte shim and the
   9-byte hop), `_is_cnf_report` on full reports and on truncated clones.
