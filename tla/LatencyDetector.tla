-------------------------- MODULE LatencyDetector --------------------------
(***************************************************************************)
(* What the cNF promises, stated over the whole history of each flow: log  *)
(* keeps every telemetry packet ever handled, and a packet is reported as  *)
(* degraded when the mean latency of the last WINDOW_SIZE packets of the   *)
(* current run (the packets since the flow last changed path) is further   *)
(* than DEGRADATION_PCT percent from the mean of the run's first           *)
(* WINDOW_SIZE packets.  Cnf implements this with a bounded window.        *)
(***************************************************************************)
EXTENDS Averages

CONSTANTS
  Flow,            \* flow ids, "src->dst"
  PathId,          \* path ids, the hops' switch ids joined
  Latency,         \* total_latency values
  WINDOW_SIZE,     \* PathState.WINDOW_SIZE
  REPORT_INTERVAL, \* a flow's every REPORT_INTERVAL-th packet is reported
  DEGRADATION_PCT, \* PathState.DEGRADATION_PCT, in percent
  MaxPackets       \* bound: packets per flow

VARIABLES
  log,  \* log[f]: the packets of flow f so far, oldest first
  sent  \* the reports sent for the packet handled last: none or one

Packet == [path : PathId, latency : Latency]
Report == [flow : Flow, path : PathId, latency : Latency, degraded : BOOLEAN]

(* The latencies of n consecutive packets of s from the i-th on.           *)
Latencies(s, i, n) == [k \in 1..n |-> s[i + k - 1].latency]

(* The i-th packet is the first since the flow last changed path.          *)
IsRunStart(s, i) ==
  /\ \A j \in i..Len(s) : s[j].path = s[Len(s)].path
  /\ i = 1 \/ s[i - 1].path # s[Len(s)].path

RunStart(s) == CHOOSE i \in 1..Len(s) : IsRunStart(s, i)

RunLength(s) == Len(s) + 1 - RunStart(s)

(* The current run as a whole: its first and its last full window.         *)
FirstWindow(s) == Latencies(s, RunStart(s), WINDOW_SIZE)
LastWindow(s) == Latencies(s, Len(s) + 1 - WINDOW_SIZE, WINDOW_SIZE)

Degraded(s) ==
  /\ RunLength(s) >= WINDOW_SIZE
  /\ Exceeds(Total(LastWindow(s)), WINDOW_SIZE, Total(FirstWindow(s)),
             WINDOW_SIZE, DEGRADATION_PCT)

Init ==
  /\ log = [f \in Flow |-> <<>>]
  /\ sent = {}

Handle(f, p, l) ==
  /\ Len(log[f]) < MaxPackets
  /\ log' = [log EXCEPT ![f] = Append(@, [path |-> p, latency |-> l])]
  /\ sent' = IF Len(log'[f]) % REPORT_INTERVAL = 0 \/ Degraded(log'[f])
             THEN {[flow |-> f, path |-> p, latency |-> l,
                    degraded |-> Degraded(log'[f])]}
             ELSE {}

Ignore == sent' = {} /\ UNCHANGED log

Next ==
  \/ \E f \in Flow, p \in PathId, l \in Latency : Handle(f, p, l)
  \/ Ignore

Spec == Init /\ [][Next]_<<log, sent>>
=============================================================================
