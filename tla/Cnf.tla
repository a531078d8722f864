-------------------------------- MODULE Cnf --------------------------------
(***************************************************************************)
(* The cNF (cNF/cnf.py): for every INT packet s4 clones to it, PathState   *)
(* updates the flow's rolling window and baseline, and handle_packet sends *)
(* a report every REPORT_INTERVAL packets of the flow, or at once when the *)
(* flow is degraded.  scapy calls handle_packet for one packet at a time.  *)
(*                                                                         *)
(* A packet is [path, latency]: the hops' ids and the difference of their  *)
(* timestamps.  A window and a baseline are kept as sums, and the means    *)
(* compared by cross-multiplication, so the model is exact where the code  *)
(* rounds in floating point.  log is a history variable: no definition of  *)
(* the code's own state reads it.                                          *)
(***************************************************************************)
EXTENDS Integers, Sequences

CONSTANTS
  Flow,            \* flow ids, "src->dst"
  PathId,          \* path ids, the hops' switch ids joined
  Latency,         \* total_latency values
  WINDOW_SIZE,     \* PathState.WINDOW_SIZE
  REPORT_INTERVAL, \* a flow's every REPORT_INTERVAL-th packet is reported
  DEGRADATION_PCT, \* PathState.DEGRADATION_PCT, in percent: 2 (cnf.py:149 says 5)
  MaxPackets       \* bound: packets per flow

ASSUME CnfAssumption ==
  /\ Latency \subseteq Nat
  /\ WINDOW_SIZE \in Nat \ {0}
  /\ REPORT_INTERVAL \in Nat \ {0}
  /\ DEGRADATION_PCT \in Nat
  /\ MaxPackets \in Nat

VARIABLES
  samples,       \* PathState.samples: the last latencies, oldest first
  baselines,     \* PathState.baselines, as the sum of a full window
  last_path,     \* PathState.last_path
  packet_counter, \* packets handled per flow
  sent,          \* the reports sent for the packet handled last: none or one
  log            \* history: every packet of the flow, oldest first

cnfVars == <<samples, baselines, last_path, packet_counter>>
vars == <<samples, baselines, last_path, packet_counter, log, sent>>

Detector == INSTANCE LatencyDetector

Init ==
  /\ samples = [f \in Flow |-> <<>>]
  /\ baselines = <<>>
  /\ last_path = <<>>
  /\ packet_counter = [f \in Flow |-> 0]
  /\ sent = {}
  /\ log = [f \in Flow |-> <<>>]

-----------------------------------------------------------------------------
(* PathState.update. *)

PathChanged(f, p) == f \in DOMAIN last_path /\ last_path[f] # p

(* Mutants: a path change resets only the baseline, or only the samples.   *)
KeptSamplesStale(f, p) == samples[f]
KeptBaselinesStale(f, p) == DOMAIN baselines

(* What update keeps of flow f before it appends a sample on path p.       *)
KeptSamples(f, p) == IF PathChanged(f, p) THEN <<>> ELSE samples[f]
KeptBaselines(f, p) == DOMAIN baselines \ (IF PathChanged(f, p) THEN {f} ELSE {})

(* Mutant: the window grows for ever. *)
NewSamplesUnbounded(f, p, l) == Append(KeptSamples(f, p), l)

NewSamples(f, p, l) ==
  LET appended == Append(KeptSamples(f, p), l)
  IN  IF Len(appended) > WINDOW_SIZE THEN Tail(appended) ELSE appended

BaselineDue(f, p, l) ==
  f \notin KeptBaselines(f, p) /\ Len(NewSamples(f, p, l)) >= WINDOW_SIZE

NewBaselines(f, p, l) ==
  IF BaselineDue(f, p, l)
  THEN [g \in KeptBaselines(f, p) \cup {f} |->
          IF g = f THEN Detector!Total(NewSamples(f, p, l)) ELSE baselines[g]]
  ELSE [g \in KeptBaselines(f, p) |-> baselines[g]]

(* Mutant: only an increase counts as degradation. *)
IsDegradedIncrease(window, bases, f) ==
  /\ f \in DOMAIN bases
  /\ window # <<>>
  /\ Detector!Total(window) * WINDOW_SIZE > bases[f] * Len(window)
  /\ Detector!Exceeds(Detector!Total(window), Len(window),
                      bases[f], WINDOW_SIZE, DEGRADATION_PCT)

(* Mutant: any deviation from the baseline counts as degradation. *)
IsDegradedAny(window, bases, f) ==
  /\ f \in DOMAIN bases
  /\ window # <<>>
  /\ Detector!Exceeds(Detector!Total(window), Len(window), bases[f], WINDOW_SIZE, 0)

(* Mutant: baselines.get(flow_id, 0) and no test for a missing baseline.   *)
IsDegradedWithoutBaseline(window, bases, f) ==
  /\ window # <<>>
  /\ Detector!Exceeds(Detector!Total(window), Len(window),
                      IF f \in DOMAIN bases THEN bases[f] ELSE 0,
                      WINDOW_SIZE, DEGRADATION_PCT)

(* PathState.is_degraded. *)
IsDegraded(window, bases, f) ==
  /\ f \in DOMAIN bases
  /\ window # <<>>
  /\ Detector!Exceeds(Detector!Total(window), Len(window),
                      bases[f], WINDOW_SIZE, DEGRADATION_PCT)

-----------------------------------------------------------------------------

(* handle_packet for a packet of flow f. *)
HandlePacket(f, p, l) ==
  LET degraded == IsDegraded(samples'[f], baselines', f)
  IN  /\ Len(log[f]) < MaxPackets
      /\ samples' = [samples EXCEPT ![f] = NewSamples(f, p, l)]
      /\ baselines' = NewBaselines(f, p, l)
      /\ last_path' = [g \in DOMAIN last_path \cup {f} |->
                         IF g = f THEN p ELSE last_path[g]]
      /\ packet_counter' = [packet_counter EXCEPT ![f] = @ + 1]
      /\ sent' = IF packet_counter'[f] % REPORT_INTERVAL = 0 \/ degraded
                 THEN {[flow |-> f, path |-> p, latency |-> l,
                        degraded |-> degraded]}
                 ELSE {}
      /\ log' = [log EXCEPT ![f] = Append(@, [path |-> p, latency |-> l])]

(* parse_int_packet found no INT stack, or no flow: nothing changes.       *)
IgnorePacket == sent' = {} /\ UNCHANGED <<cnfVars, log>>

Next ==
  \/ \E f \in Flow, p \in PathId, l \in Latency : HandlePacket(f, p, l)
  \/ IgnorePacket

Spec == Init /\ [][Next]_vars

-----------------------------------------------------------------------------

(* The types of PathState's dictionaries, the counters and the reports,    *)
(* and the bound on the memory a flow takes.                               *)
TypeOK ==
  /\ samples \in [Flow -> Seq(Latency)]
  /\ \A f \in Flow : Len(samples[f]) <= WINDOW_SIZE
  /\ DOMAIN baselines \subseteq Flow
  /\ DOMAIN last_path \subseteq Flow
  /\ \A f \in DOMAIN last_path : last_path[f] \in PathId
  /\ packet_counter \in [Flow -> Nat]
  /\ log \in [Flow -> Seq(Detector!Packet)]
  /\ sent \in SUBSET Detector!Report

(***************************************************************************)
(* PathState implements the detector stated over whole histories: a flow's *)
(* rolling window never mixes two paths, its baseline is the first full    *)
(* window of the current path and nothing later, flows do not disturb each *)
(* other, and every packet that is due a report, for its count or for      *)
(* degradation, gets exactly one.                                          *)
(***************************************************************************)
ImplementsDetector == Detector!Spec

(***************************************************************************)
(* A window full of latencies that all lie beyond DEGRADATION_PCT of every *)
(* baseline sample, on one side of them, is reported with its last packet, *)
(* in whichever direction the latency moved (PathState's docstring).       *)
(***************************************************************************)
AllBeyond(late, early) ==
  \/ \A i \in DOMAIN late, j \in DOMAIN early :
       100 * (late[i] - early[j]) > DEGRADATION_PCT * early[j]
  \/ \A i \in DOMAIN late, j \in DOMAIN early :
       100 * (early[j] - late[i]) > DEGRADATION_PCT * early[j]

ShiftIsReported ==
  [][\A f \in Flow :
       /\ log'[f] # log[f]
       /\ Detector!RunLength(log'[f]) >= WINDOW_SIZE
       /\ AllBeyond(Detector!LastWindow(log'[f]), Detector!FirstWindow(log'[f]))
       => \E r \in sent' : r.flow = f /\ r.degraded]_vars

(***************************************************************************)
(* No false alarm: while the latencies of a run stay within                *)
(* DEGRADATION_PCT of each other, or before the run outgrows its first     *)
(* window, no packet of the flow is reported as degraded.                  *)
(***************************************************************************)
Steady(s) ==
  \A i, j \in Detector!RunStart(s)..Len(s) :
    100 * Detector!Distance(s[i].latency, s[j].latency) <= DEGRADATION_PCT * s[j].latency

NoFalseAlarm ==
  \A r \in sent : r.degraded =>
    ~Steady(log[r.flow]) /\ Detector!RunLength(log[r.flow]) > WINDOW_SIZE

-----------------------------------------------------------------------------

(***************************************************************************)
(* The inductive invariant behind ImplementsDetector, per flow: the window *)
(* is the end of the log, at most WINDOW_SIZE long and never longer than   *)
(* the current run; there is a baseline once the run has filled a window,  *)
(* and it is the total of the run's first window.                          *)
(***************************************************************************)
Summarises(f, s, b) ==
  LET n == Len(samples[f])
  IN  /\ Detector!IsRunStart(s, b)
      /\ n = IF Len(s) + 1 - b <= WINDOW_SIZE THEN Len(s) + 1 - b ELSE WINDOW_SIZE
      /\ \A k \in 1..n : samples[f][k] = s[Len(s) - n + k].latency
      /\ f \in DOMAIN baselines <=> Len(s) + 1 - b >= WINDOW_SIZE
      /\ f \in DOMAIN baselines =>
           baselines[f] = Detector!Total(Detector!Latencies(s, b, WINDOW_SIZE))

FlowInv(f) ==
  /\ packet_counter[f] = Len(log[f])
  /\ f \in DOMAIN last_path <=> log[f] # <<>>
  /\ log[f] = <<>> => samples[f] = <<>> /\ f \notin DOMAIN baselines
  /\ log[f] # <<>> =>
       /\ last_path[f] = log[f][Len(log[f])].path
       /\ \E b \in 1..Len(log[f]) : Summarises(f, log[f], b)

WindowInv == \A f \in Flow : FlowInv(f)

=============================================================================
