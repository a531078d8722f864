--------------------------- MODULE TEPluginProofs ---------------------------
(***************************************************************************)
(* Theorems about TEPlugin for any number of hosts, any cooldown and any   *)
(* bounds.  IInv (defined in TEPlugin and checked by TLC first) is the     *)
(* inductive invariant; the two theorems on stale reports need, besides,   *)
(* the timing assumption that a reroute and a report in transit together   *)
(* take less than the cooldown.                                            *)
(***************************************************************************)
EXTENDS TEPlugin, TLAPS

(* Some path is the other one, never the same. *)
LEMMA OtherPath ==
  ASSUME NEW p \in Path
  PROVE  Other(p) \in Path /\ Other(p) # p /\ Other(Other(p)) = p
  BY DEF Path, Other

(* startup() establishes the inductive invariant. *)
LEMMA InitIInv == Init => IInv
<1> SUFFICES ASSUME Init PROVE IInv
  OBVIOUS
<1> USE TEAssumption DEF Init
<1>1. TypeOK
  <2>1. job \in Job
    BY DEF Job, Path
  <2>2. emitted \in Seq(Path) /\ pending \in SUBSET Report
    OBVIOUS
  <2>. QED  BY <2>1, <2>2 DEF TypeOK, Path
<1>2. MovedHostsArePrefix
  <2>1. \A h \in Host : (route[h] # current_path) <=> (h <= 0)
    BY DEF Host
  <2>. QED  BY <2>1 DEF MovedHostsArePrefix
<1>3. JobInv /\ TimeInv /\ StaleReportsAreOld
  BY DEF JobInv, TimeInv, StaleReportsAreOld
<1>. QED  BY <1>1, <1>2, <1>3 DEF IInv

(* The loop over the hosts goes on to the next one, or past the last. *)
LEMMA NextHost ==
  ASSUME NEW j \in Job, j.next <= NHosts
  PROVE  [j EXCEPT !.next = @ + 1] \in Job
<1>1. PICK n \in 1..(NHosts + 1) : n = j.next
  BY DEF Job
<1>2. n + 1 \in 1..(NHosts + 1)
  BY <1>1, TEAssumption
<1>. QED  BY <1>1, <1>2 DEF Job

(* Every action keeps the types of the plugin's state. *)
LEMMA TypeStep == TypeOK /\ [Next]_vars => TypeOK'
<1> SUFFICES ASSUME TypeOK, [Next]_vars PROVE TypeOK'
  OBVIOUS
<1> USE TEAssumption DEF TypeOK, pluginVars
<1>1. ASSUME NEW h \in Host, NEW k \in Kind, Produce(h, k) PROVE TypeOK'
  <2>1. [kind |-> k, host |-> h, path |-> route[h], born |-> clock] \in Report
    BY DEF Report
  <2>. QED  BY <1>1, <2>1 DEF Produce
<1>2. ASSUME NEW r \in pending, Lose(r) PROVE TypeOK'
  BY <1>2 DEF Lose
<1>3. ASSUME Tick PROVE TypeOK'
  BY <1>3 DEF Tick
<1>4. ASSUME NEW r \in pending, Handle(r) PROVE TypeOK'
  <2>1. CASE Discard(r) \/ Skip(r)
    BY <2>1 DEF Discard, Skip
  <2>2. CASE Start(r)
    <3>1. job' \in Job
      BY <2>2, OtherPath DEF Start, Job, Host
    <3>. QED  BY <2>2, <3>1 DEF Start
  <2>. QED  BY <1>4, <2>1, <2>2 DEF Handle
<1>5. ASSUME WriteEntry PROVE TypeOK'
  <2>1. job' \in Job
    BY <1>5, NextHost DEF WriteEntry
  <2>2. route' \in [Host -> Path]
    BY <1>5 DEF WriteEntry, Job
  <2>. QED  BY <1>5, <2>1, <2>2 DEF WriteEntry
<1>6. ASSUME NEW applied \in BOOLEAN, WriteFails(applied) PROVE TypeOK'
  <2>1. route' \in [Host -> Path]
    BY <1>6 DEF WriteFails, Job
  <2>. QED  BY <1>6, <2>1 DEF WriteFails
<1>7. ASSUME Finish PROVE TypeOK'
  BY <1>7 DEF Finish, Job
<1>8. CASE UNCHANGED vars
  BY <1>8 DEF vars
<1>. QED  BY <1>1, <1>2, <1>3, <1>4, <1>5, <1>6, <1>7, <1>8 DEF Next

(* Every action keeps the moved hosts a prefix of SUBNET2_HOSTS. *)
LEMMA PrefixStep == IInv /\ [Next]_vars => MovedHostsArePrefix'
<1> SUFFICES ASSUME IInv, [Next]_vars PROVE MovedHostsArePrefix'
  OBVIOUS
<1> USE TEAssumption DEF IInv, TypeOK, pluginVars
<1>1. PICK n \in 0..NHosts : \A h \in Host : (route[h] # current_path) <=> (h <= n)
  BY DEF MovedHostsArePrefix
<1>2. ASSUME UNCHANGED <<route, current_path>> PROVE MovedHostsArePrefix'
  BY <1>1, <1>2 DEF MovedHostsArePrefix
<1>3. ASSUME pc = "writing", job.next <= NHosts,
             route' = [route EXCEPT ![job.next] = job.target],
             UNCHANGED current_path
      PROVE  MovedHostsArePrefix'
  <2> DEFINE m == IF n < job.next THEN job.next ELSE n
  <2>1. job.target # current_path /\ job.next \in Host
    BY <1>3, OtherPath DEF JobInv, Job, Host
  <2>2. m \in 0..NHosts
    BY <1>3, <2>1 DEF Host
  <2>3. ASSUME NEW h \in Host PROVE (route'[h] # current_path') <=> (h <= m)
    <3>1. CASE h = job.next
      BY <1>3, <2>1, <3>1 DEF Host
    <3>2. CASE h < job.next
      BY <1>1, <1>3, <2>1, <3>2 DEF JobInv, Host
    <3>3. CASE h > job.next
      BY <1>1, <1>3, <2>1, <3>3 DEF Host
    <3>. QED  BY <2>1, <3>1, <3>2, <3>3 DEF Host
  <2>. QED  BY <2>2, <2>3 DEF MovedHostsArePrefix
<1>4. ASSUME Finish PROVE MovedHostsArePrefix'
  <2>1. \A h \in Host : (route'[h] # current_path') <=> (h <= 0)
    BY <1>4 DEF Finish, JobInv, Host
  <2>. QED  BY <2>1 DEF MovedHostsArePrefix
<1>5. ASSUME WriteEntry PROVE MovedHostsArePrefix'
  BY <1>3, <1>5 DEF WriteEntry
<1>6. ASSUME NEW applied \in BOOLEAN, WriteFails(applied) PROVE MovedHostsArePrefix'
  BY <1>2, <1>3, <1>6 DEF WriteFails
<1>. QED
  BY <1>2, <1>4, <1>5, <1>6
  DEF Next, Handle, Produce, Lose, Tick, Discard, Skip, Start, vars

(* Every action keeps what a reroute in progress relies on. *)
LEMMA JobStep == IInv /\ [Next]_vars => JobInv'
<1> SUFFICES ASSUME IInv, [Next]_vars PROVE JobInv'
  OBVIOUS
<1> USE TEAssumption DEF IInv, TypeOK, JobInv, pluginVars
<1>1. ASSUME NEW r \in pending, Start(r) PROVE JobInv'
  BY <1>1 DEF Start, CooldownActive, Host
<1>2. ASSUME WriteEntry PROVE JobInv'
  <2>1. job.next \in Host /\ job'.next = job.next + 1
          /\ job'.target = job.target /\ job'.now = job.now
    BY <1>2 DEF WriteEntry, Job, Host
  <2>2. \A k \in Host : k < job'.next => route'[k] = job'.target
    <3> SUFFICES ASSUME NEW k \in Host, k < job'.next PROVE route'[k] = job'.target
      OBVIOUS
    <3>1. k = job.next \/ k < job.next
      BY <2>1 DEF Host
    <3>2. CASE k = job.next
      BY <1>2, <2>1, <3>2 DEF WriteEntry
    <3>3. CASE k < job.next
      <4>1. k # job.next /\ route[k] = job.target
        BY <1>2, <2>1, <3>3 DEF WriteEntry, Host
      <4>. QED  BY <1>2, <2>1, <4>1 DEF WriteEntry
    <3>. QED  BY <3>1, <3>2, <3>3
  <2>. QED  BY <1>2, <2>1, <2>2 DEF WriteEntry
<1>3. ASSUME Tick PROVE JobInv'
  BY <1>3 DEF Tick, Job
<1>4. ASSUME NEW applied \in BOOLEAN, WriteFails(applied) \/ Finish PROVE JobInv'
  BY <1>4 DEF WriteFails, Finish
<1>. QED
  BY <1>1, <1>2, <1>3, <1>4
  DEF Next, Handle, Produce, Lose, Discard, Skip, vars

(* Every action keeps the bounds on ages and durations. *)
LEMMA TimeStep == IInv /\ [Next]_vars => TimeInv'
<1> SUFFICES ASSUME IInv, [Next]_vars PROVE TimeInv'
  OBVIOUS
<1> USE TEAssumption DEF IInv, TypeOK, TimeInv, pluginVars
<1>1. ASSUME NEW h \in Host, NEW k \in Kind, Produce(h, k) PROVE TimeInv'
  BY <1>1 DEF Produce
<1>2. ASSUME Tick PROVE TimeInv'
  BY <1>2 DEF Tick, Report
<1>3. ASSUME Finish PROVE TimeInv'
  BY <1>3 DEF Finish, JobInv, Report
<1>. QED
  BY <1>1, <1>2, <1>3
  DEF Next, Handle, Lose, Discard, Skip, Start, WriteEntry, WriteFails, vars

(* Every action keeps stale reports old while s2's routes agree. *)
LEMMA StaleStep == IInv /\ [Next]_vars => StaleReportsAreOld'
<1> SUFFICES ASSUME IInv, [Next]_vars PROVE StaleReportsAreOld'
  OBVIOUS
<1> USE TEAssumption DEF IInv, TypeOK, StaleReportsAreOld, Uniform, pluginVars
<1>1. ASSUME NEW h \in Host, NEW k \in Kind, Produce(h, k) PROVE StaleReportsAreOld'
  BY <1>1 DEF Produce
<1>2. ASSUME pc = "writing", job.next <= NHosts,
             route' = [route EXCEPT ![job.next] = job.target],
             UNCHANGED current_path
      PROVE  ~Uniform'
  BY <1>2, OtherPath DEF JobInv, Job, Host
<1>3. ASSUME WriteEntry PROVE StaleReportsAreOld'
  BY <1>2, <1>3 DEF WriteEntry
<1>4. ASSUME NEW applied \in BOOLEAN, WriteFails(applied) PROVE StaleReportsAreOld'
  BY <1>2, <1>4 DEF WriteFails
<1>5. ASSUME Finish PROVE StaleReportsAreOld'
  BY <1>5 DEF Finish, TimeInv
<1>. QED
  BY <1>1, <1>3, <1>4, <1>5
  DEF Next, Handle, Lose, Tick, Discard, Skip, Start, vars

(* The inductive invariant holds in every reachable state of the plugin.   *)
THEOREM Invariance == Spec => []IInv
<1>1. IInv /\ [Next]_vars => IInv'
  BY TypeStep, PrefixStep, JobStep, TimeStep, StaleStep DEF IInv
<1>. QED  BY InitIInv, <1>1, PTL DEF Spec

(* The plugin's attributes, s2's routes and the queue keep their types.    *)
THEOREM TypeCorrect == Spec => []TypeOK
<1>1. IInv => TypeOK
  BY DEF IInv
<1>. QED  BY Invariance, <1>1, PTL

(***************************************************************************)
(* Whatever writes fail, and whenever, the hosts that s2 does not route    *)
(* along current_path are the first ones of SUBNET2_HOSTS (_reroute).      *)
(***************************************************************************)
THEOREM MovedHosts == Spec => []MovedHostsArePrefix
<1>1. IInv => MovedHostsArePrefix
  BY DEF IInv
<1>. QED  BY Invariance, <1>1, PTL

(* Completed reroutes are a cooldown apart, measured at their clock reads. *)
THEOREM ReroutesAreSpaced == Spec => CooldownSpacing
<1>1. IInv /\ [Next]_vars
        => [last_reroute' # last_reroute => last_reroute' - last_reroute >= Cooldown]_vars
  BY DEF IInv, JobInv, Next, Produce, Lose, Tick, Handle, Discard, Skip, Start,
         WriteEntry, WriteFails, Finish, pluginVars, vars
<1>. QED  BY Invariance, <1>1, PTL DEF Spec, CooldownSpacing

(* Only Start begins a reroute, and the report it consumes is fresh when a *)
(* reroute and a report in transit together take less than the cooldown.   *)
LEMMA StartIsFresh ==
  ASSUME MaxWrite + MaxLag < Cooldown, IInv, [Next]_vars,
         pc = "idle", pc' = "writing", NEW r \in pending \ pending'
  PROVE  r.born > finished /\ r \in pending
<1> USE TEAssumption DEF IInv, TypeOK, pluginVars
<1>1. PICK q \in pending : Start(q)
  BY DEF Next, Produce, Lose, Tick, Handle, Discard, Skip, WriteEntry, WriteFails,
         Finish, vars
<1>2. r = q
  BY <1>1 DEF Start
<1>3. clock - last_reroute >= Cooldown
  BY <1>1 DEF Start, CooldownActive
<1>4. r.born \in Nat
  BY DEF Report
<1>. QED  BY <1>2, <1>3, <1>4 DEF TimeInv

(***************************************************************************)
(* The comment "Cooldown prevents flapping when multiple degraded reports  *)
(* arrive" is right for every number of hosts when the writes of a reroute *)
(* and the age of a report add up to less than the cooldown.               *)
(***************************************************************************)
THEOREM NoFlapping ==
  ASSUME MaxWrite + MaxLag < Cooldown
  PROVE  Spec => CooldownPreventsFlapping
<1>1. IInv /\ [Next]_vars
        => [pc = "idle" /\ pc' = "writing"
              => \A r \in pending \ pending' : r.born >= finished]_vars
  <2> SUFFICES ASSUME IInv, [Next]_vars, pc = "idle", pc' = "writing",
                      NEW r \in pending \ pending'
               PROVE  r.born >= finished
    OBVIOUS
  <2>1. r.born > finished /\ r \in pending
    BY StartIsFresh
  <2>. QED  BY <2>1 DEF IInv, TypeOK, Report
<1>. QED  BY Invariance, <1>1, PTL DEF Spec, CooldownPreventsFlapping

(***************************************************************************)
(* Under the same assumption, and while s2's routes agree, a reroute       *)
(* leaves the path its report is about, though _reroute never compares     *)
(* the report's path_id with current_path.                                 *)
(***************************************************************************)
THEOREM LeavesReportedPath ==
  ASSUME MaxWrite + MaxLag < Cooldown
  PROVE  Spec => ReroutesLeaveReportedPath
<1>1. IInv /\ [Next]_vars
        => [pc = "idle" /\ pc' = "writing" /\ Uniform
              => \A r \in pending \ pending' : r.path = current_path]_vars
  <2> SUFFICES ASSUME IInv, [Next]_vars, pc = "idle", pc' = "writing", Uniform,
                      NEW r \in pending \ pending'
               PROVE  r.path = current_path
    OBVIOUS
  <2>1. r.born > finished /\ r \in pending
    BY StartIsFresh
  <2>. QED  BY <2>1 DEF IInv, TypeOK, StaleReportsAreOld, Report
<1>. QED  BY Invariance, <1>1, PTL DEF Spec, ReroutesLeaveReportedPath

(* A completed reroute announces the path that it leaves current_path at.  *)
LEMMA EventStep == IInv /\ EventsNamePath /\ [Next]_vars => EventsNamePath'
<1> SUFFICES ASSUME IInv, EventsNamePath, [Next]_vars PROVE EventsNamePath'
  OBVIOUS
<1>1. ASSUME UNCHANGED <<current_path, emitted>> PROVE EventsNamePath'
  BY <1>1 DEF EventsNamePath
<1>2. CASE Finish
  <2>1. /\ emitted \in Seq(Path) /\ job.target = Other(current_path)
        /\ job.target \in Path /\ current_path \in Path
    BY <1>2, OtherPath DEF IInv, TypeOK, JobInv, Finish
  <2>2. emitted' = Append(emitted, job.target) /\ current_path' = job.target
    BY <1>2 DEF Finish
  <2>3. /\ Len(emitted') = Len(emitted) + 1 /\ Len(emitted) \in Nat
        /\ emitted'[Len(emitted) + 1] = job.target
        /\ \A i \in 1..Len(emitted) : emitted'[i] = emitted[i]
    BY <2>1, <2>2
  <2>4. current_path = IF Len(emitted) = 0 THEN "short" ELSE emitted[Len(emitted)]
    BY <2>1 DEF EventsNamePath
  <2>5. ASSUME NEW i \in 1..Len(emitted')
        PROVE  emitted'[i] = Other(IF i = 1 THEN "short" ELSE emitted'[i - 1])
    <3>1. CASE i = Len(emitted) + 1
      <4>1. CASE Len(emitted) = 0
        BY <2>1, <2>3, <2>4, <3>1, <4>1
      <4>2. CASE Len(emitted) # 0
        <5>1. i # 1 /\ i - 1 = Len(emitted) /\ i - 1 \in 1..Len(emitted)
          BY <2>3, <3>1, <4>2
        <5>. QED  BY <2>1, <2>3, <2>4, <3>1, <4>2, <5>1
      <4>. QED  BY <4>1, <4>2
    <3>2. CASE i # Len(emitted) + 1
      <4>1. i \in 1..Len(emitted)
        BY <2>3, <3>2
      <4>2. i # 1 => i - 1 \in 1..Len(emitted)
        BY <2>3, <4>1
      <4>. QED  BY <2>3, <4>1, <4>2 DEF EventsNamePath
    <3>. QED  BY <3>1, <3>2
  <2>6. current_path' = emitted'[Len(emitted')] /\ emitted' # <<>>
    BY <2>1, <2>2, <2>3
  <2>. QED  BY <2>5, <2>6 DEF EventsNamePath
<1>. QED  BY <1>1, <1>2 DEF Next, Produce, Lose, Tick, Handle, Discard, Skip, Start,
             WriteEntry, WriteFails, pluginVars, vars

(***************************************************************************)
(* A subscriber that follows the ENTRY_ADDED events knows the path that    *)
(* the plugin takes for the active one, whatever failed in between.        *)
(***************************************************************************)
THEOREM EventsTellPath == Spec => []EventsNamePath
<1>1. Init => EventsNamePath
  BY DEF Init, EventsNamePath
<1>. QED  BY Invariance, <1>1, EventStep, PTL DEF Spec

=============================================================================
