--------------------------- MODULE EventBusProofs ---------------------------
(***************************************************************************)
(* The event bus delivers the log, for any plugins, devices, subscriptions *)
(* and number of events.  BusInv is the inductive invariant; a delivery is *)
(* in order because the queue of a plugin is, and without a gap because    *)
(* what was routed to a plugin is in its queue until it is taken.          *)
(***************************************************************************)
EXTENDS EventBus, TLAPS

USE DEF Sentinel

(* The order of deliveries is a strict order, total on pairs of numbers.   *)
LEMMA BeforeIsOrder ==
  ASSUME NEW d \in Log!Delivery, NEW e \in Log!Delivery, NEW f \in Log!Delivery
  PROVE  /\ ~Log!Before(d, d)
         /\ Log!Before(d, e) => ~Log!Before(e, d)
         /\ Log!Before(d, e) /\ Log!Before(e, f) => Log!Before(d, f)
  BY DEF Log!Before, Log!Delivery

(* What is appended to a sequence is its last element, and one more in it. *)
LEMMA AppendedTo ==
  ASSUME NEW S, NEW s \in Seq(S), NEW x \in S
  PROVE  /\ Len(s) \in Nat /\ Len(Append(s, x)) = Len(s) + 1
         /\ Append(s, x)[Len(s) + 1] = x
         /\ \A i \in 1..Len(s) : Append(s, x)[i] = s[i]
         /\ Range(Append(s, x)) = Range(s) \cup {x}
<1>. DEFINE r == Append(s, x)
<1>1. /\ Len(s) \in Nat /\ Len(r) = Len(s) + 1 /\ r[Len(s) + 1] = x
      /\ \A i \in 1..Len(s) : r[i] = s[i]
      /\ DOMAIN s = 1..Len(s) /\ DOMAIN r = 1..Len(r)
  OBVIOUS
<1>. HIDE DEF r
<1>2. 1..Len(r) = (1..Len(s)) \cup {Len(s) + 1}
  BY <1>1
<1>3. Range(r) = Range(s) \cup {x}
  BY <1>1, <1>2 DEF Range
<1>. QED  BY <1>1, <1>3 DEF r

(* What is due to a plugin are deliveries, and never the sentinel. *)
LEMMA DueAreDeliveries ==
  ASSUME TypeOK, NEW p \in Plugin, NEW d \in Log!Due(p)
  PROVE  d \in Log!Delivery /\ d # Sentinel /\ d.event \in 1..Len(published)
  BY BusAssumption DEF TypeOK, Log!Due, Log!Delivery

(* Publishing an event makes nothing due that the dispatcher has passed.   *)
LEMMA PutKeepsPassed ==
  ASSUME TypeOK, QueueIsRestOfLog, NEW p \in Plugin, NEW e \in Log!Event, Put(e),
         current' = current, next' = next
  PROVE  {d \in Log!Due(p) : Passed(d)}' = {d \in Log!Due(p) : Passed(d)}
<1>1. /\ published' \in Seq(Log!Event)
      /\ Len(published') = Len(published) + 1
      /\ \A i \in 1..Len(published) : published'[i] = published[i]
  BY DEF Put, TypeOK
<1>2. Len(published) \in Nat /\ current \in 0..Len(published)
  BY DEF TypeOK, QueueIsRestOfLog
<1>3. ASSUME NEW d, d \in Log!Due(p)', Passed(d)'
      PROVE  d \in Log!Due(p) /\ Passed(d)
  <2>1. d \in [event : 1..(Len(published) + 1), sub : 1..Len(Subscriptions)]
    BY <1>1, <1>3 DEF Log!Due
  <2>2. d.event <= current
    BY <1>2, <1>3, <2>1 DEF Passed, Log!Before
  <2>3. d \in [event : 1..Len(published), sub : 1..Len(Subscriptions)]
    BY <1>2, <2>1, <2>2
  <2>. QED  BY <1>1, <1>3, <2>3 DEF Log!Due, Log!Wants, Passed
<1>4. ASSUME NEW d \in Log!Due(p), Passed(d)
      PROVE  d \in Log!Due(p)' /\ Passed(d)'
  BY <1>1, <1>2, <1>4 DEF Log!Due, Log!Wants, Passed
<1>. QED  BY <1>3, <1>4

(* The new event is the last in the queue. *)
LEMMA PutKeepsQueue ==
  ASSUME TypeOK, QueueIsRestOfLog, NEW e \in Log!Event, Put(e), current' = current
  PROVE  QueueIsRestOfLog' /\ published' \in Seq(Log!Event) /\ event_queue' \in Seq(Nat)
<1>1. /\ Len(published') = Len(published) + 1 /\ published' \in Seq(Log!Event)
      /\ Len(published) \in Nat
  BY DEF Put, TypeOK
<1>2. /\ event_queue' \in Seq(Nat)
      /\ Len(event_queue') = Len(event_queue) + 1
      /\ Len(event_queue) \in Nat
      /\ event_queue'[Len(event_queue) + 1] = Len(published) + 1
      /\ \A i \in 1..Len(event_queue) : event_queue'[i] = event_queue[i]
  BY DEF Put, TypeOK
<1>3. \A i \in 1..Len(event_queue') : event_queue'[i] = current' + i
  <2> SUFFICES ASSUME NEW i \in 1..Len(event_queue') PROVE event_queue'[i] = current + i
    OBVIOUS
  <2>1. CASE i = Len(event_queue) + 1
    BY <1>1, <1>2, <2>1 DEF QueueIsRestOfLog, TypeOK
  <2>2. CASE i \in 1..Len(event_queue)
    BY <1>2, <2>2 DEF QueueIsRestOfLog
  <2>. QED  BY <1>2, <2>1, <2>2
<1>. QED  BY <1>1, <1>2, <1>3 DEF QueueIsRestOfLog

(* The engine starts with empty queues and an empty log. *)
LEMMA InitInv == Init => BusInv
<1> SUFFICES ASSUME Init PROVE BusInv
  OBVIOUS
<1>1. TypeOK
  BY DEF Init, TypeOK
<1>2. QueueIsRestOfLog
  BY DEF Init, QueueIsRestOfLog
<1>3. DispatcherInv
  BY BusAssumption DEF Init, DispatcherInv
<1>4. ASSUME NEW p \in Plugin PROVE PluginInv(p)
  <2>1. Log!Due(p) = {}
    BY DEF Init, Log!Due
  <2>2. Queued(p) = {} /\ Log!Received(p) = {} /\ Len(taken[p]) = 0
    BY DEF Init, Queued, Log!Received, Log!Range
  <2>. QED  BY <2>1, <2>2 DEF Init, PluginInv
<1>. QED  BY <1>1, <1>2, <1>3, <1>4 DEF BusInv

-----------------------------------------------------------------------------
(* The steps of the engine, by what they change of the queues. *)

(* No queue, no local of the dispatcher and no history changes. *)
Quiet ==
  \/ Subscribe \/ Run \/ Abort \/ Launch \/ Routed \/ FilterRaises \/ Interrupt \/ Exit
  \/ (\E d \in Device : StreamEnds(d))
  \/ (\E p \in Plugin : HandlerEnds(p))

(* An event is put into the event queue. *)
Puts ==
  \E e \in Log!Event :
    /\ Put(e)
    /\ UNCHANGED <<main, handlers, readers, current, next, plugin_queues, workers,
                   signalled, taken>>

(* Every step is of one of these kinds.                                    *)
LEMMA StepKinds ==
  ASSUME [Next]_vars
  PROVE  \/ Quiet \/ Puts \/ TakeEvent \/ Route
         \/ (\E p \in Plugin : Signal(p) \/ TakeItem(p) \/ TakeSentinel(p))
         \/ UNCHANGED vars
<1>1. StreamEvent \subseteq Log!Event /\ EmittedEvent \subseteq Log!Event
  BY DEF StreamEvent, EmittedEvent, Log!Event
<1>2. ASSUME NEW e \in EmittedEvent, EmitAtStartup(e) PROVE Puts
  BY <1>1, <1>2 DEF EmitAtStartup, Puts
<1>3. ASSUME NEW d \in Device, NEW e \in StreamEvent, Read(d, e) PROVE Puts
  BY <1>1, <1>3 DEF Read, Puts
<1>4. ASSUME NEW p \in Plugin, NEW e \in EmittedEvent, HandlerEmits(p, e) PROVE Puts
  BY <1>1, <1>4 DEF HandlerEmits, Puts
<1>. QED
  BY <1>2, <1>3, <1>4 DEF Next, Startup, Dispatch, Stop, Reader, Worker, Quiet

(* A quiet step leaves what BusInv says of the queues alone. *)
LEMMA QuietIsQuiet ==
  ASSUME Quiet
  PROVE  UNCHANGED <<event_queue, current, next, plugin_queues, signalled, published,
                     taken>>
  BY DEF Quiet, Subscribe, Run, Abort, Launch, LaunchReader, LaunchWorker, Listen,
         Routed, FilterRaises, Interrupt, Exit, StreamEnds, HandlerEnds

(* Every step keeps the types.                                             *)
LEMMA TypeStep == ASSUME BusInv, [Next]_vars PROVE TypeOK'
<1>. USE DEF BusInv
<1>1. CASE Quiet
  <2>1. CASE Subscribe
    <3>1. Subscriptions[Len(handlers) + 1] \in Log!Subscription
      BY <2>1, BusAssumption DEF Subscribe, TypeOK
    <3>. QED  BY <2>1, <3>1 DEF Subscribe, TypeOK
  <2>2. CASE Launch
    BY <2>2 DEF Launch, LaunchReader, LaunchWorker, Listen, TypeOK
  <2>3. CASE \E d \in Device : StreamEnds(d)
    BY <2>3 DEF StreamEnds, TypeOK
  <2>4. CASE \E p \in Plugin : HandlerEnds(p)
    BY <2>4 DEF HandlerEnds, TypeOK
  <2>5. CASE Run \/ Abort \/ Routed \/ FilterRaises \/ Interrupt \/ Exit
    BY <2>5 DEF Run, Abort, Routed, FilterRaises, Interrupt, Exit, TypeOK
  <2>. QED  BY <1>1, <2>1, <2>2, <2>3, <2>4, <2>5 DEF Quiet
<1>2. CASE Puts
  <2>1. published' \in Seq(Log!Event) /\ event_queue' \in Seq(Nat)
    BY <1>2, PutKeepsQueue DEF Puts
  <2>. QED  BY <1>2, <2>1 DEF Puts, TypeOK
<1>3. CASE TakeEvent
  BY <1>3 DEF TakeEvent, TypeOK
<1>4. CASE Route
  <2>1. [event |-> current, sub |-> next] \in Log!Delivery
    BY DEF TypeOK, Log!Delivery
  <2>2. ASSUME NEW p \in Plugin
        PROVE  Append(plugin_queues[p], [event |-> current, sub |-> next])
                 \in Seq(Log!Delivery)
    BY <2>1 DEF TypeOK
  <2>3. plugin_queues' \in [Plugin -> Seq(Log!Delivery)]
    BY <1>4, <2>2 DEF Route, TypeOK
  <2>. QED  BY <1>4, <2>3 DEF Route, TypeOK
<1>5. ASSUME NEW p \in Plugin, Signal(p) PROVE TypeOK'
  <2>1. Sentinel \in Log!Delivery
    BY DEF Log!Delivery
  <2>2. plugin_queues' \in [Plugin -> Seq(Log!Delivery)]
    BY <1>5, <2>1 DEF Signal, TypeOK
  <2>. QED  BY <1>5, <2>2 DEF Signal, TypeOK
<1>6. ASSUME NEW p \in Plugin, TakeItem(p) PROVE TypeOK'
  <2>1. Head(plugin_queues[p]) \in Log!Delivery \ {Sentinel}
    BY <1>6 DEF TakeItem, Waiting, TypeOK
  <2>2. Tail(plugin_queues[p]) \in Seq(Log!Delivery)
    BY <1>6 DEF TakeItem, Waiting, TypeOK
  <2>. QED  BY <1>6, <2>1, <2>2 DEF TakeItem, TypeOK
<1>7. ASSUME NEW p \in Plugin, TakeSentinel(p) PROVE TypeOK'
  <2>1. Tail(plugin_queues[p]) \in Seq(Log!Delivery)
    BY <1>7 DEF TakeSentinel, Waiting, TypeOK
  <2>. QED  BY <1>7, <2>1 DEF TakeSentinel, TypeOK
<1>8. CASE UNCHANGED vars
  BY <1>8 DEF vars, TypeOK
<1>. QED  BY <1>1, <1>2, <1>3, <1>4, <1>5, <1>6, <1>7, <1>8, StepKinds

(* Every step keeps the event queue the rest of the log.                   *)
LEMMA QueueStep == ASSUME BusInv, [Next]_vars PROVE QueueIsRestOfLog'
<1>. USE DEF BusInv
<1>1. CASE Puts
  BY <1>1, PutKeepsQueue DEF Puts
<1>2. CASE TakeEvent
  <2>1. /\ event_queue \in Seq(Nat) /\ event_queue # <<>>
        /\ current' = event_queue[1] /\ event_queue' = Tail(event_queue)
        /\ published' = published
    BY <1>2 DEF TakeEvent, TypeOK
  <2>2. /\ Len(event_queue) \in Nat \ {0}
        /\ Len(event_queue') = Len(event_queue) - 1
        /\ \A i \in 1..Len(event_queue') : event_queue'[i] = event_queue[i + 1]
    BY <2>1
  <2>3. current \in Nat /\ Len(published) \in Nat /\ current' = current + 1
    BY <2>1, <2>2 DEF QueueIsRestOfLog, TypeOK
  <2>4. Len(event_queue) = Len(published) - current
    BY DEF QueueIsRestOfLog
  <2>5. \A i \in 1..Len(event_queue') : event_queue[i + 1] = current + (i + 1)
    BY <2>2 DEF QueueIsRestOfLog
  <2>6. \A i \in 1..Len(event_queue') : event_queue'[i] = current' + i
    BY <2>2, <2>3, <2>5
  <2>7. current' \in 0..Len(published') /\ Len(event_queue') = Len(published') - current'
    BY <2>1, <2>2, <2>3, <2>4
  <2>. QED  BY <2>6, <2>7 DEF QueueIsRestOfLog
<1>3. CASE \/ Quiet \/ Route \/ UNCHANGED vars
           \/ \E p \in Plugin : Signal(p) \/ TakeItem(p) \/ TakeSentinel(p)
  <2>1. UNCHANGED <<event_queue, current, published>>
    BY <1>3, QuietIsQuiet DEF vars, Route, Signal, TakeItem, TakeSentinel
  <2>. QED  BY <2>1 DEF QueueIsRestOfLog
<1>. QED  BY <1>1, <1>2, <1>3, StepKinds

(* Every step keeps what is true of the dispatcher.                        *)
LEMMA DispatcherStep == ASSUME BusInv, [Next]_vars PROVE DispatcherInv'
<1>. USE DEF BusInv
<1>0. /\ handlers \in Seq(Log!Subscription) /\ Subscriptions \in Seq(Log!Subscription)
      /\ Len(handlers) \in Nat /\ Len(Subscriptions) \in Nat /\ next \in Nat
  BY BusAssumption DEF TypeOK
<1>1. CASE Subscribe
  <2>1. /\ handlers' = Append(handlers, Subscriptions[Len(handlers) + 1])
        /\ Len(handlers) + 1 \in 1..Len(Subscriptions)
    BY <1>0, <1>1 DEF Subscribe
  <2>2. handlers = SubSeq(Subscriptions, 1, Len(handlers))
    BY DEF DispatcherInv
  <2>3. /\ Len(handlers') = Len(handlers) + 1
        /\ handlers' = SubSeq(Subscriptions, 1, Len(handlers) + 1)
    BY <1>0, <2>1, <2>2
  <2>. QED  BY <1>0, <1>1, <2>1, <2>3 DEF Subscribe, DispatcherInv
<1>2. CASE Run
  <2>1. handlers = Subscriptions
    BY <1>0, <1>2 DEF Run, DispatcherInv
  <2>. QED  BY <1>2, <2>1 DEF Run, DispatcherInv
<1>3. CASE Launch
  BY <1>3 DEF Launch, LaunchReader, LaunchWorker, Listen, DispatcherInv
<1>4. CASE Routed
  <2>1. next = Len(Subscriptions) + 1
    BY <1>0, <1>4 DEF Routed, DispatcherInv
  <2>. QED  BY <1>4, <2>1 DEF Routed, DispatcherInv
<1>5. CASE Abort \/ FilterRaises \/ Interrupt \/ Exit
  BY <1>5 DEF Abort, FilterRaises, Interrupt, Exit, DispatcherInv
<1>6. CASE TakeEvent
  <2>1. current' > 0
    <3>1. event_queue \in Seq(Nat) /\ event_queue # <<>> /\ current' = event_queue[1]
      BY <1>6 DEF TakeEvent, TypeOK
    <3>2. 1 \in 1..Len(event_queue)
      BY <3>1
    <3>. QED  BY <3>1, <3>2 DEF QueueIsRestOfLog
  <2>. QED  BY <1>0, <1>6, <2>1 DEF TakeEvent, DispatcherInv
<1>7. CASE Route
  <2>1. next + 1 \in 1..(Len(Subscriptions) + 1)
    BY <1>0, <1>7 DEF Route, DispatcherInv
  <2>. QED  BY <1>7, <2>1 DEF Route, DispatcherInv
<1>8. CASE \E p \in Plugin : Signal(p)
  BY <1>8 DEF Signal, DispatcherInv
<1>9. CASE \/ Puts \/ UNCHANGED vars
           \/ (\E d \in Device : StreamEnds(d))
           \/ (\E p \in Plugin : HandlerEnds(p) \/ TakeItem(p) \/ TakeSentinel(p))
  <2>1. UNCHANGED <<main, handlers, current, next, signalled>>
    BY <1>9 DEF Puts, vars, StreamEnds, HandlerEnds, TakeItem, TakeSentinel
  <2>. QED  BY <2>1 DEF DispatcherInv
<1>. QED  BY <1>1, <1>2, <1>3, <1>4, <1>5, <1>6, <1>7, <1>8, <1>9, StepKinds DEF Quiet

-----------------------------------------------------------------------------
(* What a plugin has taken and what is queued for it, step by step. *)

Reached(p) == {d \in Log!Due(p) : Passed(d)}

(* A step that leaves plugin p's part of the engine alone keeps PluginInv. *)
LEMMA PluginKept ==
  ASSUME NEW p \in Plugin, PluginInv(p),
         taken'[p] = taken[p], plugin_queues'[p] = plugin_queues[p],
         signalled \subseteq signalled', workers'[p] = "stopped" => workers[p] = "stopped",
         Reached(p)' = Reached(p)
  PROVE  PluginInv(p)'
<1>1. Queued(p)' = Queued(p) /\ Log!Received(p)' = Log!Received(p)
  BY DEF Queued, Log!Received
<1>. QED  BY <1>1 DEF PluginInv, Reached, Log!Before

(* When it takes an event the dispatcher has been past all earlier ones. *)
LEMMA TakeEventKeepsReached ==
  ASSUME BusInv, TakeEvent, NEW p \in Plugin
  PROVE  Reached(p)' = Reached(p)
<1>1. /\ current' = current + 1 /\ next' = 1 /\ published' = published
      /\ current \in Nat /\ Len(Subscriptions) \in Nat
  <2>1. event_queue \in Seq(Nat) /\ event_queue # <<>> /\ current' = event_queue[1]
    BY DEF TakeEvent, BusInv, TypeOK
  <2>2. 1 \in 1..Len(event_queue)
    BY <2>1
  <2>. QED  BY <2>1, <2>2, BusAssumption DEF TakeEvent, BusInv, TypeOK, QueueIsRestOfLog
<1>2. current = 0 \/ next = Len(Subscriptions) + 1
  BY DEF TakeEvent, BusInv, DispatcherInv
<1>3. Log!Due(p)' = Log!Due(p)
  BY <1>1 DEF Log!Due, Log!Wants
<1>4. ASSUME NEW d \in Log!Due(p) PROVE Passed(d)' <=> Passed(d)
  <2>1. d \in [event : 1..Len(published), sub : 1..Len(Subscriptions)]
    BY DEF Log!Due
  <2>2. Len(published) \in Nat
    BY DEF BusInv, TypeOK
  <2>3. d.event \in Nat \ {0} /\ d.sub \in 1..Len(Subscriptions)
    BY <2>1, <2>2
  <2>. QED  BY <1>1, <1>2, <2>3 DEF Passed, Log!Before
<1>. QED  BY <1>3, <1>4 DEF Reached

(* What has been passed comes before the place of the dispatcher. *)
LEMMA RouteReaches ==
  ASSUME BusInv, Route, NEW p \in Plugin
  PROVE  LET n == [event |-> current, sub |-> next]
             hit == Matches /\ handlers[next].plugin = p
         IN  /\ hit => n \in Log!Due(p) /\ Reached(p)' = Reached(p) \cup {n}
             /\ ~hit => Reached(p)' = Reached(p)
<1>. DEFINE n == [event |-> current, sub |-> next]
            hit == Matches /\ handlers[next].plugin = p
<1>1. /\ main = "routing" /\ next <= Len(handlers) /\ next' = next + 1
      /\ UNCHANGED <<current, published>>
  BY DEF Route
<1>2. handlers = Subscriptions /\ current > 0 /\ next \in 1..(Len(Subscriptions) + 1)
  BY <1>1 DEF BusInv, DispatcherInv
<1>3. /\ current \in 1..Len(published) /\ next \in 1..Len(Subscriptions)
      /\ current \in Nat /\ next \in Nat /\ Len(Subscriptions) \in Nat
      /\ Len(published) \in Nat
  BY <1>1, <1>2, BusAssumption DEF BusInv, TypeOK, QueueIsRestOfLog
<1>4. hit <=> n \in Log!Due(p)
  BY <1>2, <1>3 DEF Log!Due, Matches
<1>5. Log!Due(p)' = Log!Due(p)
  BY <1>1 DEF Log!Due, Log!Wants
<1>6. ASSUME NEW d \in Log!Due(p) PROVE Passed(d)' <=> Passed(d) \/ d = n
  <2>1. d \in [event : 1..Len(published), sub : 1..Len(Subscriptions)]
    BY DEF Log!Due
  <2>2. d.event \in Nat /\ d.sub \in Nat /\ d = [event |-> d.event, sub |-> d.sub]
    BY <1>3, <2>1
  <2>3. d = n <=> d.event = current /\ d.sub = next
    BY <2>2
  <2>. QED  BY <1>1, <1>3, <2>2, <2>3 DEF Passed, Log!Before
<1>7. ~Passed(n)
  BY <1>3 DEF Passed, Log!Before
<1>8. hit => Reached(p)' = Reached(p) \cup {n}
  BY <1>4, <1>5, <1>6 DEF Reached
<1>9. ~hit => Reached(p)' = Reached(p)
  BY <1>4, <1>5, <1>6 DEF Reached
<1>. QED  BY <1>4, <1>8, <1>9

(* An item at the end of the queue of a plugin. *)
LEMMA Appended ==
  ASSUME TypeOK, NEW p \in Plugin, NEW x \in Log!Delivery,
         plugin_queues'[p] = Append(plugin_queues[p], x)
  PROVE  /\ Len(plugin_queues[p]) \in Nat
         /\ Len(plugin_queues'[p]) = Len(plugin_queues[p]) + 1
         /\ \A i \in 1..Len(plugin_queues[p]) : plugin_queues'[p][i] = plugin_queues[p][i]
         /\ plugin_queues'[p][Len(plugin_queues[p]) + 1] = x
         /\ Queued(p)' = Queued(p) \cup ({x} \ {Sentinel})
<1>. DEFINE q == plugin_queues[p]
            r == plugin_queues'[p]
<1>1. q \in Seq(Log!Delivery) /\ r = Append(q, x)
  BY DEF TypeOK
<1>2. /\ Len(q) \in Nat /\ Len(r) = Len(q) + 1 /\ r[Len(q) + 1] = x
      /\ \A i \in 1..Len(q) : r[i] = q[i]
  BY <1>1
<1>. HIDE DEF q, r
<1>3. 1..Len(r) = (1..Len(q)) \cup {Len(q) + 1}
  BY <1>2
<1>4. {r[i] : i \in 1..Len(r)} = {q[i] : i \in 1..Len(q)} \cup {x}
  BY <1>2, <1>3
<1>. QED  BY <1>2, <1>4 DEF q, r, Queued

(* One turn of the routing loop puts the next item last, if anywhere.      *)
LEMMA RouteKeepsPlugins ==
  ASSUME BusInv, Route, NEW p \in Plugin
  PROVE  PluginInv(p)'
<1>. DEFINE n == [event |-> current, sub |-> next]
            q == plugin_queues[p]
            hit == Matches /\ handlers[next].plugin = p
<1>1. /\ UNCHANGED <<taken, workers, signalled>> /\ main = "routing"
      /\ plugin_queues'[p] = IF hit THEN Append(q, n) ELSE q
  BY DEF Route, BusInv, TypeOK
<1>2. PluginInv(p) /\ TypeOK
  BY DEF BusInv
<1>3. CASE ~hit
  <2>1. Reached(p)' = Reached(p)
    BY <1>3, RouteReaches
  <2>. QED  BY <1>1, <1>2, <1>3, <2>1, PluginKept
<1>4. CASE hit
  <2>1. n \in Log!Due(p) /\ Reached(p)' = Reached(p) \cup {n}
    BY <1>4, RouteReaches
  <2>2. n \in Log!Delivery /\ n # Sentinel
    BY <1>2, <2>1, DueAreDeliveries
  <2>3. plugin_queues'[p] = Append(q, n)
    BY <1>1, <1>4
  <2>4. /\ Len(q) \in Nat /\ Len(plugin_queues'[p]) = Len(q) + 1
        /\ \A i \in 1..Len(q) : plugin_queues'[p][i] = q[i]
        /\ plugin_queues'[p][Len(q) + 1] = n
        /\ Queued(p)' = Queued(p) \cup {n}
    BY <1>2, <2>2, <2>3, Appended
  <2>5. signalled = {} /\ workers[p] # "stopped"
    BY <1>1, <1>2 DEF BusInv, DispatcherInv, PluginInv
  <2>6. \A i \in 1..Len(q) : q[i] # Sentinel
    BY <1>2, <2>5 DEF PluginInv
  <2>7. /\ \A d \in Log!Received(p) \cup Queued(p) : Log!Before(d, n)
        /\ Log!Received(p)' = Log!Received(p)
    BY <1>1, <1>2 DEF PluginInv, Passed, Log!Received
  <2>8. \A i \in 1..Len(q) : Log!Before(q[i], n)
    BY <2>6, <2>7 DEF Queued
  <2>9. (Log!Received(p) \cup Queued(p))' = Reached(p)'
    BY <1>2, <2>1, <2>4, <2>7 DEF PluginInv, Reached
  <2>10. \A i, j \in 1..Len(plugin_queues'[p]) :
           i < j => /\ plugin_queues'[p][i] # Sentinel
                    /\ Log!Before(plugin_queues'[p][i], plugin_queues'[p][j])
    <3> SUFFICES ASSUME NEW i \in 1..Len(plugin_queues'[p]),
                        NEW j \in 1..Len(plugin_queues'[p]), i < j
                 PROVE  /\ plugin_queues'[p][i] # Sentinel
                        /\ Log!Before(plugin_queues'[p][i], plugin_queues'[p][j])
      OBVIOUS
    <3>1. i \in 1..Len(q) /\ (j \in 1..Len(q) \/ j = Len(q) + 1)
      BY <2>4
    <3>2. CASE j = Len(q) + 1
      BY <2>4, <2>6, <2>8, <3>1, <3>2
    <3>3. CASE j \in 1..Len(q)
      <4>1. Log!Before(q[i], q[j])
        BY <1>2, <2>6, <3>1, <3>3 DEF PluginInv
      <4>. QED  BY <2>4, <2>6, <3>1, <3>3, <4>1
    <3>. QED  BY <3>1, <3>2, <3>3
  <2>11. \A d \in Log!Received(p)', e \in Queued(p)' : Log!Before(d, e)
    BY <1>2, <2>4, <2>7 DEF PluginInv
  <2>12. \A i \in 1..Len(plugin_queues'[p]) : plugin_queues'[p][i] # Sentinel
    BY <2>2, <2>4, <2>6
  <2>. QED
    <3>1. (Log!Received(p) \cup Queued(p) = Reached(p))'
      BY <2>9
    <3>2. (\A i, j \in 1..Len(taken[p]) : i < j => Log!Before(taken[p][i], taken[p][j]))'
      BY <1>1, <1>2 DEF PluginInv, Log!Before
    <3>3. (\A i, j \in 1..Len(plugin_queues[p]) :
             i < j => /\ plugin_queues[p][i] # Sentinel
                      /\ plugin_queues[p][j] # Sentinel =>
                           Log!Before(plugin_queues[p][i], plugin_queues[p][j]))'
      BY <2>10 DEF Log!Before
    <3>4. (\A d \in Log!Received(p), e \in Queued(p) : Log!Before(d, e))'
      BY <2>11 DEF Log!Before
    <3>5. (\A i \in 1..Len(plugin_queues[p]) :
             plugin_queues[p][i] = Sentinel => p \in signalled)'
      BY <2>12
    <3>6. (workers[p] = "stopped" => p \in signalled /\ plugin_queues[p] = <<>>)'
      BY <1>1, <2>5
    <3>. QED  BY <3>1, <3>2, <3>3, <3>4, <3>5, <3>6 DEF PluginInv, Reached
<1>. QED  BY <1>3, <1>4

(* The sentinel goes to the end of a queue that nobody puts to any more.   *)
LEMMA SignalKeepsPlugins ==
  ASSUME BusInv, NEW s \in Plugin, Signal(s), NEW p \in Plugin
  PROVE  PluginInv(p)'
<1>. DEFINE q == plugin_queues[p]
<1>1. /\ UNCHANGED <<taken, workers, published, current, next>>
      /\ signalled' = signalled \cup {s} /\ s \notin signalled
      /\ plugin_queues'[p] = IF p = s THEN Append(q, Sentinel) ELSE q
  BY DEF Signal, BusInv, TypeOK
<1>2. Reached(p)' = Reached(p)
  BY <1>1 DEF Reached, Log!Due, Log!Wants, Passed
<1>3. PluginInv(p) /\ TypeOK
  BY DEF BusInv
<1>4. CASE p # s
  BY <1>1, <1>2, <1>3, <1>4, PluginKept
<1>5. CASE p = s
  <2>1. Sentinel \in Log!Delivery
    BY DEF Log!Delivery
  <2>2. plugin_queues'[p] = Append(q, Sentinel)
    BY <1>1, <1>5
  <2>3. /\ Len(q) \in Nat /\ Len(plugin_queues'[p]) = Len(q) + 1
        /\ \A i \in 1..Len(q) : plugin_queues'[p][i] = q[i]
        /\ plugin_queues'[p][Len(q) + 1] = Sentinel
        /\ Queued(p)' = Queued(p)
    <3>1. /\ Len(q) \in Nat /\ Len(plugin_queues'[p]) = Len(q) + 1
          /\ \A i \in 1..Len(q) : plugin_queues'[p][i] = q[i]
          /\ plugin_queues'[p][Len(q) + 1] = Sentinel
          /\ Queued(p)' = Queued(p) \cup ({Sentinel} \ {Sentinel})
      BY <1>3, <2>1, <2>2, Appended
    <3>2. Queued(p) \cup ({Sentinel} \ {Sentinel}) = Queued(p)
      OBVIOUS
    <3>. QED  BY <3>1, <3>2
  <2>4. workers[p] # "stopped" /\ \A i \in 1..Len(q) : q[i] # Sentinel
    BY <1>1, <1>3, <1>5 DEF PluginInv
  <2>5. \A i, j \in 1..Len(plugin_queues'[p]) :
          i < j => /\ plugin_queues'[p][i] # Sentinel
                   /\ plugin_queues'[p][j] # Sentinel =>
                        Log!Before(plugin_queues'[p][i], plugin_queues'[p][j])
    <3> SUFFICES ASSUME NEW i \in 1..Len(plugin_queues'[p]),
                        NEW j \in 1..Len(plugin_queues'[p]), i < j
                 PROVE  /\ plugin_queues'[p][i] # Sentinel
                        /\ plugin_queues'[p][j] # Sentinel =>
                             Log!Before(plugin_queues'[p][i], plugin_queues'[p][j])
      OBVIOUS
    <3>1. i \in 1..Len(q) /\ (j \in 1..Len(q) \/ j = Len(q) + 1)
      BY <2>3
    <3>2. j \in 1..Len(q) => Log!Before(q[i], q[j])
      BY <1>3, <2>4, <3>1 DEF PluginInv
    <3>. QED  BY <2>3, <2>4, <3>1, <3>2
  <2>6. Log!Received(p)' = Log!Received(p)
    BY <1>1 DEF Log!Received
  <2>7. (Log!Received(p) \cup Queued(p))' = Reached(p)'
    BY <1>2, <1>3, <2>3, <2>6 DEF PluginInv, Reached
  <2>8. \A d \in Log!Received(p)', e \in Queued(p)' : Log!Before(d, e)
    BY <1>3, <2>3, <2>6 DEF PluginInv
  <2>. QED
    <3>1. (Log!Received(p) \cup Queued(p) = Reached(p))'
      BY <2>7
    <3>2. (\A i, j \in 1..Len(taken[p]) : i < j => Log!Before(taken[p][i], taken[p][j]))'
      BY <1>1, <1>3 DEF PluginInv, Log!Before
    <3>3. (\A i, j \in 1..Len(plugin_queues[p]) :
             i < j => /\ plugin_queues[p][i] # Sentinel
                      /\ plugin_queues[p][j] # Sentinel =>
                           Log!Before(plugin_queues[p][i], plugin_queues[p][j]))'
      BY <2>5 DEF Log!Before
    <3>4. (\A d \in Log!Received(p), e \in Queued(p) : Log!Before(d, e))'
      BY <2>8 DEF Log!Before
    <3>5. (\A i \in 1..Len(plugin_queues[p]) :
             plugin_queues[p][i] = Sentinel => p \in signalled)'
      BY <1>1, <1>5
    <3>6. (workers[p] = "stopped" => p \in signalled /\ plugin_queues[p] = <<>>)'
      BY <1>1, <2>4
    <3>. QED  BY <3>1, <3>2, <3>3, <3>4, <3>5, <3>6 DEF PluginInv, Reached
<1>. QED  BY <1>4, <1>5

(* The item at the front of the queue of a plugin is taken off. *)
LEMMA TakenOff ==
  ASSUME TypeOK, NEW p \in Plugin, plugin_queues[p] # <<>>,
         plugin_queues'[p] = Tail(plugin_queues[p])
  PROVE  /\ Len(plugin_queues[p]) \in Nat \ {0}
         /\ Head(plugin_queues[p]) = plugin_queues[p][1]
         /\ plugin_queues[p][1] \in Log!Delivery
         /\ Len(plugin_queues'[p]) = Len(plugin_queues[p]) - 1
         /\ \A i \in 1..Len(plugin_queues'[p]) :
              plugin_queues'[p][i] = plugin_queues[p][i + 1]
         /\ Queued(p) = Queued(p)' \cup ({plugin_queues[p][1]} \ {Sentinel})
<1>. DEFINE q == plugin_queues[p]
            r == plugin_queues'[p]
<1>1. q \in Seq(Log!Delivery) /\ q # <<>> /\ r = Tail(q)
  BY DEF TypeOK
<1>2. /\ Len(q) \in Nat \ {0} /\ Len(r) = Len(q) - 1 /\ Head(q) = q[1]
      /\ q[1] \in Log!Delivery
      /\ \A i \in 1..Len(r) : r[i] = q[i + 1]
  BY <1>1
<1>. HIDE DEF q, r
<1>3. ASSUME NEW j \in 1..Len(q), j # 1 PROVE q[j] \in {r[i] : i \in 1..Len(r)}
  <2>1. j - 1 \in 1..Len(r) /\ (j - 1) + 1 = j
    BY <1>2, <1>3
  <2>. QED  BY <1>2, <2>1
<1>4. ASSUME NEW i \in 1..Len(r) PROVE r[i] \in {q[j] : j \in 1..Len(q)}
  <2>1. i + 1 \in 1..Len(q)
    BY <1>2
  <2>. QED  BY <1>2, <2>1
<1>5. q[1] \in {q[j] : j \in 1..Len(q)}
  BY <1>2
<1>6. {q[i] : i \in 1..Len(q)} = {r[i] : i \in 1..Len(r)} \cup {q[1]}
  BY <1>3, <1>4, <1>5
<1>. QED  BY <1>2, <1>6 DEF q, r, Queued

(* What a plugin takes is the first it has yet to get. *)
LEMMA TakenIsNext ==
  ASSUME BusInv, NEW p \in Plugin, TakeItem(p)
  PROVE  /\ Head(plugin_queues[p]) \in Log!Due(p) \ Log!Received(p)
         /\ \A d \in Log!Due(p) :
              Log!Before(d, Head(plugin_queues[p])) => d \in Log!Received(p)
<1>. DEFINE q == plugin_queues[p]
            h == q[1]
<1>1. PluginInv(p) /\ TypeOK
  BY DEF BusInv
<1>2. q # <<>> /\ plugin_queues'[p] = Tail(q) /\ Head(q) # Sentinel
  BY <1>1 DEF TakeItem, Waiting, TypeOK
<1>3. Len(q) \in Nat \ {0} /\ Head(q) = h /\ h \in Log!Delivery
  BY <1>1, <1>2, TakenOff
<1>4. 1 \in 1..Len(q)
  BY <1>3
<1>5. h \in Queued(p)
  BY <1>2, <1>3, <1>4 DEF Queued
<1>6. h \in Log!Due(p) /\ Passed(h)
  BY <1>1, <1>5 DEF PluginInv
<1>7. h \notin Log!Received(p)
  BY <1>1, <1>3, <1>5, BeforeIsOrder DEF PluginInv
<1>8. ASSUME NEW d \in Log!Due(p), Log!Before(d, h) PROVE d \in Log!Received(p)
  <2>0. d \in Log!Delivery /\ [event |-> current, sub |-> next] \in Log!Delivery
    BY <1>1, DueAreDeliveries DEF TypeOK, Log!Delivery
  <2>1. Passed(d)
    BY <1>3, <1>6, <1>8, <2>0, BeforeIsOrder DEF Passed
  <2>2. SUFFICES d \notin Queued(p)
    BY <1>1, <2>1 DEF PluginInv
  <2>3. ASSUME d \in Queued(p) PROVE FALSE
    <3>1. PICK j \in 1..Len(q) : q[j] = d /\ d # Sentinel
      BY <2>3 DEF Queued
    <3>2. j # 1
      BY <1>3, <1>8, <3>1, BeforeIsOrder
    <3>3. 1 < j
      BY <1>3, <3>2
    <3>4. Log!Before(h, d)
      BY <1>1, <1>4, <3>1, <3>3 DEF PluginInv
    <3>. QED  BY <1>3, <1>8, <2>0, <3>4, BeforeIsOrder
  <2>. QED  BY <2>3
<1>. QED  BY <1>3, <1>6, <1>7, <1>8

(* A plugin thread takes the head of its own queue.                        *)
LEMMA TakeItemKeepsPlugins ==
  ASSUME BusInv, NEW s \in Plugin, TakeItem(s), NEW p \in Plugin
  PROVE  PluginInv(p)'
<1>. DEFINE q == plugin_queues[p]
            r == plugin_queues'[p]
            h == q[1]
<1>1. PluginInv(p) /\ TypeOK
  BY DEF BusInv
<1>2. UNCHANGED <<published, current, next, signalled>>
  BY DEF TakeItem
<1>3. Reached(p)' = Reached(p)
  BY <1>2 DEF Reached, Log!Due, Log!Wants, Passed
<1>4. CASE p # s
  <2>1. taken'[p] = taken[p] /\ r = q /\ workers'[p] = workers[p]
    BY <1>1, <1>4 DEF TakeItem, TypeOK
  <2>. QED  BY <1>1, <1>2, <1>3, <2>1, PluginKept
<1>5. CASE p = s
  <2>1. /\ q # <<>> /\ r = Tail(q) /\ Head(q) # Sentinel
        /\ taken'[p] = Append(taken[p], Head(q)) /\ workers'[p] = "handling"
    BY <1>1, <1>5 DEF TakeItem, Waiting, TypeOK
  <2>2. /\ Len(q) \in Nat \ {0} /\ Head(q) = h /\ Len(r) = Len(q) - 1
        /\ \A i \in 1..Len(r) : r[i] = q[i + 1]
        /\ Queued(p) = Queued(p)' \cup ({h} \ {Sentinel})
    BY <1>1, <2>1, TakenOff
  <2>3. \A i \in 1..Len(r) : i + 1 \in 1..Len(q) /\ 1 < i + 1
    BY <2>2
  <2>4. 1 \in 1..Len(q)
    BY <2>2
  <2>5. /\ h # Sentinel
        /\ taken[p] \in Seq(Log!Delivery \ {Sentinel})
        /\ h \in Log!Delivery \ {Sentinel}
    BY <1>1, <2>1, TakenOff DEF TypeOK
  <2>6. /\ Len(taken[p]) \in Nat /\ Len(taken'[p]) = Len(taken[p]) + 1
        /\ taken'[p][Len(taken[p]) + 1] = h
        /\ \A i \in 1..Len(taken[p]) : taken'[p][i] = taken[p][i]
        /\ Range(taken'[p]) = Range(taken[p]) \cup {h}
    <3>1. taken'[p] = Append(taken[p], h)
      BY <2>1, <2>2
    <3>2. /\ Len(taken[p]) \in Nat /\ Len(Append(taken[p], h)) = Len(taken[p]) + 1
          /\ Append(taken[p], h)[Len(taken[p]) + 1] = h
          /\ \A i \in 1..Len(taken[p]) : Append(taken[p], h)[i] = taken[p][i]
          /\ Range(Append(taken[p], h)) = Range(taken[p]) \cup {h}
      BY <2>5, AppendedTo
    <3>. HIDE DEF h
    <3>. QED  BY <3>1, <3>2
  <2>7. Log!Received(p)' = Log!Received(p) \cup {h}
    <3>1. Log!Received(p)' = Range(taken'[p]) /\ Log!Received(p) = Range(taken[p])
      BY DEF Log!Received, Log!Range, Range
    <3>. QED  BY <2>6, <3>1
  <2>8. DOMAIN taken[p] = 1..Len(taken[p])
    BY <2>5
  <2>9. \A i \in 1..Len(taken[p]) : Log!Before(taken[p][i], h)
    <3>1. h \in Queued(p)
      BY <2>2, <2>5
    <3>2. \A i \in 1..Len(taken[p]) : taken[p][i] \in Log!Received(p)
      BY <2>8 DEF Log!Received, Log!Range
    <3>. QED  BY <1>1, <3>1, <3>2 DEF PluginInv
  <2>10. \A i, j \in 1..Len(taken'[p]) : i < j => Log!Before(taken'[p][i], taken'[p][j])
    <3> SUFFICES ASSUME NEW i \in 1..Len(taken'[p]), NEW j \in 1..Len(taken'[p]), i < j
                 PROVE  Log!Before(taken'[p][i], taken'[p][j])
      OBVIOUS
    <3>1. i \in 1..Len(taken[p]) /\ (j \in 1..Len(taken[p]) \/ j = Len(taken[p]) + 1)
      BY <2>6
    <3>2. CASE j \in 1..Len(taken[p])
      BY <1>1, <2>6, <3>1, <3>2 DEF PluginInv
    <3>3. CASE j = Len(taken[p]) + 1
      BY <2>6, <2>9, <3>1, <3>3
    <3>. QED  BY <3>1, <3>2, <3>3
  <2>11. (Log!Received(p) \cup Queued(p))' = Reached(p)'
    <3>1. Log!Received(p) \cup Queued(p) = Reached(p)
      BY <1>1 DEF PluginInv, Reached
    <3>2. Queued(p) = Queued(p)' \cup {h}
      BY <2>2, <2>5
    <3>3. Log!Received(p)' \cup Queued(p)' = Log!Received(p) \cup Queued(p)
      BY <2>7, <3>2, Zenon
    <3>. QED  BY <1>3, <3>1, <3>3
  <2>12. \A i, j \in 1..Len(r) :
          i < j => r[i] # Sentinel /\ (r[j] # Sentinel => Log!Before(r[i], r[j]))
    <3> SUFFICES ASSUME NEW i \in 1..Len(r), NEW j \in 1..Len(r), i < j
                 PROVE  r[i] # Sentinel /\ (r[j] # Sentinel => Log!Before(r[i], r[j]))
      OBVIOUS
    <3>1. i + 1 < j + 1
      BY <2>2
    <3>. QED  BY <1>1, <2>2, <2>3, <3>1 DEF PluginInv
  <2>13. \A i \in 1..Len(r) : r[i] # Sentinel => Log!Before(h, r[i])
    BY <1>1, <2>2, <2>3, <2>4 DEF PluginInv
  <2>14. \A d \in Log!Received(p)', e \in Queued(p)' : Log!Before(d, e)
    <3>1. \A d \in Log!Received(p), e \in Queued(p) : Log!Before(d, e)
      BY <1>1 DEF PluginInv
    <3>2. Queued(p)' \subseteq Queued(p)
      BY <2>2
    <3>3. \A e \in Queued(p)' : Log!Before(h, e)
      BY <2>13 DEF Queued
    <3>. HIDE DEF h
    <3>. QED  BY <2>7, <3>1, <3>2, <3>3
  <2>15. \A i \in 1..Len(r) : r[i] = Sentinel => p \in signalled
    BY <1>1, <2>2, <2>3 DEF PluginInv
  <2>. QED
    <3>1. (Log!Received(p) \cup Queued(p) = Reached(p))'
      BY <2>11
    <3>2. (\A i, j \in 1..Len(taken[p]) : i < j => Log!Before(taken[p][i], taken[p][j]))'
      BY <2>10 DEF Log!Before
    <3>3. (\A i, j \in 1..Len(plugin_queues[p]) :
             i < j => /\ plugin_queues[p][i] # Sentinel
                      /\ plugin_queues[p][j] # Sentinel =>
                           Log!Before(plugin_queues[p][i], plugin_queues[p][j]))'
      BY <2>12 DEF Log!Before
    <3>4. (\A d \in Log!Received(p), e \in Queued(p) : Log!Before(d, e))'
      BY <2>14 DEF Log!Before
    <3>5. (\A i \in 1..Len(plugin_queues[p]) :
             plugin_queues[p][i] = Sentinel => p \in signalled)'
      BY <1>2, <2>15
    <3>6. (workers[p] = "stopped" => p \in signalled /\ plugin_queues[p] = <<>>)'
      BY <2>1
    <3>. QED  BY <3>1, <3>2, <3>3, <3>4, <3>5, <3>6 DEF PluginInv, Reached
<1>. QED  BY <1>4, <1>5

(* A thread that takes the sentinel has nothing left to do.                *)
LEMMA TakeSentinelKeepsPlugins ==
  ASSUME BusInv, NEW s \in Plugin, TakeSentinel(s), NEW p \in Plugin
  PROVE  PluginInv(p)'
<1>. DEFINE q == plugin_queues[p]
            r == plugin_queues'[p]
<1>1. PluginInv(p) /\ TypeOK
  BY DEF BusInv
<1>2. UNCHANGED <<published, current, next, signalled, taken>>
  BY DEF TakeSentinel
<1>3. Reached(p)' = Reached(p)
  BY <1>2 DEF Reached, Log!Due, Log!Wants, Passed
<1>4. CASE p # s
  <2>1. r = q /\ workers'[p] = workers[p]
    BY <1>1, <1>4 DEF TakeSentinel, TypeOK
  <2>. QED  BY <1>1, <1>2, <1>3, <1>4, <2>1, PluginKept
<1>5. CASE p = s
  <2>1. q # <<>> /\ r = Tail(q) /\ Head(q) = Sentinel /\ workers'[p] = "stopped"
    BY <1>1, <1>5 DEF TakeSentinel, Waiting, TypeOK
  <2>2. /\ Len(q) \in Nat \ {0} /\ Head(q) = q[1] /\ Len(r) = Len(q) - 1
        /\ Queued(p) = Queued(p)' \cup ({q[1]} \ {Sentinel})
    BY <1>1, <2>1, TakenOff
  <2>3. 1 \in 1..Len(q) /\ Len(q) \in 1..Len(q)
    BY <2>2
  <2>4. ~(1 < Len(q))
    BY <1>1, <2>1, <2>2, <2>3 DEF PluginInv
  <2>5. r = <<>> /\ Len(r) = 0
    <3>1. q \in Seq(Log!Delivery)
      BY <1>1 DEF TypeOK
    <3>2. Len(q) \in Nat \ {0} /\ ~(1 < Len(q)) /\ Len(r) = Len(q) - 1
      BY <2>2, <2>4
    <3>3. ASSUME NEW n, n \in Nat \ {0}, ~(1 < n) PROVE n - 1 = 0
      BY <3>3
    <3>4. Len(r) = 0
      BY <3>2, <3>3
    <3>5. r \in Seq(Log!Delivery)
      BY <2>1, <3>1
    <3>. HIDE DEF r
    <3>. QED  BY <3>4, <3>5
  <2>6. p \in signalled
    BY <1>1, <2>1, <2>2, <2>3 DEF PluginInv
  <2>7. Queued(p)' = Queued(p) /\ Log!Received(p)' = Log!Received(p)
    BY <1>2, <2>1, <2>2 DEF Log!Received
  <2>. QED
    <3>1. (Log!Received(p) \cup Queued(p) = Reached(p))'
      BY <1>1, <1>3, <2>7 DEF PluginInv, Reached
    <3>2. (\A i, j \in 1..Len(taken[p]) : i < j => Log!Before(taken[p][i], taken[p][j]))'
      BY <1>1, <1>2 DEF PluginInv, Log!Before
    <3>3. (\A i, j \in 1..Len(plugin_queues[p]) :
             i < j => /\ plugin_queues[p][i] # Sentinel
                      /\ plugin_queues[p][j] # Sentinel =>
                           Log!Before(plugin_queues[p][i], plugin_queues[p][j]))'
      BY <2>5
    <3>4. (\A d \in Log!Received(p), e \in Queued(p) : Log!Before(d, e))'
      BY <1>1, <2>7 DEF PluginInv, Log!Before
    <3>5. (\A i \in 1..Len(plugin_queues[p]) :
             plugin_queues[p][i] = Sentinel => p \in signalled)'
      BY <2>5
    <3>6. (workers[p] = "stopped" => p \in signalled /\ plugin_queues[p] = <<>>)'
      BY <2>5, <2>6, <1>2
    <3>. QED  BY <3>1, <3>2, <3>3, <3>4, <3>5, <3>6 DEF PluginInv, Reached
<1>. QED  BY <1>4, <1>5

(* Every step keeps what is true of each plugin.                           *)
LEMMA PluginStep ==
  ASSUME BusInv, [Next]_vars, NEW p \in Plugin
  PROVE  PluginInv(p)'
<1>1. PluginInv(p) /\ TypeOK /\ QueueIsRestOfLog
  BY DEF BusInv
<1>2. CASE Quiet
  <2>1. /\ UNCHANGED <<plugin_queues, signalled, taken>>
        /\ UNCHANGED <<published, current, next>>
    BY <1>2, QuietIsQuiet
  <2>2. workers'[p] = "stopped" => workers[p] = "stopped"
    BY <1>1, <1>2 DEF Quiet, Subscribe, Run, Abort, Launch, LaunchReader, LaunchWorker,
       Listen, Routed, FilterRaises, Interrupt, Exit, StreamEnds, HandlerEnds, TypeOK
  <2>3. Reached(p)' = Reached(p)
    BY <2>1 DEF Reached, Log!Due, Log!Wants, Passed
  <2>. QED  BY <1>1, <2>1, <2>2, <2>3, PluginKept
<1>3. CASE Puts
  <2>1. Reached(p)' = Reached(p)
    BY <1>1, <1>3, PutKeepsPassed DEF Puts, Reached
  <2>. QED  BY <1>1, <1>3, <2>1, PluginKept DEF Puts
<1>4. CASE TakeEvent
  <2>1. UNCHANGED <<plugin_queues, workers, signalled, taken>>
    BY <1>4 DEF TakeEvent
  <2>. QED  BY <1>1, <1>4, <2>1, TakeEventKeepsReached, PluginKept
<1>5. CASE UNCHANGED vars
  <2>1. Reached(p)' = Reached(p)
    BY <1>5 DEF vars, Reached, Log!Due, Log!Wants, Passed
  <2>. QED  BY <1>1, <1>5, <2>1, PluginKept DEF vars
<1>. QED
  BY <1>2, <1>3, <1>4, <1>5, StepKinds, RouteKeepsPlugins, SignalKeepsPlugins,
     TakeItemKeepsPlugins, TakeSentinelKeepsPlugins

-----------------------------------------------------------------------------

(* What a plugin has taken and what is in its queue are always, together,  *)
(* what the main loop has routed to it, in order and without a gap.        *)
THEOREM BusCorrect == Spec => []BusInv
<1>1. BusInv /\ [Next]_vars => BusInv'
  BY TypeStep, QueueStep, DispatcherStep, PluginStep DEF BusInv
<1>. QED  BY InitInv, <1>1, PTL DEF Spec

(* The engine's queues, handlers and threads keep their types.             *)
THEOREM TypeCorrect == Spec => []TypeOK
<1>1. BusInv => TypeOK
  BY DEF BusInv
<1>. QED  BY BusCorrect, <1>1, PTL

(* A plugin thread that ended on the sentinel has handled all that the     *)
(* main loop had routed to its plugin.                                     *)
THEOREM StoppedDrained == Spec => []StoppedHasDrained
<1>1. BusInv => StoppedHasDrained
  <2> SUFFICES ASSUME BusInv, NEW p \in Plugin, workers[p] = "stopped",
                      NEW d \in Log!Due(p), Passed(d)
               PROVE  d \in Log!Received(p)
    BY DEF StoppedHasDrained
  <2>1. PluginInv(p)
    BY DEF BusInv
  <2>2. plugin_queues[p] = <<>>
    BY <2>1 DEF PluginInv
  <2>3. Queued(p) = {}
    BY <2>2 DEF Queued
  <2>. QED  BY <2>1, <2>3 DEF PluginInv
<1>. QED  BY BusCorrect, <1>1, PTL

(* Every step of the engine is a step of the log or does not concern it.   *)
LEMMA StepRefines == BusInv /\ [Next]_vars => [Log!Next]_<<published, taken>>
<1> SUFFICES ASSUME BusInv, [Next]_vars
             PROVE  Log!Next \/ UNCHANGED <<published, taken>>
  OBVIOUS
<1>1. CASE Puts
  <2>1. PICK e \in Log!Event : Put(e) /\ UNCHANGED taken
    BY <1>1 DEF Puts
  <2>2. Log!Publish(e)
    BY <2>1 DEF Put, Log!Publish
  <2>. QED  BY <2>2 DEF Log!Next
<1>2. ASSUME NEW p \in Plugin, TakeItem(p) PROVE Log!Next
  <2>. DEFINE h == Head(plugin_queues[p])
  <2>1. /\ h \in Log!Due(p) \ Log!Received(p)
        /\ \A d \in Log!Due(p) : Log!Before(d, h) => d \in Log!Received(p)
    BY <1>2, TakenIsNext
  <2>2. /\ taken' = [taken EXCEPT ![p] = Append(@, h)]
        /\ UNCHANGED published
    BY <1>2 DEF TakeItem
  <2>. HIDE DEF h
  <2>3. Log!Deliver(p, h)
    BY <2>1, <2>2 DEF Log!Deliver
  <2>. QED  BY <2>1, <2>3 DEF Log!Next
<1>3. CASE \/ Quiet \/ TakeEvent \/ Route \/ UNCHANGED vars
           \/ (\E p \in Plugin : Signal(p) \/ TakeSentinel(p))
  BY <1>3, QuietIsQuiet DEF TakeEvent, Route, Signal, TakeSentinel, vars
<1>. QED  BY <1>1, <1>2, <1>3, StepKinds

(* The queues and threads of the event engine implement the log: every     *)
(* plugin gets what it subscribed to, in order, without a gap and never    *)
(* twice: what it takes is always the next delivery of the log.            *)
THEOREM BusImplementsLog == Spec => ImplementsLog
<1>1. Init => Log!Init
  BY DEF Init, Log!Init
<1>. QED  BY <1>1, BusCorrect, StepRefines, PTL DEF Spec, ImplementsLog, Log!Spec
=============================================================================
