------------------------------ MODULE EventBus ------------------------------
(***************************************************************************)
(* The controller's event engine (controller/controller.py) as the runner  *)
(* (run_controller.py) drives it: plugins subscribe while they are started *)
(* one after the other; then a thread per device reads its P4Runtime       *)
(* stream, the main thread routes events to the queues of the plugins, and *)
(* a thread per plugin calls its handlers.  Ctrl+C, or an exception of a   *)
(* filter, ends the main loop at any point; it leaves a sentinel in every  *)
(* queue and the process exits without waiting for the threads.            *)
(*                                                                         *)
(* A queue holds references: an event is its place in `published`, which   *)
(* is otherwise history, and a delivery a pair of event and subscription.  *)
(***************************************************************************)
EXTENDS Integers, Sequences, Functions

CONSTANTS
  Plugin,         \* names of the loaded plugins
  Device,         \* names of the connected devices
  Subscriptions,  \* the calls of subscribe(), in the order they are made
  StreamType,     \* event types that come from a device's stream
  EmitType,       \* event types that plugins emit
  MaxEvents       \* bound: published events

VARIABLES
  main,          \* what the main thread is doing
  handlers,      \* _handlers, as one list: the subscriptions made so far
  readers,       \* read threads: "new", "reading" or "ended"
  event_queue,   \* _event_queue
  current,       \* the dispatcher's locals: the event taken from the queue
  next,          \* ... and the handler to be looked at next
  plugin_queues, \* _plugin_queues
  workers,       \* plugin threads: "new", "waiting", "handling" or "stopped"
  signalled,     \* the plugins that have been sent the sentinel
  published,     \* history: every event put into event_queue
  taken          \* history: what each plugin thread has taken, one item after
                 \* the other, sentinels apart

vars == <<main, handlers, readers, event_queue, current, next, plugin_queues,
          workers, signalled, published, taken>>

Log == INSTANCE EventLog WITH delivered <- taken

ASSUME BusAssumption ==
  /\ Subscriptions \in Seq(Log!Subscription)
  /\ MaxEvents \in Nat

Sentinel == [event |-> 0, sub |-> 0]

Init ==
  /\ main = "starting"
  /\ handlers = <<>>
  /\ readers = [d \in Device |-> "new"]
  /\ event_queue = <<>>
  /\ current = 0
  /\ next = 1
  /\ plugin_queues = [p \in Plugin |-> <<>>]
  /\ workers = [p \in Plugin |-> "new"]
  /\ signalled = {}
  /\ published = <<>>
  /\ taken = [p \in Plugin |-> <<>>]

(* _event_queue.put, by any thread. *)
Put(e) ==
  /\ Len(published) < MaxEvents
  /\ published' = Append(published, e)
  /\ event_queue' = Append(event_queue, Len(published) + 1)

-----------------------------------------------------------------------------
(* The runner starts the plugins: no other thread exists yet. *)

Subscribe ==
  /\ main = "starting"
  /\ Len(handlers) < Len(Subscriptions)
  /\ handlers' = Append(handlers, Subscriptions[Len(handlers) + 1])
  /\ UNCHANGED <<main, readers, event_queue, current, next, plugin_queues, workers,
                 signalled, published, taken>>

EmitAtStartup(e) ==
  /\ main = "starting"
  /\ Put(e)
  /\ UNCHANGED <<main, handlers, readers, current, next, plugin_queues, workers,
                 signalled, taken>>

(* run(): the threads are started, the readers first. *)
Run ==
  /\ main = "starting"
  /\ Len(handlers) = Len(Subscriptions)
  /\ main' = "launching"
  /\ UNCHANGED <<handlers, readers, event_queue, current, next, plugin_queues, workers,
                 signalled, published, taken>>

LaunchReader(d) ==
  /\ main = "launching"
  /\ readers[d] = "new"
  /\ readers' = [readers EXCEPT ![d] = "reading"]
  /\ UNCHANGED <<main, handlers, event_queue, current, next, plugin_queues, workers,
                 signalled, published, taken>>

LaunchWorker(p) ==
  /\ main = "launching"
  /\ \A d \in Device : readers[d] # "new"
  /\ workers[p] = "new"
  /\ workers' = [workers EXCEPT ![p] = "waiting"]
  /\ UNCHANGED <<main, handlers, readers, event_queue, current, next, plugin_queues,
                 signalled, published, taken>>

Listen ==
  /\ main = "launching"
  /\ \A p \in Plugin : workers[p] # "new"
  /\ main' = "waiting"
  /\ UNCHANGED <<handlers, readers, event_queue, current, next, plugin_queues, workers,
                 signalled, published, taken>>

-----------------------------------------------------------------------------
(* The read threads. *)

Alive == main # "exited"

Read(d, e) ==
  /\ Alive
  /\ readers[d] = "reading"
  /\ Put(e)
  /\ UNCHANGED <<main, handlers, readers, current, next, plugin_queues, workers,
                 signalled, taken>>

(* The stream raises or ends: the thread is gone and never restarted. *)
StreamEnds(d) ==
  /\ Alive
  /\ readers[d] = "reading"
  /\ readers' = [readers EXCEPT ![d] = "ended"]
  /\ UNCHANGED <<main, handlers, event_queue, current, next, plugin_queues, workers,
                 signalled, published, taken>>

-----------------------------------------------------------------------------
(* The dispatcher: the loop of run(). *)

TakeEvent ==
  /\ main = "waiting"
  /\ event_queue # <<>>
  /\ current' = Head(event_queue)
  /\ event_queue' = Tail(event_queue)
  /\ next' = 1
  /\ main' = "routing"
  /\ UNCHANGED <<handlers, readers, plugin_queues, workers, signalled, published, taken>>

Matches == Log!Wants(handlers[next], published[current])

(* Mutant: only the first subscription that matches gets the event. *)
RouteFirstOnly ==
  /\ main = "routing"
  /\ next <= Len(handlers)
  /\ IF Matches
     THEN /\ plugin_queues' = [plugin_queues EXCEPT ![handlers[next].plugin] =
                                 Append(@, [event |-> current, sub |-> next])]
          /\ next' = Len(handlers) + 1
     ELSE next' = next + 1 /\ UNCHANGED plugin_queues
  /\ UNCHANGED <<main, handlers, readers, event_queue, current, workers, signalled,
                 published, taken>>

(* One turn of the inner loop. *)
Route ==
  /\ main = "routing"
  /\ next <= Len(handlers)
  /\ plugin_queues' =
       IF Matches
       THEN [plugin_queues EXCEPT ![handlers[next].plugin] =
               Append(@, [event |-> current, sub |-> next])]
       ELSE plugin_queues
  /\ next' = next + 1
  /\ UNCHANGED <<main, handlers, readers, event_queue, current, workers, signalled,
                 published, taken>>

Routed ==
  /\ main = "routing"
  /\ next > Len(handlers)
  /\ main' = "waiting"
  /\ UNCHANGED <<handlers, readers, event_queue, current, next, plugin_queues, workers,
                 signalled, published, taken>>

(* A filter raises: nothing in run() catches it. *)
FilterRaises ==
  /\ main = "routing"
  /\ next <= Len(handlers)
  /\ handlers[next].type = published[current].type
  /\ handlers[next].filtered
  /\ main' = "stopping"
  /\ UNCHANGED <<handlers, readers, event_queue, current, next, plugin_queues, workers,
                 signalled, published, taken>>

(* Ctrl+C in the main loop, possibly between two handlers of one event.    *)
Interrupt ==
  /\ main \in {"waiting", "routing"}
  /\ main' = "stopping"
  /\ UNCHANGED <<handlers, readers, event_queue, current, next, plugin_queues, workers,
                 signalled, published, taken>>

(* Ctrl+C, or a plugin's exception, before the main loop. *)
Abort ==
  /\ main \in {"starting", "launching"}
  /\ main' = "exited"
  /\ UNCHANGED <<handlers, readers, event_queue, current, next, plugin_queues, workers,
                 signalled, published, taken>>

(* Mutant: the sentinel overtakes what is in the queue. *)
SignalInFront(p) ==
  /\ main = "stopping"
  /\ p \notin signalled
  /\ plugin_queues' = [plugin_queues EXCEPT ![p] = <<Sentinel>> \o @]
  /\ signalled' = signalled \cup {p}
  /\ UNCHANGED <<main, handlers, readers, event_queue, current, next, workers,
                 published, taken>>

(* The finally clause of run(): q.put(None). *)
Signal(p) ==
  /\ main = "stopping"
  /\ p \notin signalled
  /\ plugin_queues' = [plugin_queues EXCEPT ![p] = Append(@, Sentinel)]
  /\ signalled' = signalled \cup {p}
  /\ UNCHANGED <<main, handlers, readers, event_queue, current, next, workers,
                 published, taken>>

(* The plugins' shutdown(), Controller.shutdown() and the end of the       *)
(* process, which takes the daemon threads with it.                        *)
Exit ==
  /\ main = "stopping"
  /\ signalled = Plugin
  /\ main' = "exited"
  /\ UNCHANGED <<handlers, readers, event_queue, current, next, plugin_queues, workers,
                 signalled, published, taken>>

-----------------------------------------------------------------------------
(* The plugin threads: _plugin_loop. *)

Waiting(p) == Alive /\ workers[p] = "waiting" /\ plugin_queues[p] # <<>>

(* Mutant: an item goes back to the end of the queue, to be tried again.   *)
TakeItemForRetry(p) ==
  /\ Waiting(p)
  /\ Head(plugin_queues[p]) # Sentinel
  /\ plugin_queues' = [plugin_queues EXCEPT ![p] = Append(Tail(@), Head(@))]
  /\ taken' = [taken EXCEPT ![p] = Append(@, Head(plugin_queues[p]))]
  /\ workers' = [workers EXCEPT ![p] = "handling"]
  /\ UNCHANGED <<main, handlers, readers, event_queue, current, next, signalled,
                 published>>

TakeItem(p) ==
  /\ Waiting(p)
  /\ Head(plugin_queues[p]) # Sentinel
  /\ plugin_queues' = [plugin_queues EXCEPT ![p] = Tail(@)]
  /\ taken' = [taken EXCEPT ![p] = Append(@, Head(plugin_queues[p]))]
  /\ workers' = [workers EXCEPT ![p] = "handling"]
  /\ UNCHANGED <<main, handlers, readers, event_queue, current, next, signalled,
                 published>>

TakeSentinel(p) ==
  /\ Waiting(p)
  /\ Head(plugin_queues[p]) = Sentinel
  /\ plugin_queues' = [plugin_queues EXCEPT ![p] = Tail(@)]
  /\ workers' = [workers EXCEPT ![p] = "stopped"]
  /\ UNCHANGED <<main, handlers, readers, event_queue, current, next, signalled,
                 published, taken>>

(* A handler calls emit(). *)
HandlerEmits(p, e) ==
  /\ Alive
  /\ workers[p] = "handling"
  /\ Put(e)
  /\ UNCHANGED <<main, handlers, readers, current, next, plugin_queues, workers,
                 signalled, taken>>

(* Mutant: an exception of the handler ends the plugin's thread. *)
HandlerEndsOrDies(p) ==
  /\ Alive
  /\ workers[p] = "handling"
  /\ workers' \in {[workers EXCEPT ![p] = w] : w \in {"waiting", "stopped"}}
  /\ UNCHANGED <<main, handlers, readers, event_queue, current, next, plugin_queues,
                 signalled, published, taken>>

(* The handler returns, or raises and the exception is logged. *)
HandlerEnds(p) ==
  /\ Alive
  /\ workers[p] = "handling"
  /\ workers' = [workers EXCEPT ![p] = "waiting"]
  /\ UNCHANGED <<main, handlers, readers, event_queue, current, next, plugin_queues,
                 signalled, published, taken>>

-----------------------------------------------------------------------------

StreamEvent == [type : StreamType, report : BOOLEAN]
EmittedEvent == [type : EmitType, report : {FALSE}]

Startup == Subscribe \/ (\E e \in EmittedEvent : EmitAtStartup(e)) \/ Run \/ Abort

Launch == (\E d \in Device : LaunchReader(d)) \/ (\E p \in Plugin : LaunchWorker(p))
            \/ Listen

Reader(d) == (\E e \in StreamEvent : Read(d, e)) \/ StreamEnds(d)

Dispatch == TakeEvent \/ Route \/ Routed

Stop == FilterRaises \/ Interrupt \/ (\E p \in Plugin : Signal(p)) \/ Exit

Worker(p) ==
  TakeItem(p) \/ TakeSentinel(p) \/ (\E e \in EmittedEvent : HandlerEmits(p, e))
    \/ HandlerEnds(p)

Next ==
  \/ Startup \/ Launch \/ Dispatch \/ Stop
  \/ \E d \in Device : Reader(d)
  \/ \E p \in Plugin : Worker(p)

Spec == Init /\ [][Next]_vars

(***************************************************************************)
(* The dispatcher and the plugin threads run, and handlers return.  Nothing*)
(* is asked of the devices, of startup, or of the end of the process.      *)
(***************************************************************************)
FairSpec ==
  /\ Spec
  /\ WF_vars(Dispatch)
  /\ \A p \in Plugin : WF_vars(TakeItem(p)) /\ WF_vars(HandlerEnds(p))

-----------------------------------------------------------------------------

(* The types of the engine's queues, threads and locals. *)
TypeOK ==
  /\ main \in {"starting", "launching", "waiting", "routing", "stopping", "exited"}
  /\ handlers \in Seq(Log!Subscription)
  /\ readers \in [Device -> {"new", "reading", "ended"}]
  /\ event_queue \in Seq(Nat)
  /\ current \in Nat
  /\ next \in Nat
  /\ plugin_queues \in [Plugin -> Seq(Log!Delivery)]
  /\ workers \in [Plugin -> {"new", "waiting", "handling", "stopped"}]
  /\ signalled \subseteq Plugin
  /\ published \in Seq(Log!Event)
  /\ taken \in [Plugin -> Seq(Log!Delivery \ {Sentinel})]

(***************************************************************************)
(* Every plugin is called with the events it subscribed to, in the order   *)
(* they were put into the event queue, without a gap and once for each     *)
(* subscription, whatever the threads do in between, whichever handlers or *)
(* filters raise, and wherever Ctrl+C strikes.  A call repeated, at once   *)
(* or later, is a step that the log does not have.                         *)
(***************************************************************************)
ImplementsLog == Log!Spec

(* The dispatcher has been past delivery d. *)
Passed(d) == Log!Before(d, [event |-> current, sub |-> next])

(***************************************************************************)
(* A plugin thread that stopped has called its handlers for everything     *)
(* that was ever routed to it: the sentinel does not overtake the backlog. *)
(***************************************************************************)
StoppedHasDrained ==
  \A p \in Plugin : workers[p] = "stopped" =>
    \A d \in Log!Due(p) : Passed(d) => d \in Log!Received(p)

(***************************************************************************)
(* While the main loop runs, every event that a plugin wants is handled by *)
(* it in the end, whichever handlers raise on the way.                     *)
(***************************************************************************)
Running == main \in {"waiting", "routing"}

EventsAreHandled ==
  \A n \in 1..MaxEvents, s \in 1..Len(Subscriptions) :
    LET p == Subscriptions[s].plugin
        d == [event |-> n, sub |-> s]
    IN  Running /\ d \in Log!Due(p) ~> d \in Log!Received(p) \/ ~Running

-----------------------------------------------------------------------------
(***************************************************************************)
(* The inductive invariant behind ImplementsLog.  The event queue is the   *)
(* rest of the log; what a plugin has taken and what is in its queue are,  *)
(* together, the deliveries the dispatcher has been past; both are in      *)
(* order, the queue after everything taken from it and with at most one    *)
(* sentinel, at its end.                                                   *)
(***************************************************************************)
QueueIsRestOfLog ==
  /\ current \in 0..Len(published)
  /\ Len(event_queue) = Len(published) - current
  /\ \A i \in 1..Len(event_queue) : event_queue[i] = current + i

DispatcherInv ==
  /\ main \notin {"starting", "exited"} => handlers = Subscriptions
  /\ handlers = SubSeq(Subscriptions, 1, Len(handlers))
  /\ Len(handlers) <= Len(Subscriptions)
  /\ main \in {"starting", "launching", "waiting"} =>
       current = 0 \/ next = Len(Subscriptions) + 1
  /\ main = "routing" => current > 0
  /\ next \in 1..(Len(Subscriptions) + 1)
  /\ main \in {"starting", "launching", "waiting", "routing"} => signalled = {}

Queued(p) == {plugin_queues[p][i] : i \in 1..Len(plugin_queues[p])} \ {Sentinel}

PluginInv(p) ==
  /\ Log!Received(p) \cup Queued(p) = {d \in Log!Due(p) : Passed(d)}
  /\ \A i, j \in 1..Len(taken[p]) : i < j => Log!Before(taken[p][i], taken[p][j])
  /\ \A i, j \in 1..Len(plugin_queues[p]) :
       i < j => /\ plugin_queues[p][i] # Sentinel
                /\ plugin_queues[p][j] # Sentinel =>
                     Log!Before(plugin_queues[p][i], plugin_queues[p][j])
  /\ \A d \in Log!Received(p), e \in Queued(p) : Log!Before(d, e)
  /\ \A i \in 1..Len(plugin_queues[p]) :
       plugin_queues[p][i] = Sentinel => p \in signalled
  /\ workers[p] = "stopped" => p \in signalled /\ plugin_queues[p] = <<>>

BusInv == TypeOK /\ QueueIsRestOfLog /\ DispatcherInv /\ \A p \in Plugin : PluginInv(p)
=============================================================================
