------------------------------ MODULE EventLog ------------------------------
(***************************************************************************)
(* What the controller's event bus promises its plugins: there is one log  *)
(* of published events, and every plugin gets the events it subscribed to, *)
(* in the order of the log and without a gap, once per subscription.  What *)
(* a plugin got is a sequence: a delivery that comes twice is in it twice. *)
(* EventBus implements this with a dispatcher and a queue per plugin.      *)
(***************************************************************************)
EXTENDS Integers, Sequences, Functions

CONSTANTS
  Plugin,         \* names of the loaded plugins
  Subscriptions,  \* the calls of subscribe(), in the order they are made
  StreamType,     \* event types that come from a device's stream
  EmitType,       \* event types that plugins emit
  MaxEvents       \* bound: published events

VARIABLES
  published,  \* the events in the order they were published
  delivered   \* delivered[p]: the deliveries to plugin p, one after the other

(* report says whether a filter lets the event through. *)
Event == [type : StreamType \cup EmitType, report : BOOLEAN]
Subscription == [plugin : Plugin, type : StreamType \cup EmitType, filtered : BOOLEAN]

Wants(s, e) == s.type = e.type /\ (s.filtered => e.report)

(* A delivery: an event, by its place in the log, for a subscription.      *)
Delivery == [event : Nat, sub : Nat]

Due(p) ==
  {d \in [event : 1..Len(published), sub : 1..Len(Subscriptions)] :
     /\ Subscriptions[d.sub].plugin = p
     /\ Wants(Subscriptions[d.sub], published[d.event])}

Before(d, e) == d.event < e.event \/ (d.event = e.event /\ d.sub < e.sub)

Init ==
  /\ published = <<>>
  /\ delivered = [p \in Plugin |-> <<>>]

Publish(e) ==
  /\ Len(published) < MaxEvents
  /\ published' = Append(published, e)
  /\ UNCHANGED delivered

Received(p) == Range(delivered[p])

(* The next delivery is the first that is due and has not been made.       *)
Deliver(p, d) ==
  /\ d \in Due(p) \ Received(p)
  /\ \A e \in Due(p) : Before(e, d) => e \in Received(p)
  /\ delivered' = [delivered EXCEPT ![p] = Append(@, d)]
  /\ UNCHANGED published

Next ==
  \/ \E e \in Event : Publish(e)
  \/ \E p \in Plugin : \E d \in Due(p) : Deliver(p, d)

Spec == Init /\ [][Next]_<<published, delivered>>
=============================================================================
