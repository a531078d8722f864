----------------------------- MODULE MCEventBus -----------------------------
(***************************************************************************)
(* The bus with te_plugin, which subscribes to PacketIns that pass its     *)
(* filter, and a watcher of all PacketIns and of the ENTRY_ADDED events    *)
(* that te_plugin emits for such plugins.                                  *)
(***************************************************************************)
EXTENDS EventBus

CONSTANTS te, watcher

Plugins == {te, watcher}
Subscribed ==
  <<[plugin |-> te, type |-> "packet_in", filtered |-> TRUE],
    [plugin |-> watcher, type |-> "packet_in", filtered |-> FALSE],
    [plugin |-> watcher, type |-> "entry_added", filtered |-> FALSE]>>
StreamTypes == {"packet_in", "digest"}
EmitTypes == {"entry_added"}
=============================================================================
