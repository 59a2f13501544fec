----------------------------- MODULE BtDevices -----------------------------
(***************************************************************************)
(* The Bluetooth devices as the UI shows them. BlueZ reports devices and    *)
(* their connections; a discovery task and one watcher per device           *)
(* (bluetooth/bluer_devices.rs) turn the reports into events on a broadcast *)
(* channel; the manager (manager.rs) folds the events, and every two        *)
(* seconds a probe for bluez_input nodes, into a state per device; the      *)
(* bridge (service.rs) copies the states to AppState.                       *)
(*                                                                         *)
(* Names and icons are left out. A command of the user (connect,            *)
(* disconnect, forget) asks BlueZ for what BlueZ may also do by itself.     *)
(***************************************************************************)
EXTENDS Naturals, Sequences, FiniteSets

CONSTANTS
  Devices,
  NoDevice,
  EventCap,     \* capacity of the broadcast channel (64)
  MaxTold,      \* bound: reports a watcher, or discovery, has yet to take
  Environments  \* the sets of faults among which a behaviour has one

(***************************************************************************)
(* "unwatched": a device changes while nobody listens to it: before         *)
(*              discovery has subscribed, between its reading the device     *)
(*              and its acting on it, before the new watcher listens, or     *)
(*              ever, if it was known but not paired when discovery began;   *)
(* "burst":     events come faster than the manager takes them;             *)
(* "removed":   BlueZ forgets a device;                                     *)
(* "overtaken": it does so while an earlier change is still on its way;      *)
(* "deaf":      listing the devices or subscribing to the adapter or to a    *)
(*              device fails, or the adapter's stream ends.                 *)
(***************************************************************************)
FaultKinds == {"unwatched", "burst", "removed", "overtaken", "deaf"}

ASSUME DevicesAssumption ==
  /\ NoDevice \notin Devices
  /\ EventCap \in Nat \ {0, 1}
  /\ MaxTold \in Nat \ {0}
  /\ Environments \subseteq SUBSET FaultKinds

VARIABLES
  bluez,       \* BlueZ: absent, seen (not paired), paired or connected
  node,        \* PipeWire: the devices with a bluez_input node
  told,        \* Connected(b) reports each watcher has yet to take
  adapterTold, \* AdapterEvents discovery has yet to take
  dPc,         \* where the discovery task is
  todo,        \* the known devices it has yet to seed
  cur,         \* the device it is handling
  got,         \* what it read of that device
  watched,     \* addresses for which a watcher was spawned
  watcher,     \* the watcher of each device
  events,      \* the broadcast channel, as the manager's receiver sees it
  devices,     \* BtManager::devices: the state of each known device
  shown,       \* AppState: bluetooth_devices
  shutdown,
  faults       \* the faults that may happen in this behaviour; never changes

world     == <<bluez, node>>
discovery == <<dPc, todo, cur, got, watched>>
manager   == <<devices, shown, shutdown>>
vars      == <<world, told, adapterTold, discovery, watcher, events, manager,
               faults>>

Events == {"added", "removed", "connected", "disconnected"} \X Devices

DeviceState ==
  {"disconnected", "discovered", "connecting", "connected", "audio_active"}

TypeOK ==
  /\ bluez \in [Devices -> {"absent", "seen", "paired", "connected"}]
  /\ node \in SUBSET Devices
  /\ told \in [Devices -> Seq(BOOLEAN)]
  /\ \A d \in Devices : Len(told[d]) <= MaxTold
  /\ adapterTold \in Seq(Events) /\ Len(adapterTold) <= MaxTold
  /\ dPc \in {"list", "seed", "seedSend", "subscribe", "follow", "read", "send",
              "ended"}
  /\ todo \in SUBSET Devices
  /\ cur \in Devices \cup {NoDevice}
  /\ got \in {"seen", "paired", "connected"}
  /\ watched \in SUBSET Devices
  /\ watcher \in [Devices -> {"none", "starting", "listening", "ended"}]
  /\ events \in Seq(Events) /\ Len(events) <= EventCap
  /\ devices \in [Devices -> DeviceState \cup {"unknown"}]
  /\ shown \in [Devices -> DeviceState \cup {"unknown"}]
  /\ shutdown \in BOOLEAN
  /\ faults \in Environments

-----------------------------------------------------------------------------
(* BlueZ and PipeWire.                                                     *)

Subscribed == dPc \in {"follow", "read", "send"}

(* Somebody listens to d and nobody is about to act on what it was before.  *)
Followed(d) == watcher[d] = "listening" /\ cur # d

Reported(d, b) ==
  IF watcher[d] = "listening"
  THEN Len(told[d]) < MaxTold /\ told' = [told EXCEPT ![d] = Append(@, b)]
  ELSE UNCHANGED told

Announced(e) ==
  IF Subscribed
  THEN Len(adapterTold) < MaxTold /\ adapterTold' = Append(adapterTold, e)
  ELSE UNCHANGED adapterTold

Connect(d) ==
  /\ bluez[d] \in {"seen", "paired"}
  /\ "unwatched" \in faults \/ Followed(d)
  /\ bluez' = [bluez EXCEPT ![d] = "connected"]
  /\ Reported(d, TRUE)
  /\ UNCHANGED <<node, adapterTold, discovery, watcher, events, manager, faults>>

Disconnect(d) ==
  /\ bluez[d] = "connected"
  /\ "unwatched" \in faults \/ Followed(d)
  /\ bluez' = [bluez EXCEPT ![d] = "paired"]
  /\ Reported(d, FALSE)
  /\ UNCHANGED <<node, adapterTold, discovery, watcher, events, manager, faults>>

Appear(d) ==
  /\ bluez[d] = "absent"
  /\ "unwatched" \in faults \/ Subscribed
  /\ \E s \in {"seen", "paired", "connected"} : bluez' = [bluez EXCEPT ![d] = s]
  /\ Announced(<<"added", d>>)
  /\ UNCHANGED <<node, told, discovery, watcher, events, manager, faults>>

(* The device's event stream may end with it, or go on when it is back.     *)
Remove(d) ==
  /\ "removed" \in faults
  /\ bluez[d] \in {"seen", "paired"}
  /\ "unwatched" \in faults \/ (Subscribed /\ cur # d)
  /\ "overtaken" \in faults \/ told[d] = <<>>
  /\ bluez' = [bluez EXCEPT ![d] = "absent"]
  /\ Announced(<<"removed", d>>)
  /\ \/ UNCHANGED watcher
     \/ watcher[d] = "listening" /\ watcher' = [watcher EXCEPT ![d] = "ended"]
  /\ UNCHANGED <<node, told, discovery, events, manager, faults>>

(* WirePlumber acquires the transport, or lets it go.                       *)
NodeAppears(d) ==
  /\ bluez[d] = "connected"
  /\ node' = node \cup {d}
  /\ UNCHANGED <<bluez, told, adapterTold, discovery, watcher, events, manager,
                 faults>>

NodeVanishes(d) ==
  /\ node' = node \ {d}
  /\ UNCHANGED <<bluez, told, adapterTold, discovery, watcher, events, manager,
                 faults>>

-----------------------------------------------------------------------------
(* The broadcast channel: what does not fit pushes out the oldest event,     *)
(* the receiver gets Lagged and goes on.                                    *)

Newest(s) ==
  IF Len(s) <= EventCap THEN s ELSE SubSeq(s, Len(s) - EventCap + 1, Len(s))

Send(s) ==
  /\ "burst" \in faults \/ Len(events \o s) <= EventCap
  /\ events' = Newest(events \o s)

(* What discovery sends of a device it found paired or connected.           *)
Surfaced(d, s) ==
  IF s = "connected" THEN <<<<"added", d>>, <<"connected", d>>>>
                     ELSE <<<<"added", d>>>>

-----------------------------------------------------------------------------
(* The discovery task. is_paired and is_connected are two reads; as a device *)
(* is surfaced when either says yes, one read stands for both.              *)

ReadNow(d) == IF bluez[d] = "absent" THEN "seen" ELSE bluez[d]

Spawn(d) ==
  /\ watched' = watched \cup {d}
  /\ watcher' = [watcher EXCEPT ![d] = IF d \in watched THEN @ ELSE "starting"]

(* Phase 1: the devices BlueZ knows already.                                *)
ListKnown ==
  /\ dPc = "list"
  /\ \/ todo' = {d \in Devices : bluez[d] # "absent"}
     \/ "deaf" \in faults /\ todo' = {}
  /\ dPc' = "seed"
  /\ UNCHANGED <<world, told, adapterTold, cur, got, watched, watcher, events,
                 manager, faults>>

SeedRead(d) ==
  /\ dPc = "seed"
  /\ d \in todo
  /\ todo' = todo \ {d}
  /\ got' = ReadNow(d)
  /\ IF got' = "seen" THEN UNCHANGED <<dPc, cur>>
                      ELSE dPc' = "seedSend" /\ cur' = d
  /\ UNCHANGED <<world, told, adapterTold, watched, watcher, events, manager,
                 faults>>

SeedSend ==
  /\ dPc = "seedSend"
  /\ Send(Surfaced(cur, got))
  /\ Spawn(cur)
  /\ dPc' = "seed"
  /\ cur' = NoDevice
  /\ UNCHANGED <<world, told, adapterTold, todo, got, manager, faults>>

(* Phase 2: adapter.events().                                               *)
Subscribe ==
  /\ dPc = "seed"
  /\ todo = {}
  /\ dPc' = "follow"
  /\ UNCHANGED <<world, told, adapterTold, todo, cur, got, watched, watcher,
                 events, manager, faults>>

(* It fails, or the stream ends: the task returns and drops the JoinSet of   *)
(* its watchers.                                                           *)
DiscoveryEnds ==
  /\ "deaf" \in faults
  /\ dPc = "follow" \/ (dPc = "seed" /\ todo = {})
  /\ dPc' = "ended"
  /\ watcher' = [d \in Devices |-> IF watcher[d] = "none" THEN "none"
                                   ELSE "ended"]
  /\ UNCHANGED <<world, told, adapterTold, todo, cur, got, watched, events,
                 manager, faults>>

(* AdapterEvent::DeviceAdded: a watcher first, then the device is read.      *)
FollowAdded(d) ==
  /\ dPc = "follow"
  /\ adapterTold # <<>> /\ Head(adapterTold) = <<"added", d>>
  /\ adapterTold' = Tail(adapterTold)
  /\ Spawn(d)
  /\ dPc' = "read"
  /\ cur' = d
  /\ UNCHANGED <<world, told, todo, got, events, manager, faults>>

FollowRead ==
  /\ dPc = "read"
  /\ got' = ReadNow(cur)
  /\ IF got' = "seen" THEN dPc' = "follow" /\ cur' = NoDevice
                      ELSE dPc' = "send" /\ UNCHANGED cur
  /\ UNCHANGED <<world, told, adapterTold, todo, watched, watcher, events,
                 manager, faults>>

FollowSend ==
  /\ dPc = "send"
  /\ Send(Surfaced(cur, got))
  /\ dPc' = "follow"
  /\ cur' = NoDevice
  /\ UNCHANGED <<world, told, adapterTold, todo, got, watched, watcher, manager,
                 faults>>

(* AdapterEvent::DeviceRemoved; `watched` keeps the address.                 *)
FollowRemoved(d) ==
  /\ dPc = "follow"
  /\ adapterTold # <<>> /\ Head(adapterTold) = <<"removed", d>>
  /\ adapterTold' = Tail(adapterTold)
  /\ Send(<<<<"removed", d>>>>)
  /\ UNCHANGED <<world, told, discovery, watcher, manager, faults>>

-----------------------------------------------------------------------------
(* The watcher of a device: dev.events(), then a report at a time.          *)

WatcherListens(d) ==
  /\ watcher[d] = "starting"
  /\ \E to \in {"listening"} \cup {"ended" : f \in faults \cap {"deaf"}} :
       watcher' = [watcher EXCEPT ![d] = to]
  /\ UNCHANGED <<world, told, adapterTold, discovery, events, manager, faults>>

WatcherReports(d) ==
  /\ watcher[d] \in {"listening", "ended"}
  /\ dPc # "ended"
  /\ told[d] # <<>>
  /\ told' = [told EXCEPT ![d] = Tail(@)]
  /\ Send(IF Head(told[d]) THEN Surfaced(d, "connected")
                           ELSE <<<<"disconnected", d>>>>)
  /\ UNCHANGED <<world, adapterTold, discovery, watcher, manager, faults>>

-----------------------------------------------------------------------------
(* The manager: shutdown first, then events, then the probe (biased).       *)

(* Variant: a connection goes through the reducer, too, which lets a device  *)
(* connect only from Connecting.                                           *)
ConnectedByReducer(s) == IF s = "connecting" THEN "connected" ELSE s

OnConnected(s) == "connected"

(* Variant: an event without a device is not taken as its removal.          *)
RemovedIsDisconnected == "disconnected"

OnRemoved == "unknown"

OnAdded(s) == IF s \in {"unknown", "disconnected"} THEN "discovered" ELSE s

OnEvent(kind, s) ==
  CASE kind = "added"        -> OnAdded(s)
    [] kind = "connected"    -> OnConnected(s)
    [] kind = "disconnected" -> "disconnected"
    [] kind = "removed"      -> OnRemoved

HandleEvent ==
  /\ ~shutdown
  /\ events # <<>>
  /\ LET kind == Head(events)[1]
         d    == Head(events)[2]
     IN  devices' = [devices EXCEPT ![d] = OnEvent(kind, @)]
  /\ events' = Tail(events)
  /\ UNCHANGED <<world, told, adapterTold, discovery, watcher, shown, shutdown,
                 faults>>

(* DeviceState::can_transition_to.                                         *)
CanTransitionTo(s, next) ==
  IF next = "disconnected" THEN s # "disconnected"
  ELSE <<s, next>> \in {<<"disconnected", "discovered">>,
                        <<"discovered", "connecting">>,
                        <<"connecting", "connected">>,
                        <<"connected", "audio_active">>,
                        <<"audio_active", "connected">>}

(* apply_event, for the target of the event.                               *)
ApplyEvent(s, target) == IF CanTransitionTo(s, target) THEN target ELSE s

(* The devices that a bluez_input node in the list of sources is named after. *)
BluezInputAddresses == node

(* Variant: a node that has gone is left to the next Disconnected.          *)
NodeGoneIgnored(d) ==
  IF d \in BluezInputAddresses THEN "audio_active" ELSE devices[d]

ProbeTarget(d) ==
  IF d \in BluezInputAddresses THEN "audio_active" ELSE "connected"

(* reconcile_audio, after a `pactl` call that blocks the task.              *)
Probe ==
  /\ ~shutdown
  /\ events = <<>>
  /\ devices' = [d \in Devices |-> IF devices[d] = "unknown" THEN "unknown"
                                   ELSE ApplyEvent(devices[d], ProbeTarget(d))]
  /\ UNCHANGED <<world, told, adapterTold, discovery, watcher, events, shown,
                 shutdown, faults>>

(* The bridge sees the latest snapshot of the watch channel.                *)
Bridge ==
  /\ ~shutdown
  /\ shown # devices
  /\ shown' = devices
  /\ UNCHANGED <<world, told, adapterTold, discovery, watcher, events, devices,
                 shutdown, faults>>

RequestShutdown ==
  /\ ~shutdown
  /\ shutdown' = TRUE
  /\ UNCHANGED <<world, told, adapterTold, discovery, watcher, events, devices,
                 shown, faults>>

-----------------------------------------------------------------------------
(* The manager subscribed to the channel before discovery starts.           *)
Init ==
  /\ bluez \in [Devices -> {"absent", "seen", "paired", "connected"}]
  /\ node \in SUBSET {d \in Devices : bluez[d] = "connected"}
  /\ told = [d \in Devices |-> <<>>]
  /\ adapterTold = <<>>
  /\ dPc = "list"
  /\ todo = {}
  /\ cur = NoDevice
  /\ got = "seen"
  /\ watched = {}
  /\ watcher = [d \in Devices |-> "none"]
  /\ events = <<>>
  /\ devices = [d \in Devices |-> "unknown"]
  /\ shown = [d \in Devices |-> "unknown"]
  /\ shutdown = FALSE
  /\ faults \in Environments

Discovery ==
  \/ ListKnown
  \/ \E d \in Devices : SeedRead(d)
  \/ SeedSend
  \/ Subscribe
  \/ DiscoveryEnds
  \/ \E d \in Devices : FollowAdded(d)
  \/ FollowRead
  \/ FollowSend
  \/ \E d \in Devices : FollowRemoved(d)

Watcher(d) == WatcherListens(d) \/ WatcherReports(d)

Next ==
  \/ Discovery
  \/ \E d \in Devices : Watcher(d)
  \/ HandleEvent
  \/ Probe
  \/ Bridge
  \/ RequestShutdown
  \/ \E d \in Devices : Connect(d)
  \/ \E d \in Devices : Disconnect(d)
  \/ \E d \in Devices : Appear(d)
  \/ \E d \in Devices : Remove(d)
  \/ \E d \in Devices : NodeAppears(d)
  \/ \E d \in Devices : NodeVanishes(d)

Spec == Init /\ [][Next]_vars

(* Every task goes on. Where events do not come in bursts, a sender finds    *)
(* room in the channel again and again; the probe is polled whenever no      *)
(* event is pending, and pactl answers in the end.                          *)
FairSpec ==
  /\ Spec
  /\ SF_vars(Discovery)
  /\ \A d \in Devices : SF_vars(Watcher(d))
  /\ WF_vars(HandleEvent)
  /\ SF_vars(Probe)
  /\ WF_vars(Bridge)

-----------------------------------------------------------------------------
(* No report, event or snapshot is on its way.                              *)
Settled ==
  /\ dPc = "follow"
  /\ adapterTold = <<>>
  /\ \A d \in Devices : told[d] = <<>> /\ watcher[d] # "starting"
  /\ events = <<>>
  /\ shown = devices
  /\ ~shutdown

(* Once everything is delivered, the UI shows as connected exactly the       *)
(* devices that are, whichever task reported the changes, as long as each    *)
(* change had a listener and the manager kept up.                           *)
ShownIsTrue ==
  faults \subseteq {"removed"} /\ Settled =>
    \A d \in Devices :
      shown[d] \in {"connected", "audio_active"} <=> bluez[d] = "connected"

(* A device BlueZ has forgotten is not shown any more, although its last     *)
(* disconnection and its removal come from two tasks, if the former came     *)
(* through before the latter happened.                                     *)
RemovedIsGone ==
  faults \subseteq {"removed"} /\ Settled =>
    \A d \in Devices : bluez[d] = "absent" => shown[d] = "unknown"

(* AUD-010: a device with a bluez_input node comes to be shown as playing,   *)
(* and one whose node is gone does not stay so whatever was missed, as long  *)
(* as the events leave the manager time for its probe.                      *)
AudioFollows ==
  []<>(events = <<>>) =>
    \A d \in Devices :
      /\ <>[](d \notin node) => <>[](shown[d] # "audio_active" \/ shutdown)
      /\ <>[](faults \subseteq {"removed"} /\ bluez[d] = "connected" /\ d \in node)
           => <>[](shown[d] = "audio_active" \/ shutdown)
=============================================================================
