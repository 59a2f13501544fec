----------------------------- MODULE EqRouting -----------------------------
(***************************************************************************)
(* Where Bluetooth audio goes: the EQ controller (audio/eq_controller.rs)   *)
(* starts and stops the supervised filter-chain process and publishes the   *)
(* desired default sink on a watch; the reconcile loop of the daemon        *)
(* (daemon.rs) makes it PipeWire's default sink, but only when `pactl       *)
(* subscribe` reports a graph event; and PipeWire moves the default sink    *)
(* away when the node behind it disappears.                                *)
(*                                                                         *)
(* The null sink is taken to exist here; NullSink has its life.             *)
(***************************************************************************)
EXTENDS Naturals, Sequences, FiniteSets

CONSTANTS
  Gains,      \* vectors of band gains, clamped
  Flat,       \* the gains of default_bands
  QueueCap,   \* capacity of the command channel (32 in main.rs)
  Environments, \* the sets of faults among which a behaviour has one
  MaxSpawns   \* bound: filter-chain processes ever spawned

(***************************************************************************)
(* "exits":   the filter-chain process exits by itself, or fails to spawn;  *)
(* "lingers": the node of a killed process may be seen by a later pw-dump;  *)
(* "ctlFails": pw-dump or pw-cli fail;                                      *)
(* "drift":   somebody else changes the default sink;                       *)
(* "admin":   POST /api/admin/restart is used.                              *)
(***************************************************************************)
FaultKinds == {"exits", "lingers", "ctlFails", "drift", "admin"}

(* EqCommand: SetEnabled(true), SetEnabled(false), UpdateGains(g).          *)
Commands == {"enable", "disable"} \cup Gains

ASSUME GainsAssumption ==
  /\ Flat \in Gains
  /\ Gains \cap {"enable", "disable"} = {}
ASSUME BoundsAssumption ==
  /\ QueueCap \in Nat \ {0}
  /\ MaxSpawns \in Nat
  /\ Environments \subseteq SUBSET FaultKinds

VARIABLES
  cmds,      \* EQ commands accepted and not yet received
  ePc,       \* where the EQ controller is
  nodeId,    \* node_id (0: None): the node it found
  gains,     \* the gains of the controller
  sup,       \* the filter-chain supervisor: its handle and its phase
  supGains,  \* the bands captured by the supervisor's factory
  proc,      \* the filter-chain process that runs (0: none)
  spawned,   \* processes spawned so far (bounded by MaxSpawns)
  route,     \* the DesiredRoute watch
  ui,        \* the EqInfo shown
  rPc,       \* where the reconcile loop is
  busy,      \* who is inside bring_up: the two callers share one task
  got,       \* the route bring_up runs with
  done,      \* did the last bring_up succeed?
  events,    \* graph events sent and not yet received
  nodes,     \* PipeWire: the EQ nodes in the graph, named by process
  nodeGains, \* PipeWire: the gains each node applies
  default,   \* PipeWire: the default sink
  shutdown,
  faults     \* the faults that may happen in this behaviour; never changes

eqVars    == <<cmds, ePc, nodeId, gains, route, ui>>
supVars   == <<sup, supGains, proc, spawned>>
loopVars  == <<rPc, busy, got, done>>
graphVars == <<events, nodes, nodeGains, default>>
vars      == <<eqVars, supVars, loopVars, graphVars, shutdown, faults>>

Procs == 1 .. MaxSpawns
Sinks == {"null", "eq"}

TypeOK ==
  /\ cmds \in Seq(Commands) /\ Len(cmds) <= QueueCap
  /\ ePc \in {"idle", "wait", "abort", "probe", "set", "ended"}
  /\ nodeId \in Procs \cup {0}
  /\ gains \in Gains
  /\ sup \in {"none", "starting", "running", "backoff"}
  /\ supGains \in Gains
  /\ proc \in Procs \cup {0}
  /\ spawned \in Procs \cup {0}
  /\ route \in Sinks
  /\ ui \in [enabled : BOOLEAN, gains : Gains]
  /\ rPc \in {"wait", "debounce", "apply", "ended"}
  /\ busy \in {"none", "reconcile", "admin"}
  /\ got \in Sinks
  /\ done \in BOOLEAN
  /\ events \in BOOLEAN
  /\ nodes \in SUBSET Procs
  /\ nodeGains \in [Procs -> Gains]
  /\ default \in Sinks \cup {"other"}
  /\ shutdown \in BOOLEAN
  /\ faults \in Environments

-----------------------------------------------------------------------------
(* POST /api/eq.                                                           *)

HasRoom == Len(cmds) < QueueCap

Submit(c) ==
  /\ ePc # "ended"
  /\ HasRoom
  /\ cmds' = Append(cmds, c)
  /\ UNCHANGED <<ePc, nodeId, gains, route, ui, supVars, loopVars, graphVars,
                 shutdown, faults>>

RequestShutdown ==
  /\ ~shutdown
  /\ shutdown' = TRUE
  /\ UNCHANGED <<eqVars, supVars, loopVars, graphVars, faults>>

-----------------------------------------------------------------------------
(* The EQ controller.                                                      *)

ControllerEnds ==
  /\ ePc = "idle"
  /\ shutdown
  /\ ePc' = "ended"
  /\ cmds' = <<>>
  /\ UNCHANGED <<nodeId, gains, route, ui, supVars, loopVars, graphVars,
                 shutdown, faults>>

Receive(c) ==
  /\ ePc = "idle"
  /\ ~shutdown
  /\ cmds # <<>>
  /\ c = Head(cmds)
  /\ cmds' = Tail(cmds)

(* SetEnabled(true): spawn the supervisor with the present gains, unless    *)
(* one runs already.                                                       *)
Enable ==
  /\ Receive("enable")
  /\ IF sup = "none"
     THEN sup' = "starting" /\ supGains' = gains /\ ePc' = "wait"
     ELSE UNCHANGED <<sup, supGains, ePc>>
  /\ UNCHANGED <<nodeId, gains, proc, spawned, route, ui, loopVars, graphVars,
                 shutdown, faults>>

(* The EQ nodes pw-dump lists.                                             *)
Listed == IF "lingers" \in faults THEN nodes ELSE nodes \cap {proc}

(* route_tx.send: it wakes nobody, the watch is read by bring_up only.      *)
SendRoute(s) == route' = s

(* wait_for_eq_node finds a node.                                          *)
NodeSeen ==
  /\ ePc = "wait"
  /\ nodeId' \in Listed
  /\ SendRoute("eq")
  /\ ePc' = "set"
  /\ UNCHANGED <<cmds, gains, ui, supVars, loopVars, graphVars,
                 shutdown, faults>>

(* wait_for_eq_node gives up after 2 s.                                    *)
NodeMissing ==
  /\ ePc = "wait"
  /\ Listed = {} \/ "ctlFails" \in faults
  /\ ePc' = "abort"
  /\ UNCHANGED <<cmds, nodeId, gains, route, ui, supVars, loopVars, graphVars,
                 shutdown, faults>>

(* SetEnabled(false): the route goes back first, then the supervisor.       *)
Disable ==
  /\ Receive("disable")
  /\ SendRoute("null")
  /\ ePc' = "abort"
  /\ UNCHANGED <<nodeId, gains, ui, supVars, loopVars, graphVars,
                 shutdown, faults>>

(* Variant: the handle is dropped, and the task it stands for never aborted.  *)
DropHandle == sup' = "none" /\ UNCHANGED proc

(* The child of a task that is dropped is killed.                           *)
KillOnDrop == proc' = 0

Abort == sup' = "none" /\ KillOnDrop

(* The handle is aborted and awaited; its child dies with it.              *)
Aborted ==
  /\ ePc = "abort"
  /\ Abort
  /\ SendRoute("null")
  /\ nodeId' = 0
  /\ ui' = [enabled |-> FALSE, gains |-> gains]
  /\ ePc' = "idle"
  /\ UNCHANGED <<cmds, gains, supGains, spawned, loopVars, graphVars,
                 shutdown, faults>>

(* UpdateGains: applied live when the EQ runs, else only stored.            *)
UpdateGains(g) ==
  /\ Receive(g)
  /\ gains' = g
  /\ IF sup = "none"
     THEN ui' = [enabled |-> FALSE, gains |-> g] /\ UNCHANGED ePc
     ELSE ePc' = "probe" /\ UNCHANGED ui
  /\ UNCHANGED <<nodeId, route, supVars, loopVars, graphVars,
                 shutdown, faults>>

Probed == IF Listed = {} THEN {0} ELSE Listed

Probe ==
  /\ ePc = "probe"
  /\ nodeId' \in Probed \cup {0 : f \in faults \cap {"ctlFails"}}
  /\ ePc' = "set"
  /\ UNCHANGED <<cmds, gains, route, ui, supVars, loopVars, graphVars,
                 shutdown, faults>>

(* set_eq_gains, whose failure is only logged, then state.set_eq.           *)
SetGains ==
  /\ ePc = "set"
  /\ \/ /\ nodeId \in nodes
        /\ nodeGains' = [nodeGains EXCEPT ![nodeId] = gains]
     \/ /\ nodeId \notin nodes \/ "ctlFails" \in faults
        /\ UNCHANGED nodeGains
  /\ ui' = [enabled |-> sup # "none", gains |-> gains]
  /\ ePc' = "idle"
  /\ UNCHANGED <<cmds, nodeId, gains, route, supVars, loopVars, events, nodes,
                 default, shutdown, faults>>

-----------------------------------------------------------------------------
(* The supervised filter-chain process and its PipeWire node.               *)

SpawnChain ==
  /\ sup = "starting"
  /\ ~shutdown
  /\ spawned < MaxSpawns
  /\ spawned' = spawned + 1
  /\ proc' = spawned + 1
  /\ sup' = "running"
  /\ UNCHANGED <<eqVars, supGains, loopVars, graphVars, shutdown, faults>>

(* The process exits, or could not be spawned: any end is restartable.      *)
ChainExits ==
  /\ "exits" \in faults
  /\ sup \in {"starting", "running"}
  /\ proc' = 0
  /\ sup' = "backoff"
  /\ UNCHANGED <<eqVars, supGains, spawned, loopVars, graphVars,
                 shutdown, faults>>

Respawn ==
  /\ sup = "backoff"
  /\ ~shutdown
  /\ sup' = "starting"
  /\ UNCHANGED <<eqVars, supGains, proc, spawned, loopVars, graphVars,
                 shutdown, faults>>

(* The supervisor observes shutdown by itself; its handle stays with the     *)
(* controller.                                                             *)
ChainStops ==
  /\ shutdown
  /\ proc # 0
  /\ KillOnDrop
  /\ UNCHANGED <<eqVars, sup, supGains, spawned, loopVars, graphVars,
                 shutdown, faults>>

NodeAppears ==
  /\ proc # 0
  /\ proc \notin nodes
  /\ nodes' = nodes \cup {proc}
  /\ nodeGains' = [nodeGains EXCEPT ![proc] = supGains]
  /\ events' = TRUE
  /\ UNCHANGED <<eqVars, supVars, loopVars, default, shutdown, faults>>

(* The default sink falls to another one with the last node of its name.    *)
NodeVanishes ==
  /\ \E n \in nodes \ {proc} : nodes' = nodes \ {n}
  /\ default' = IF default = "eq" /\ nodes' = {} THEN "other" ELSE default
  /\ events' = TRUE
  /\ UNCHANGED <<eqVars, supVars, loopVars, nodeGains, shutdown, faults>>

DefaultDrifts ==
  /\ "drift" \in faults
  /\ default # "other"
  /\ default' = "other"
  /\ events' = TRUE
  /\ UNCHANGED <<eqVars, supVars, loopVars, nodes, nodeGains,
                 shutdown, faults>>

-----------------------------------------------------------------------------
(* The reconcile loop, and the admin restart that calls bring_up as well.    *)

FirstEvent ==
  /\ rPc = "wait"
  /\ busy = "none"
  /\ ~shutdown
  /\ events
  /\ events' = FALSE
  /\ rPc' = "debounce"
  /\ UNCHANGED <<eqVars, supVars, busy, got, done, nodes, nodeGains, default,
                 shutdown, faults>>

(* Events of the debounce window are read and dropped.                     *)
Drain ==
  /\ rPc = "debounce"
  /\ busy = "none"
  /\ ~shutdown
  /\ events
  /\ events' = FALSE
  /\ UNCHANGED <<eqVars, supVars, loopVars, nodes, nodeGains, default,
                 shutdown, faults>>

(* The window elapses; bring_up starts with the route of now.               *)
Reconcile ==
  /\ rPc = "debounce"
  /\ busy = "none"
  /\ ~shutdown
  /\ rPc' = "apply"
  /\ busy' = "reconcile"
  /\ got' = route
  /\ UNCHANGED <<eqVars, supVars, done, graphVars, shutdown, faults>>

Reassert ==
  /\ "admin" \in faults
  /\ busy = "none"
  /\ ~shutdown
  /\ busy' = "admin"
  /\ got' = route
  /\ UNCHANGED <<eqVars, supVars, rPc, done, graphVars, shutdown, faults>>

(* A change of the default sink is itself a graph event.                   *)
EventsAfterSet == events' = (events \/ default' # default)

(* Variant: a route that was set once is not set again.                    *)
AppliedOnce == IF done THEN default ELSE got

Applied == got

(* bring_up: set_default_sink fails when no node has the name.              *)
SetDefault ==
  /\ busy # "none"
  /\ IF got = "eq" /\ nodes = {}
     THEN done' = FALSE /\ UNCHANGED default
     ELSE done' = TRUE /\ default' = Applied
  /\ EventsAfterSet
  /\ busy' = "none"
  /\ rPc' = IF busy = "reconcile" THEN "wait" ELSE rPc
  /\ UNCHANGED <<eqVars, supVars, got, nodes, nodeGains, shutdown, faults>>

ReconcileEnds ==
  /\ rPc \in {"wait", "debounce"}
  /\ busy = "none"
  /\ shutdown
  /\ rPc' = "ended"
  /\ UNCHANGED <<eqVars, supVars, busy, got, done, graphVars,
                 shutdown, faults>>

-----------------------------------------------------------------------------
(* run_daemon set the default sink once before the loops start.             *)
Init ==
  /\ cmds = <<>>
  /\ ePc = "idle"
  /\ nodeId = 0
  /\ gains = Flat
  /\ sup = "none"
  /\ supGains = Flat
  /\ proc = 0
  /\ spawned = 0
  /\ route = "null"
  /\ ui = [enabled |-> FALSE, gains |-> Flat]
  /\ rPc = "wait"
  /\ busy = "none"
  /\ got = "null"
  /\ done = TRUE
  /\ events = TRUE
  /\ nodes = {}
  /\ nodeGains = [p \in Procs |-> Flat]
  /\ default = "null"
  /\ shutdown = FALSE
  /\ faults \in Environments

EqController ==
  \/ ControllerEnds
  \/ Enable
  \/ NodeSeen
  \/ NodeMissing
  \/ Disable
  \/ Aborted
  \/ \E g \in Gains : UpdateGains(g)
  \/ Probe
  \/ SetGains

Supervisor == SpawnChain \/ Respawn \/ ChainStops

Daemon == FirstEvent \/ Reconcile \/ SetDefault \/ ReconcileEnds

PipeWire == NodeAppears \/ NodeVanishes

Next ==
  \/ EqController
  \/ Supervisor
  \/ Daemon
  \/ PipeWire
  \/ \E c \in Commands : Submit(c)
  \/ RequestShutdown
  \/ ChainExits
  \/ DefaultDrifts
  \/ Drain
  \/ Reassert

Spec == Init /\ [][Next]_vars

(* Every task of the runtime goes on, a spawned process brings its node up  *)
(* and a dead one loses it, the debounce window ends.                      *)
FairSpec ==
  /\ Spec
  /\ WF_vars(EqController)
  /\ WF_vars(Supervisor)
  /\ WF_vars(Daemon)
  /\ WF_vars(PipeWire)

-----------------------------------------------------------------------------
(* The EQ node of the running process applies the gains of the controller,    *)
(* even if they changed while it came up, unless the process or a call to     *)
(* PipeWire fails.                                                         *)
GainsLive ==
  faults \subseteq {"drift", "admin"} /\ sup = "running" /\ proc \in nodes
    => nodeGains[proc] = gains

(* Between two commands, what the user is told of the EQ is true, whichever   *)
(* way the last command ended: it is on exactly if its process is supervised  *)
(* and the route asked for is its node, and the gains shown are those its node *)
(* applies (eq_controller.rs 131-187, 194-216).                              *)
UiTruthful ==
  ePc = "idle" =>
    /\ ui.enabled <=> sup # "none"
    /\ route = "eq" <=> sup # "none"
    /\ ui.gains = gains
    /\ GainsLive

(* When the reconcile loop sleeps, PipeWire's default sink is the one it set *)
(* last: whatever moved it, or moved it while bring_up ran, left an event.  *)
DriftNoticed ==
  rPc = "wait" /\ busy = "none" /\ ~events /\ done => default = got

(* daemon.rs:259 "Reads the current DesiredRoute ... on each reconcile so EQ *)
(* enable/disable is always reflected": a desired route that stays becomes   *)
(* the default sink.                                                       *)
RouteReflected == route = "eq" ~> default = "eq" \/ route # "eq" \/ shutdown
=============================================================================
