-------------------------- MODULE OutputController --------------------------
(***************************************************************************)
(* The output controller task (src/src/output/controller.rs): it owns the  *)
(* one route by which captured audio leaves the machine, either a          *)
(* PipeWire module-loopback to a sink (sound card or AirPlay) or a CASTV2   *)
(* session to a Chromecast.                                                *)
(*                                                                         *)
(* Every pactl call is awaited through spawn_blocking, so each await is a   *)
(* step of its own (variable pc): commands, shutdown, the death of a cast   *)
(* session, a crash or a PipeWire restart may fall between two of them.     *)
(* Around the task the module keeps what outlives it or runs beside it:     *)
(* the modules loaded in PipeWire, the spawned cast tasks, the command      *)
(* queue filled by POST /api/output, and the process that main.rs ends.     *)
(***************************************************************************)
EXTENDS Naturals, Sequences, FiniteSets

CONSTANTS
  Sinks,       \* PipeWire sinks: sound cards and RAOP (AirPlay) sinks
  Casts,       \* Chromecasts
  ModuleIds,   \* ids pipewire-pulse hands out for loaded modules
  SessionIds,  \* spawned cast tasks that may be alive at one time
  None,        \* Option::None, and the command that clears the output
  Raop,        \* what an id stands for when it is module-raop-discover
  Foreign,     \* what an id stands for when somebody else loaded it
  QueueCap,    \* capacity of the command channel (16 in main.rs)
  LanKnown,    \* did `hostname -I` give a LAN address at startup?
  Faults,      \* the failures of the environment this instance admits
  MaxStarts    \* bound: how often the process is started

Outputs  == Sinks \cup Casts
Commands == Outputs \cup {None}

(***************************************************************************)
(* "garbled": load-module succeeds and prints no parseable id;              *)
(* "lost":    the pactl call errs (timeout, spawn failure) and did nothing; *)
(* "late":    the pactl call times out although PipeWire executed it;       *)
(* "crash":   the process dies without a shutdown request;                  *)
(* "pwRestart": PipeWire restarts and forgets every loaded module.          *)
(***************************************************************************)
FaultKinds == {"garbled", "lost", "late", "crash", "pwRestart"}

ASSUME OutputsAssumption ==
  /\ Sinks \cap Casts = {}
  /\ None \notin Outputs \cup ModuleIds \cup SessionIds \cup {"connecting", "lost"}
  /\ Raop \notin Outputs \cup {None, Foreign}
  /\ Foreign \notin Outputs \cup {None}
ASSUME BoundsAssumption ==
  /\ QueueCap \in Nat \ {0}
  /\ MaxStarts \in Nat \ {0}
  /\ LanKnown \in BOOLEAN
  /\ Faults \subseteq FaultKinds

VARIABLES
  pc,         \* the await the controller is parked at
  handling,   \* the command whose handler is running
  active,     \* the `active` local of the task
  loopbackId, \* loopback_module_id
  unloading,  \* the id take()n by teardown_loopback, being unloaded
  session,    \* cast_session
  health,     \* cast_health
  available,  \* the Chromecasts of the last probe that have an address
  raopId,     \* raop_discover_module_id
  published,  \* what AppState shows: active output and cast health
  queue,      \* accepted OutputCommands not yet received
  requested,  \* history: the last OutputCommand accepted
  closed,     \* every OutputCommand sender is gone
  shutdown,   \* the shutdown watch
  starts,     \* process starts so far (bounded by MaxStarts)
  modules,    \* PipeWire: what each module id stands for
  task,       \* the phase of each cast task
  castDev,    \* the Chromecast each cast task talks to
  stopped     \* the stop signal of each cast task

local   == <<handling, active, loopbackId, unloading, session, health,
             available, raopId>>
mailbox == <<queue, requested, closed, shutdown>>
casts   == <<task, castDev, stopped>>
vars    == <<pc, local, published, mailbox, starts, modules, casts>>

Healths == {None, "connecting", "lost"}
Live    == {"connecting", "launched", "loading", "playing"}
Phases  == Live \cup {"free", "finished"}

Places == {"down", "bootLoad", "bootList", "bootProbe", "idle", "unload",
           "load", "probe", "exitUnload", "exitRaop", "done"}

TypeOK ==
  /\ pc \in Places
  /\ handling \in Commands
  /\ active \in Outputs \cup {None}
  /\ loopbackId \in ModuleIds \cup {None}
  /\ unloading \in ModuleIds \cup {None}
  /\ session \in SessionIds \cup {None}
  /\ health \in Healths
  /\ available \in SUBSET Casts
  /\ raopId \in ModuleIds \cup {None}
  /\ published \in [active : Outputs \cup {None}, health : Healths]
  /\ queue \in Seq(Commands) /\ Len(queue) <= QueueCap
  /\ requested \in Commands
  /\ closed \in BOOLEAN
  /\ shutdown \in BOOLEAN
  /\ starts \in Nat
  /\ modules \in [ModuleIds -> Sinks \cup {Raop, Foreign, None}]
  /\ task \in [SessionIds -> Phases]
  /\ castDev \in [SessionIds -> Casts \cup {None}]
  /\ stopped \in [SessionIds -> BOOLEAN]

-----------------------------------------------------------------------------
(* PipeWire, as the controller's pactl calls see it.                       *)

Unused  == {m \in ModuleIds : modules[m] = None}
Running == pc \notin {"down", "done"}

(* The answers `pactl load-module` can give: a refusal is an everyday       *)
(* answer (the sink is unplugged), the others need a fault.                *)
LoadAnswers == {"ok", "refused"} \cup (Faults \cap {"garbled", "lost", "late"})

(* load-module of `what` under a fresh id m, answered by a.                 *)
LoadModule(what, m, a) ==
  IF a \in {"ok", "garbled", "late"}
  THEN /\ m \in Unused
       /\ modules' = [modules EXCEPT ![m] = what]
  ELSE UNCHANGED modules

(* unload-module of id. It unloads whatever the id stands for now; an error *)
(* is logged and ignored by every caller.                                  *)
UnloadModule(id) ==
  \/ modules' = IF id = None THEN modules ELSE [modules EXCEPT ![id] = None]
  \/ /\ "lost" \in Faults
     /\ UNCHANGED modules

PipeWireRestart ==
  /\ "pwRestart" \in Faults
  /\ Unused # ModuleIds
  /\ modules' = [m \in ModuleIds |-> None]
  /\ UNCHANGED <<pc, local, published, mailbox, starts, casts>>

(* Ids start over after a restart: another client may get one we still hold. *)
ForeignLoad ==
  /\ "pwRestart" \in Faults
  /\ \E m \in Unused : modules' = [modules EXCEPT ![m] = Foreign]
  /\ UNCHANGED <<pc, local, published, mailbox, starts, casts>>

-----------------------------------------------------------------------------
(* The cast tasks, seen from the controller: run_cast_session of            *)
(* cast/client.rs with its frames and heartbeats abstracted (CastSession    *)
(* has them). The stop signal is a watch that the task reads only in its    *)
(* main loop, never while it connects.                                     *)

CastLaunch(s) ==
  /\ task[s] = "connecting"
  /\ task' = [task EXCEPT ![s] = "launched"]
  /\ UNCHANGED <<pc, local, published, mailbox, starts, modules, castDev,
                 stopped>>

(* Bytes are read that may hold the RECEIVER_STATUS; the arm runs to its end *)
(* whatever is signalled meanwhile, with or without a LOAD.                 *)
CastStatus(s) ==
  /\ task[s] = "launched"
  /\ ~stopped[s]
  /\ task' = [task EXCEPT ![s] = "loading"]
  /\ UNCHANGED <<pc, local, published, mailbox, starts, modules, castDev,
                 stopped>>

CastHandled(s) ==
  /\ task[s] = "loading"
  /\ \E p \in {"launched", "playing"} : task' = [task EXCEPT ![s] = p]
  /\ UNCHANGED <<pc, local, published, mailbox, starts, modules, castDev,
                 stopped>>

(* The task returns: on stop, EOF, an error or the inbound deadline. When   *)
(* the controller still holds its JoinHandle it can see that.              *)
CastEnd(s) ==
  /\ task[s] \in Live
  /\ task' = [task EXCEPT ![s] = IF s = session THEN "finished" ELSE "free"]
  /\ UNCHANGED <<pc, local, published, mailbox, starts, modules, castDev,
                 stopped>>

(* Variant: the session is stopped, its handle is not taken.               *)
StopCastKeepsHandle ==
  /\ stopped' = [s \in SessionIds |-> stopped[s] \/ s = session]
  /\ UNCHANGED <<session, task, castDev>>

(* CastSession::stop and the drop of the JoinHandle, as in `teardown`.      *)
StopCast ==
  /\ session' = None
  /\ IF session = None
     THEN UNCHANGED <<task, stopped>>
     ELSE /\ stopped' = [stopped EXCEPT ![session] = TRUE]
          /\ task' = IF task[session] = "finished"
                     THEN [task EXCEPT ![session] = "free"]
                     ELSE task
  /\ UNCHANGED castDev

-----------------------------------------------------------------------------
(* The web layer: try_send on the bounded channel; a full channel is a 503. *)

(* Bound: a Chromecast is selected only while a task id is left for it.     *)
IdLeft ==
  Cardinality({i \in DOMAIN queue : queue[i] \in Casts}
              \cup {0 : h \in {handling} \cap Casts})
    < Cardinality({s \in SessionIds : task[s] = "free"})

HasRoom == Len(queue) < QueueCap
Put(c)  == Append(queue, c)

Submit(c) ==
  /\ Running
  /\ ~closed
  /\ HasRoom
  /\ c \in Casts => IdLeft
  /\ queue' = Put(c)
  /\ requested' = c
  /\ UNCHANGED <<pc, local, published, closed, shutdown, starts, modules,
                 casts>>

SendersGone ==
  /\ pc # "down"
  /\ ~closed
  /\ closed' = TRUE
  /\ UNCHANGED <<pc, local, published, queue, requested, shutdown, starts,
                 modules, casts>>

RequestShutdown ==
  /\ pc # "down"
  /\ ~shutdown
  /\ shutdown' = TRUE
  /\ UNCHANGED <<pc, local, published, queue, requested, closed, starts,
                 modules, casts>>

-----------------------------------------------------------------------------
(* Startup: load module-raop-discover, or recover the id a previous process *)
(* left loaded, then the first probe.                                      *)

RaopLoaded == \E m \in ModuleIds : modules[m] = Raop

(* PipeWire refuses a second module-raop-discover ("Entity exists").        *)
BootLoad(m, a) ==
  /\ pc = "bootLoad"
  /\ a \in LoadAnswers
  /\ a \in {"ok", "garbled", "late"} => ~RaopLoaded
  /\ LoadModule(Raop, m, a)
  /\ raopId' = IF a = "ok" THEN m ELSE None
  /\ pc' = IF a = "refused" THEN "bootList" ELSE "bootProbe"
  /\ UNCHANGED <<handling, active, loopbackId, unloading, session, health,
                 available, published, mailbox, starts, casts>>

(* Variant: a refused load is taken to mean that there is nothing to unload. *)
NoListedRaop == None

ListedRaop ==
  IF RaopLoaded THEN CHOOSE m \in ModuleIds : modules[m] = Raop ELSE None

BootList ==
  /\ pc = "bootList"
  /\ \/ raopId' = ListedRaop
     \/ /\ Faults \cap {"lost", "late"} # {}
        /\ raopId' = None
  /\ pc' = "bootProbe"
  /\ UNCHANGED <<handling, active, loopbackId, unloading, session, health,
                 available, published, mailbox, starts, modules, casts>>

BootProbe ==
  /\ pc = "bootProbe"
  /\ available' \in SUBSET Casts
  /\ published' = [active |-> active, health |-> health]
  /\ pc' = "idle"
  /\ UNCHANGED <<handling, active, loopbackId, unloading, session, health,
                 raopId, mailbox, starts, modules, casts>>

-----------------------------------------------------------------------------
(* The select loop, biased: shutdown, then commands, then the refresh tick. *)

(* Variants: the id is not take()n; it is taken and never unloaded.        *)
TeardownKeepsId ==
  /\ StopCast
  /\ unloading' = loopbackId
  /\ UNCHANGED loopbackId

TeardownDropsId ==
  /\ StopCast
  /\ unloading' = None
  /\ loopbackId' = None

(* `teardown` up to the await of `pactl unload-module`.                     *)
BeginTeardown ==
  /\ StopCast
  /\ unloading' = loopbackId
  /\ loopbackId' = None

TakeCommand ==
  /\ pc = "idle"
  /\ ~shutdown
  /\ queue # <<>>
  /\ handling' = Head(queue)
  /\ queue' = Tail(queue)
  /\ BeginTeardown
  /\ pc' = "unload"
  /\ UNCHANGED <<active, health, available, raopId, published, requested,
                 closed, shutdown, starts, modules>>

(* Variant: the state is published before the handler updates it.          *)
PublishEarly ==
  published' = [active |-> active, health |-> health']

(* state.set_output at the end of a handler, with the values it leaves.     *)
Publish ==
  published' = [active |-> active', health |-> health']

(* OutputCommand::None, once the teardown is through.                       *)
ClearOutput ==
  /\ pc = "unload"
  /\ handling = None
  /\ UnloadModule(unloading)
  /\ unloading' = None
  /\ active' = None
  /\ health' = None
  /\ Publish
  /\ pc' = "idle"
  /\ UNCHANGED <<handling, loopbackId, session, available, raopId, mailbox,
                 starts, casts>>

(* Select a sink: the teardown is through, route_to_sink issues the load.   *)
RouteToSink ==
  /\ pc = "unload"
  /\ handling \in Sinks
  /\ UnloadModule(unloading)
  /\ unloading' = None
  /\ health' = None
  /\ pc' = "load"
  /\ UNCHANGED <<handling, active, loopbackId, session, available, raopId,
                 published, mailbox, starts, casts>>

(* The answer to load-module: only an id it can parse makes the output active. *)
LoadAnswered(m, a) ==
  /\ pc = "load"
  /\ a \in LoadAnswers
  /\ LoadModule(handling, m, a)
  /\ loopbackId' = IF a = "ok" THEN m ELSE None
  /\ active' = IF a = "ok" THEN handling ELSE None
  /\ health' = health
  /\ handling' = None
  /\ Publish
  /\ pc' = "idle"
  /\ UNCHANGED <<unloading, session, available, raopId, mailbox, starts, casts>>

CannotCast == handling \notin available \/ ~LanKnown

(* Select a Chromecast the last probe found, with a LAN address known.      *)
StartCast(s) ==
  /\ pc = "unload"
  /\ handling \in Casts
  /\ handling \in available /\ LanKnown
  /\ task[s] = "free"
  /\ UnloadModule(unloading)
  /\ unloading' = None
  /\ task' = [task EXCEPT ![s] = "connecting"]
  /\ castDev' = [castDev EXCEPT ![s] = handling]
  /\ stopped' = [stopped EXCEPT ![s] = FALSE]
  /\ session' = s
  /\ health' = "connecting"
  /\ active' = handling
  /\ handling' = None
  /\ Publish
  /\ pc' = "idle"
  /\ UNCHANGED <<loopbackId, available, raopId, mailbox, starts>>

(* Select a Chromecast that is unknown, or no LAN address to stream from.   *)
CastUnavailable ==
  /\ pc = "unload"
  /\ handling \in Casts
  /\ CannotCast
  /\ UnloadModule(unloading)
  /\ unloading' = None
  /\ health' = None
  /\ active' = None
  /\ handling' = None
  /\ Publish
  /\ pc' = "idle"
  /\ UNCHANGED <<loopbackId, session, available, raopId, mailbox, starts,
                 casts>>

(* The 10 s refresh tick: probe, then look whether the cast task has ended. *)
RefreshTick ==
  /\ pc = "idle"
  /\ ~shutdown
  /\ queue = <<>>
  /\ ~closed
  /\ pc' = "probe"
  /\ UNCHANGED <<local, published, mailbox, starts, modules, casts>>

(* Variant: the JoinHandle is never polled (the state of the code before NF-8). *)
CastAssumedAlive == FALSE

CastIsDead == session # None /\ task[session] = "finished"

Refreshed ==
  /\ pc = "probe"
  /\ available' \in SUBSET Casts
  /\ IF CastIsDead
     THEN /\ session' = None
          /\ active' = None
          /\ health' = "lost"
          /\ task' = [task EXCEPT ![session] = "free"]
     ELSE UNCHANGED <<session, active, health, task>>
  /\ Publish
  /\ pc' = "idle"
  /\ UNCHANGED <<handling, loopbackId, unloading, raopId, mailbox, starts,
                 modules, castDev, stopped>>

-----------------------------------------------------------------------------
(* The way out of the task: teardown, then module-raop-discover.            *)

(* Variant: the loop has no shutdown arm.                                  *)
ReceiverEmpty == closed /\ queue = <<>>

LoopEnds == shutdown \/ (closed /\ queue = <<>>)

LeaveLoop ==
  /\ pc = "idle"
  /\ LoopEnds
  /\ BeginTeardown
  /\ pc' = "exitUnload"
  /\ UNCHANGED <<handling, active, health, available, raopId, published,
                 mailbox, starts, modules>>

ExitUnloaded ==
  /\ pc = "exitUnload"
  /\ UnloadModule(unloading)
  /\ unloading' = None
  /\ pc' = "exitRaop"
  /\ UNCHANGED <<handling, active, loopbackId, session, health, available,
                 raopId, published, mailbox, starts, casts>>

ExitRaopUnloaded ==
  /\ pc = "exitRaop"
  /\ UnloadModule(raopId)
  /\ raopId' = None
  /\ queue' = <<>>          \* the Receiver is dropped with the task
  /\ pc' = "done"
  /\ UNCHANGED <<handling, active, loopbackId, unloading, session, health,
                 available, published, requested, closed, shutdown, starts,
                 casts>>

-----------------------------------------------------------------------------
(* The process. main returns when run_daemon does, which waits for the      *)
(* shutdown request and for nothing of the output task; a task that ended   *)
(* without a request is fatal; and a crash may come at any time.            *)

(* A pactl child in flight when the process ends may still be executed.     *)
InFlight ==
  \/ UNCHANGED modules
  \/ /\ pc \in {"unload", "exitUnload"}
     /\ UnloadModule(unloading)
  \/ /\ pc = "exitRaop"
     /\ UnloadModule(raopId)
  \/ /\ pc = "load"
     /\ \E m \in Unused : modules' = [modules EXCEPT ![m] = handling]
  \/ /\ pc = "bootLoad"
     /\ ~RaopLoaded
     /\ \E m \in Unused : modules' = [modules EXCEPT ![m] = Raop]

Forget ==
  /\ pc' = "down"
  /\ handling' = None
  /\ active' = None
  /\ loopbackId' = None
  /\ unloading' = None
  /\ session' = None
  /\ health' = None
  /\ available' = {}
  /\ raopId' = None
  /\ published' = [active |-> None, health |-> None]
  /\ queue' = <<>>
  /\ requested' = None
  /\ closed' = FALSE
  /\ shutdown' = FALSE
  /\ task' = [s \in SessionIds |-> "free"]
  /\ castDev' = [s \in SessionIds |-> None]
  /\ stopped' = [s \in SessionIds |-> FALSE]

MainReturns ==
  /\ pc # "down"
  /\ shutdown
  /\ InFlight
  /\ Forget
  /\ UNCHANGED starts

FatalExit ==
  /\ pc = "done"
  /\ ~shutdown
  /\ Forget
  /\ UNCHANGED <<starts, modules>>

Crash ==
  /\ "crash" \in Faults
  /\ pc # "down"
  /\ InFlight
  /\ Forget
  /\ UNCHANGED starts

Start ==
  /\ pc = "down"
  /\ starts < MaxStarts
  /\ pc' = "bootLoad"
  /\ starts' = starts + 1
  /\ UNCHANGED <<local, published, mailbox, modules, casts>>

-----------------------------------------------------------------------------
Init ==
  /\ pc = "down"
  /\ handling = None
  /\ active = None
  /\ loopbackId = None
  /\ unloading = None
  /\ session = None
  /\ health = None
  /\ available = {}
  /\ raopId = None
  /\ published = [active |-> None, health |-> None]
  /\ queue = <<>>
  /\ requested = None
  /\ closed = FALSE
  /\ shutdown = FALSE
  /\ starts = 0
  /\ modules = [m \in ModuleIds |-> None]
  /\ task = [s \in SessionIds |-> "free"]
  /\ castDev = [s \in SessionIds |-> None]
  /\ stopped = [s \in SessionIds |-> FALSE]

(* The steps of the task itself.                                           *)
Controller ==
  \/ \E m \in ModuleIds, a \in LoadAnswers : BootLoad(m, a)
  \/ BootList
  \/ BootProbe
  \/ TakeCommand
  \/ ClearOutput
  \/ RouteToSink
  \/ \E m \in ModuleIds, a \in LoadAnswers : LoadAnswered(m, a)
  \/ \E s \in SessionIds : StartCast(s)
  \/ CastUnavailable
  \/ RefreshTick
  \/ Refreshed
  \/ LeaveLoop
  \/ ExitUnloaded
  \/ ExitRaopUnloaded

Environment ==
  \/ \E c \in Commands : Submit(c)
  \/ SendersGone
  \/ RequestShutdown
  \/ \E s \in SessionIds : CastLaunch(s) \/ CastStatus(s)
                            \/ CastHandled(s) \/ CastEnd(s)
  \/ PipeWireRestart
  \/ ForeignLoad

Process == MainReturns \/ FatalExit \/ Crash \/ Start

Next == Controller \/ Environment \/ Process

Spec == Init /\ [][Next]_vars

(* Every await of the controller ends: a pactl call within its 10 s         *)
(* timeout, the select within the 10 s refresh interval.                    *)
FairSpec == Spec /\ WF_vars(Controller)

-----------------------------------------------------------------------------
(* Between two handlers the task is parked in its select (or in the refresh *)
(* probe, which touches no route).                                         *)
AtRest == pc \in {"idle", "probe"}

(* Between handlers, the output shown to the user is the one the controller *)
(* drives: a sink exactly when it tracks a loopback, a Chromecast exactly   *)
(* when it tracks a cast task, and that task talks to the output shown.     *)
RouteMatchesActive ==
  AtRest =>
    /\ published = [active |-> active, health |-> health]
    /\ active \in Sinks <=> loopbackId # None
    /\ active \in Casts <=> session # None
    /\ health = "connecting" <=> session # None
    /\ session # None => castDev[session] = active

(* A module id the controller will unload stands for what it loaded: the    *)
(* loopback of the active sink, or module-raop-discover (teardown_loopback  *)
(* and the shutdown teardown unload by id alone).                          *)
TrackedIdsAreOurs ==
  /\ loopbackId # None => modules[loopbackId] = active
  /\ unloading # None => modules[unloading] \in Sinks
  /\ raopId # None => modules[raopId] = Raop

(* Routes that carry audio (or soon will) and that no variable of the       *)
(* controller can stop any more.                                           *)
StrayLoopbacks ==
  {m \in ModuleIds : modules[m] \in Sinks} \ {loopbackId, unloading}
StrayCasts ==
  {s \in SessionIds : task[s] \in Live /\ ~stopped[s]} \ {session}

(* While the process lives and pactl answers, no step makes a route stray:  *)
(* each handler hands every route it gives up to an unload or a stop.       *)
NoNewStray ==
  [][pc # "down" /\ pc' # "down" =>
       /\ StrayLoopbacks' \subseteq StrayLoopbacks
       /\ StrayCasts' \subseteq StrayCasts]_vars

(* A task that ran to its end leaves no module-raop-discover behind, be it  *)
(* loaded by this process or left by one that crashed before.              *)
RaopReclaimed == pc = "done" => ~RaopLoaded

(* Once the queue is drained, the active output is never that of an older   *)
(* command than the last one POST /api/output accepted.                    *)
LastRequestWins == pc = "idle" /\ queue = <<>> => active \in {None, requested}

(* NF-8: a cast task that died is dropped from the route, at the latest by  *)
(* the refresh tick.                                                       *)
DeadCastCleared ==
  \A s \in SessionIds :
    (session = s /\ task[s] = "finished") ~> ~(session = s /\ task[s] = "finished")

(* A shutdown request ends the task, or the process ended before it.        *)
ShutdownCompletes == shutdown ~> pc \in {"done", "down"}

(* The controller implements the route its users see (OutputRoute): the     *)
(* request being served is the first of those not yet served.              *)
Route == INSTANCE OutputRoute
           WITH shown <- published.active,
                todo  <- IF pc \in {"unload", "load"}
                         THEN <<handling>> \o queue
                         ELSE queue,
                up    <- Running

ServesInOrder == Route!Spec

(* A cast task lives as CastLife says, which is what the session itself      *)
(* implements (CastSession): of a task that ended, the controller knows that  *)
(* at most, and a free id has no life.                                      *)
PhaseOf(s) == IF task[s] \in Live THEN task[s] ELSE "ended"

CastTask(s) == INSTANCE CastLife WITH phase <- PhaseOf(s), stopped <- stopped[s]

(* Whatever the controller and the process do, a cast task takes only the     *)
(* steps of its life, until its id begins another one: no handler moves a     *)
(* session on, takes back a stop, or reuses an id whose task still runs.       *)
CastTasksLive ==
  [][\A s \in SessionIds :
       \/ [CastTask(s)!Next]_<<PhaseOf(s), stopped[s]>>
       \/ PhaseOf(s) = "ended" /\ CastTask(s)!Init'
       \/ pc' = "down"]_vars
=============================================================================
