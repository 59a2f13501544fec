--------------------------- MODULE OutputProofs ----------------------------
(***************************************************************************)
(* Proofs about OutputController, for any sets of sinks, Chromecasts,       *)
(* module ids and cast tasks, any queue capacity and any set of faults; and   *)
(* about Discovery, for whatever avahi-browse and PipeWire print, in lists of *)
(* any length.                                                              *)
(***************************************************************************)
EXTENDS OutputController, Discovery, FiniteSetTheorems, WellFoundedInduction, TLAPS

-----------------------------------------------------------------------------
(* Type correctness.                                                       *)

(* The queue of a process that is not running.                             *)
LEMMA EmptyQueue == <<>> \in Seq(Commands) /\ Len(<<>>) <= QueueCap
  BY BoundsAssumption

LEMMA NullTypes ==
  /\ None \in Commands /\ None \in Outputs \cup {None} /\ None \in Healths
  /\ [active |-> None, health |-> None]
       \in [active : Outputs \cup {None}, health : Healths]
  BY DEF Commands, Healths

LEMMA InitType == Init => TypeOK
  <1> SUFFICES ASSUME Init PROVE TypeOK
    OBVIOUS
  <1>1. queue \in Seq(Commands) /\ Len(queue) <= QueueCap
    BY EmptyQueue DEF Init
  <1>2. /\ task \in [SessionIds -> Phases]
        /\ castDev \in [SessionIds -> Casts \cup {None}]
        /\ stopped \in [SessionIds -> BOOLEAN]
        /\ modules \in [ModuleIds -> Sinks \cup {Raop, Foreign, None}]
    BY DEF Init, Phases
  <1>3. /\ published \in [active : Outputs \cup {None}, health : Healths]
        /\ handling \in Commands /\ requested \in Commands
    BY NullTypes DEF Init
  <1> QED
    BY <1>1, <1>2, <1>3 DEF Init, TypeOK, Places, Healths

LEMMA StopCastType ==
  ASSUME TypeOK, StopCast
  PROVE  /\ session' = None
         /\ task' \in [SessionIds -> Phases]
         /\ castDev' = castDev
         /\ stopped' \in [SessionIds -> BOOLEAN]
  BY DEF TypeOK, StopCast, Phases

LEMMA UnloadType ==
  ASSUME TypeOK, NEW id \in ModuleIds \cup {None}, UnloadModule(id)
  PROVE  modules' \in [ModuleIds -> Sinks \cup {Raop, Foreign, None}]
  BY DEF TypeOK, UnloadModule

LEMMA ForgetType ==
  ASSUME TypeOK, Forget, UNCHANGED starts,
         modules' \in [ModuleIds -> Sinks \cup {Raop, Foreign, None}]
  PROVE  TypeOK'
  <1>1. (queue \in Seq(Commands) /\ Len(queue) <= QueueCap)'
    BY EmptyQueue DEF Forget
  <1>2. /\ (task \in [SessionIds -> Phases])'
        /\ (castDev \in [SessionIds -> Casts \cup {None}])'
        /\ (stopped \in [SessionIds -> BOOLEAN])'
    BY DEF Forget, Phases
  <1>3. /\ (published \in [active : Outputs \cup {None}, health : Healths])'
        /\ (handling \in Commands /\ requested \in Commands)'
    BY NullTypes DEF Forget
  <1> QED
    BY <1>1, <1>2, <1>3 DEF Forget, TypeOK, Places, Healths

LEMMA InFlightType ==
  ASSUME TypeOK, InFlight, handling \in Sinks \/ pc # "load"
  PROVE  modules' \in [ModuleIds -> Sinks \cup {Raop, Foreign, None}]
  BY UnloadType DEF TypeOK, InFlight, Unused

(* Every step keeps the types. The pactl await `load` is only entered with a *)
(* sink at hand, which is what makes a LOAD in flight at exit well typed.   *)
LoadHasSink == pc = "load" => handling \in Sinks

LEMMA TypeStep == TypeOK /\ LoadHasSink /\ [Next]_vars => TypeOK'
  <1> SUFFICES ASSUME TypeOK, LoadHasSink, [Next]_vars PROVE TypeOK'
    OBVIOUS
  <1> USE DEF TypeOK, local, mailbox, casts, Places
  <1>1. ASSUME NEW m \in ModuleIds, NEW a \in LoadAnswers, BootLoad(m, a)
        PROVE  TypeOK'
    BY <1>1 DEF BootLoad, LoadModule, Unused
  <1>2. CASE BootList
    BY <1>2 DEF BootList, ListedRaop, RaopLoaded
  <1>3. CASE BootProbe
    BY <1>3 DEF BootProbe
  <1>4. CASE TakeCommand
    <2>1. StopCast
      BY <1>4 DEF TakeCommand, BeginTeardown
    <2>2. /\ handling' \in Commands
          /\ queue' \in Seq(Commands)
          /\ Len(queue') <= QueueCap
      BY <1>4, BoundsAssumption DEF TakeCommand
    <2> QED
      BY <1>4, <2>1, <2>2, StopCastType DEF TakeCommand, BeginTeardown
  <1>5. CASE ClearOutput
    BY <1>5, UnloadType, NullTypes DEF ClearOutput, Publish
  <1>6. CASE RouteToSink
    BY <1>6, UnloadType, NullTypes DEF RouteToSink
  <1>7. ASSUME NEW m \in ModuleIds, NEW a \in LoadAnswers, LoadAnswered(m, a)
        PROVE  TypeOK'
    BY <1>7, NullTypes
    DEF LoadAnswered, LoadModule, Unused, Publish, LoadHasSink, Outputs
  <1>8. ASSUME NEW s \in SessionIds, StartCast(s)
        PROVE  TypeOK'
    BY <1>8, UnloadType, NullTypes
    DEF StartCast, Publish, Outputs, Healths, Phases, Live
  <1>9. CASE CastUnavailable
    BY <1>9, UnloadType, NullTypes DEF CastUnavailable, Publish
  <1>10. CASE RefreshTick
    BY <1>10 DEF RefreshTick
  <1>11. CASE Refreshed
    BY <1>11, NullTypes DEF Refreshed, Publish, Healths, Phases
  <1>12. CASE LeaveLoop
    <2>1. StopCast
      BY <1>12 DEF LeaveLoop, BeginTeardown
    <2> QED
      BY <1>12, <2>1, StopCastType DEF LeaveLoop, BeginTeardown
  <1>13. CASE ExitUnloaded
    BY <1>13, UnloadType DEF ExitUnloaded
  <1>14. CASE ExitRaopUnloaded
    BY <1>14, UnloadType, EmptyQueue DEF ExitRaopUnloaded
  <1>15. ASSUME NEW c \in Commands, Submit(c)
         PROVE  TypeOK'
    <2>1. queue' \in Seq(Commands) /\ Len(queue') <= QueueCap
      BY <1>15, BoundsAssumption DEF Submit, HasRoom, Put
    <2> QED
      BY <1>15, <2>1 DEF Submit
  <1>16. CASE SendersGone \/ RequestShutdown
    BY <1>16 DEF SendersGone, RequestShutdown
  <1>17. ASSUME NEW s \in SessionIds,
                CastLaunch(s) \/ CastStatus(s) \/ CastHandled(s) \/ CastEnd(s)
         PROVE  TypeOK'
    BY <1>17 DEF CastLaunch, CastStatus, CastHandled, CastEnd, Phases, Live
  <1>18. CASE PipeWireRestart \/ ForeignLoad
    BY <1>18 DEF PipeWireRestart, ForeignLoad, Unused
  <1>19. CASE MainReturns \/ Crash
    <2>1. Forget /\ UNCHANGED starts /\ InFlight
      BY <1>19 DEF MainReturns, Crash
    <2> QED
      BY <2>1, InFlightType, ForgetType DEF LoadHasSink
  <1>20. CASE FatalExit
    BY <1>20, ForgetType DEF FatalExit
  <1>21. CASE Start
    BY <1>21, BoundsAssumption DEF Start
  <1>22. CASE UNCHANGED vars
    BY <1>22 DEF vars
  <1> QED
    BY <1>1, <1>2, <1>3, <1>4, <1>5, <1>6, <1>7, <1>8, <1>9, <1>10, <1>11,
       <1>12, <1>13, <1>14, <1>15, <1>16, <1>17, <1>18, <1>19, <1>20, <1>21,
       <1>22
    DEF Next, Controller, Environment, Process

-----------------------------------------------------------------------------
(* The inductive invariant behind RouteMatchesActive. It says what each      *)
(* await holds on to: nothing is routed while a teardown or a load is in     *)
(* flight, nor before the first probe; an id is being unloaded only in the  *)
(* two teardown awaits.                                                     *)

BootPlaces == {"down", "bootLoad", "bootList", "bootProbe"}
TornDown   == {"unload", "load", "exitUnload", "exitRaop", "done"}

RouteInv ==
  /\ LoadHasSink
  /\ pc \in BootPlaces => active = None /\ health = None
  /\ pc = "down" => published.active = None /\ queue = <<>>
  /\ pc = "load" => health = None
  /\ pc \in BootPlaces \cup TornDown => loopbackId = None /\ session = None
  /\ pc \notin {"unload", "exitUnload"} => unloading = None
  /\ RouteMatchesActive

LEMMA InitRoute == Init => RouteInv
  BY OutputsAssumption
  DEF Init, RouteInv, LoadHasSink, BootPlaces, TornDown, RouteMatchesActive,
      AtRest

(* The steps that leave the whole route alone: those of the web layer, of    *)
(* PipeWire and of the cast tasks.                                         *)
LEMMA RouteEnvironment ==
  ASSUME RouteInv, Environment \/ UNCHANGED vars
  PROVE  /\ UNCHANGED <<pc, handling, active, loopbackId, unloading, session,
                        health, published, castDev>>
         /\ pc = "down" => queue' = queue
  <1> USE DEF local, mailbox, casts
  <1>1. ASSUME NEW c \in Commands, Submit(c)
        PROVE  /\ UNCHANGED <<pc, local, published, casts>>
               /\ pc # "down"
    BY <1>1 DEF Submit, Running
  <1>2. CASE Environment /\ ~(\E c \in Commands : Submit(c))
    BY <1>2
    DEF Environment, SendersGone, RequestShutdown, CastLaunch, CastStatus,
        CastHandled, CastEnd, PipeWireRestart, ForeignLoad
  <1>3. CASE UNCHANGED vars
    BY <1>3 DEF vars
  <1> QED
    BY <1>1, <1>2, <1>3

LEMMA RouteStep == TypeOK /\ RouteInv /\ [Next]_vars => RouteInv'
  <1> SUFFICES ASSUME TypeOK, RouteInv, [Next]_vars PROVE RouteInv'
    OBVIOUS
  <1> USE OutputsAssumption
      DEF RouteInv, LoadHasSink, BootPlaces, TornDown, RouteMatchesActive,
          AtRest, Outputs, local, mailbox, casts
  <1>1. ASSUME NEW m \in ModuleIds, NEW a \in LoadAnswers, BootLoad(m, a)
        PROVE  RouteInv'
    BY <1>1 DEF BootLoad
  <1>2. CASE BootList
    BY <1>2 DEF BootList
  <1>3. CASE BootProbe
    BY <1>3 DEF BootProbe
  <1>4. CASE TakeCommand
    BY <1>4 DEF TakeCommand, BeginTeardown, StopCast
  <1>5. CASE ClearOutput
    BY <1>5 DEF ClearOutput, Publish
  <1>6. CASE RouteToSink
    BY <1>6 DEF RouteToSink
  <1>7. ASSUME NEW m \in ModuleIds, NEW a \in LoadAnswers, LoadAnswered(m, a)
        PROVE  RouteInv'
    BY <1>7 DEF LoadAnswered, Publish, Outputs
  <1>8. ASSUME NEW s \in SessionIds, StartCast(s)
        PROVE  RouteInv'
    <2>1. handling \in Casts /\ s # None /\ castDev'[s] = handling
      BY <1>8 DEF StartCast, TypeOK, Outputs
    <2> QED
      BY <1>8, <2>1 DEF StartCast, Publish, Outputs
  <1>9. CASE CastUnavailable
    BY <1>9 DEF CastUnavailable, Publish, Outputs
  <1>10. CASE RefreshTick
    BY <1>10 DEF RefreshTick
  <1>11. CASE Refreshed
    BY <1>11 DEF Refreshed, CastIsDead, Publish, Outputs
  <1>12. CASE LeaveLoop
    BY <1>12 DEF LeaveLoop, BeginTeardown, StopCast
  <1>13. CASE ExitUnloaded
    BY <1>13 DEF ExitUnloaded
  <1>14. CASE ExitRaopUnloaded
    BY <1>14 DEF ExitRaopUnloaded
  <1>15. CASE Process
    BY <1>15 DEF Process, MainReturns, FatalExit, Crash, Start, Forget
  <1>16. CASE Environment \/ UNCHANGED vars
    BY <1>16, RouteEnvironment
  <1> QED
    BY <1>1, <1>2, <1>3, <1>4, <1>5, <1>6, <1>7, <1>8, <1>9, <1>10, <1>11,
       <1>12, <1>13, <1>14, <1>15, <1>16
    DEF Next, Controller

LEMMA RouteInvariant == Spec => [](TypeOK /\ RouteInv)
  <1>1. Init => TypeOK /\ RouteInv
    BY InitType, InitRoute
  <1>2. TypeOK /\ RouteInv /\ [Next]_vars => (TypeOK /\ RouteInv)'
    BY TypeStep, RouteStep DEF RouteInv
  <1> QED
    BY <1>1, <1>2, PTL DEF Spec

(* Every variable keeps its type, in every run of the task under any faults. *)
THEOREM TypeCorrect == Spec => []TypeOK
  BY RouteInvariant, PTL

(* The output shown is the output driven, whatever pactl, PipeWire and the   *)
(* cast tasks do (set_output after each handler of the select loop).        *)
THEOREM RouteCorrect == Spec => []RouteMatchesActive
  <1>1. RouteInv => RouteMatchesActive
    BY DEF RouteInv
  <1> QED
    BY <1>1, RouteInvariant, PTL

-----------------------------------------------------------------------------
(* The last request wins.                                                  *)

(* While the queue is not empty its last command is the last one accepted;  *)
(* once it is empty that command is being handled or has been.              *)
OrderInv ==
  /\ queue # <<>> => queue[Len(queue)] = requested
  /\ queue = <<>> /\ pc \in {"unload", "load"} => handling = requested
  /\ queue = <<>> /\ AtRest => active \in {None, requested}

(* What appending to the queue and taking from it do to its last command.   *)
LEMMA PutLast ==
  ASSUME NEW q \in Seq(Commands), NEW c \in Commands
  PROVE  LET r == Append(q, c) IN r # <<>> /\ r[Len(r)] = c
  OBVIOUS

LEMMA TakeLast ==
  ASSUME NEW q \in Seq(Commands), q # <<>>
  PROVE  /\ Tail(q) # <<>> => Tail(q)[Len(Tail(q))] = q[Len(q)]
         /\ Tail(q) = <<>> => Head(q) = q[Len(q)]
  <1>1. /\ Len(q) \in Nat \ {0}
        /\ Tail(q) \in Seq(Commands)
        /\ Len(Tail(q)) = Len(q) - 1
        /\ \A i \in 1 .. Len(Tail(q)) : Tail(q)[i] = q[i + 1]
        /\ Head(q) = q[1]
    OBVIOUS
  <1>2. Tail(q) = <<>> <=> Len(Tail(q)) = 0
    BY <1>1
  <1> QED
    BY <1>1, <1>2

LEMMA OrderStep ==
  TypeOK /\ RouteInv /\ OrderInv /\ [Next]_vars => OrderInv'
  <1> SUFFICES ASSUME TypeOK, RouteInv, OrderInv, [Next]_vars PROVE OrderInv'
    OBVIOUS
  <1> USE DEF OrderInv, AtRest, local, mailbox, casts
  <1>1. CASE TakeCommand
    <2>1. queue \in Seq(Commands)
      BY DEF TypeOK
    <2> QED
      BY <1>1, <2>1, TakeLast DEF TakeCommand
  <1>2. CASE ClearOutput \/ RouteToSink \/ CastUnavailable
    BY <1>2 DEF ClearOutput, RouteToSink, CastUnavailable
  <1>3. ASSUME NEW m \in ModuleIds, NEW a \in LoadAnswers,
               BootLoad(m, a) \/ LoadAnswered(m, a)
        PROVE  OrderInv'
    BY <1>3 DEF BootLoad, LoadAnswered
  <1>4. ASSUME NEW s \in SessionIds, StartCast(s)
        PROVE  OrderInv'
    BY <1>4 DEF StartCast
  <1>5. CASE BootList \/ BootProbe
    BY <1>5 DEF BootList, BootProbe, RouteInv, BootPlaces
  <1>6. CASE RefreshTick \/ Refreshed
    BY <1>6 DEF RefreshTick, Refreshed
  <1>7. CASE LeaveLoop \/ ExitUnloaded \/ ExitRaopUnloaded
    BY <1>7 DEF LeaveLoop, ExitUnloaded, ExitRaopUnloaded
  <1>8. CASE Process
    BY <1>8 DEF Process, MainReturns, FatalExit, Crash, Start, Forget
  <1>9. ASSUME NEW c \in Commands, Submit(c)
        PROVE  OrderInv'
    <2>1. queue \in Seq(Commands)
      BY DEF TypeOK
    <2>2. queue' # <<>> /\ queue'[Len(queue')] = c /\ requested' = c
      BY <1>9, <2>1, PutLast DEF Submit, Put
    <2> QED
      BY <2>2
  <1>10. CASE SendersGone \/ RequestShutdown \/ PipeWireRestart \/ ForeignLoad
    BY <1>10 DEF SendersGone, RequestShutdown, PipeWireRestart, ForeignLoad
  <1>11. ASSUME NEW s \in SessionIds,
                CastLaunch(s) \/ CastStatus(s) \/ CastHandled(s) \/ CastEnd(s)
         PROVE  OrderInv'
    BY <1>11 DEF CastLaunch, CastStatus, CastHandled, CastEnd
  <1>12. CASE UNCHANGED vars
    BY <1>12 DEF vars
  <1> QED
    BY <1>1, <1>2, <1>3, <1>4, <1>5, <1>6, <1>7, <1>8, <1>9, <1>10, <1>11,
       <1>12
    DEF Next, Controller, Environment

(* A drained queue leaves the last accepted request active, or nothing.     *)
THEOREM OrderCorrect == Spec => []LastRequestWins
  <1>1. Init => OrderInv
    BY DEF Init, OrderInv, AtRest
  <1>2. OrderInv => LastRequestWins
    BY DEF OrderInv, LastRequestWins, AtRest
  <1> QED
    BY <1>1, <1>2, OrderStep, RouteInvariant, PTL DEF Spec

-----------------------------------------------------------------------------
(* Module ids, while PipeWire does not restart.                            *)

(* The unload and the load of one module, seen from another one.           *)
LEMMA UnloadFrame ==
  ASSUME TypeOK, NEW id \in ModuleIds \cup {None}, UnloadModule(id),
         NEW m \in ModuleIds, m # id
  PROVE  modules'[m] = modules[m]
  BY DEF TypeOK, UnloadModule

LEMMA LoadFrame ==
  ASSUME TypeOK, NEW what, NEW n \in ModuleIds, NEW a, LoadModule(what, n, a),
         NEW m \in ModuleIds, modules[m] # None
  PROVE  modules'[m] = modules[m]
  BY DEF TypeOK, LoadModule, Unused

LEMMA LoadedId ==
  ASSUME TypeOK, NEW what, NEW n \in ModuleIds, LoadModule(what, n, "ok")
  PROVE  modules'[n] = what
  BY DEF TypeOK, LoadModule

LEMMA IdsStep ==
  ASSUME "pwRestart" \notin Faults
  PROVE  TypeOK /\ RouteInv /\ TrackedIdsAreOurs /\ [Next]_vars
           => TrackedIdsAreOurs'
  <1> SUFFICES ASSUME TypeOK, RouteInv, TrackedIdsAreOurs, [Next]_vars
               PROVE  TrackedIdsAreOurs'
    OBVIOUS
  <1> USE OutputsAssumption
      DEF TrackedIdsAreOurs, TypeOK, Outputs, local, mailbox, casts
  <1>1. ASSUME NEW m \in ModuleIds, NEW a \in LoadAnswers, BootLoad(m, a)
        PROVE  TrackedIdsAreOurs'
    BY <1>1, LoadedId DEF BootLoad, RouteInv, BootPlaces
  <1>2. CASE BootList
    BY <1>2 DEF BootList, ListedRaop, RaopLoaded
  <1>3. CASE BootProbe
    BY <1>3 DEF BootProbe
  <1>4. CASE TakeCommand \/ LeaveLoop
    BY <1>4
    DEF TakeCommand, LeaveLoop, BeginTeardown, StopCast, RouteInv,
        RouteMatchesActive, AtRest
  <1>5. CASE ClearOutput \/ RouteToSink \/ CastUnavailable \/ ExitUnloaded
    <2>1. UnloadModule(unloading) /\ unloading' = None /\ raopId' = raopId
      BY <1>5 DEF ClearOutput, RouteToSink, CastUnavailable, ExitUnloaded
    <2>2. loopbackId' = None
      BY <1>5
      DEF ClearOutput, RouteToSink, CastUnavailable, ExitUnloaded, RouteInv,
          BootPlaces, TornDown
    <2>3. raopId # None => raopId # unloading
      OBVIOUS
    <2> QED
      BY <2>1, <2>2, <2>3, UnloadFrame
  <1>6. ASSUME NEW m \in ModuleIds, NEW a \in LoadAnswers, LoadAnswered(m, a)
        PROVE  TrackedIdsAreOurs'
    <2>1. LoadModule(handling, m, a) /\ raopId' = raopId
          /\ unloading' = unloading /\ unloading = None
      BY <1>6 DEF LoadAnswered, RouteInv
    <2>2. raopId # None => modules'[raopId] = Raop
      BY <2>1, LoadFrame
    <2>3. CASE a = "ok"
      BY <1>6, <2>1, <2>2, <2>3, LoadedId DEF LoadAnswered
    <2>4. CASE a # "ok"
      BY <1>6, <2>1, <2>2, <2>4 DEF LoadAnswered
    <2> QED
      BY <2>3, <2>4
  <1>7. ASSUME NEW s \in SessionIds, StartCast(s)
        PROVE  TrackedIdsAreOurs'
    <2>1. /\ UnloadModule(unloading) /\ unloading' = None /\ raopId' = raopId
          /\ loopbackId' = None
      BY <1>7 DEF StartCast, RouteInv, BootPlaces, TornDown
    <2> QED
      BY <2>1, UnloadFrame
  <1>8. CASE RefreshTick \/ Refreshed
    BY <1>8
    DEF RefreshTick, Refreshed, CastIsDead, RouteInv, RouteMatchesActive,
        AtRest
  <1>9. CASE ExitRaopUnloaded
    BY <1>9 DEF ExitRaopUnloaded, RouteInv, BootPlaces, TornDown
  <1>10. CASE MainReturns \/ FatalExit \/ Crash
    BY <1>10 DEF MainReturns, FatalExit, Crash, Forget
  <1>11. CASE Start
    BY <1>11 DEF Start
  <1>12. ASSUME NEW c \in Commands, Submit(c)
         PROVE  TrackedIdsAreOurs'
    BY <1>12 DEF Submit
  <1>13. CASE SendersGone \/ RequestShutdown
    BY <1>13 DEF SendersGone, RequestShutdown
  <1>14. ASSUME NEW s \in SessionIds,
                CastLaunch(s) \/ CastStatus(s) \/ CastHandled(s) \/ CastEnd(s)
         PROVE  TrackedIdsAreOurs'
    BY <1>14 DEF CastLaunch, CastStatus, CastHandled, CastEnd
  <1>15. CASE PipeWireRestart \/ ForeignLoad
    BY <1>15 DEF PipeWireRestart, ForeignLoad
  <1>16. CASE UNCHANGED vars
    BY <1>16 DEF vars
  <1> QED
    BY <1>1, <1>2, <1>3, <1>4, <1>5, <1>6, <1>7, <1>8, <1>9, <1>10, <1>11,
       <1>12, <1>13, <1>14, <1>15, <1>16
    DEF Next, Controller, Environment, Process

(* As long as PipeWire does not restart, an unload only ever hits a module  *)
(* the controller loaded for it, even if pactl times out or garbles ids.    *)
THEOREM TrackedIdsCorrect ==
  ASSUME "pwRestart" \notin Faults
  PROVE  Spec => []TrackedIdsAreOurs
  <1>1. Init => TrackedIdsAreOurs
    BY DEF Init, TrackedIdsAreOurs
  <1> QED
    BY <1>1, IdsStep, RouteInvariant, PTL DEF Spec

-----------------------------------------------------------------------------
(* module-raop-discover, while every pactl call is answered.                *)

PactlAnswers == Faults \cap {"garbled", "lost", "late"} = {}

(* module-raop-discover is loaded once at most, and past the boot under the *)
(* id the controller holds.                                                *)
RaopInv ==
  /\ \A m, n \in ModuleIds : modules[m] = Raop /\ modules[n] = Raop => m = n
  /\ pc \notin {"down", "bootLoad", "bootList", "done"} =>
       \A m \in ModuleIds : modules[m] = Raop => raopId = m
  /\ RaopReclaimed

(* Nothing but the boot brings a Raop module into PipeWire.                *)
OldRaops == \A m \in ModuleIds : modules'[m] = Raop => modules[m] = Raop

LEMMA UnloadOldRaops ==
  ASSUME TypeOK, NEW id \in ModuleIds \cup {None}, UnloadModule(id)
  PROVE  OldRaops
  BY OutputsAssumption DEF TypeOK, UnloadModule, OldRaops

LEMMA UnloadsAll ==
  ASSUME TypeOK, PactlAnswers, NEW id \in ModuleIds, UnloadModule(id)
  PROVE  modules' = [modules EXCEPT ![id] = None]
  BY OutputsAssumption DEF UnloadModule, PactlAnswers

(* A step that adds no Raop module, keeps raopId, and ends neither boot nor  *)
(* task keeps RaopInv.                                                     *)
LEMMA RaopFrame ==
  ASSUME TypeOK, RaopInv, OldRaops, raopId' = raopId, pc' # "done",
         pc' \in {"down", "bootLoad"}
           \/ pc \notin {"down", "bootLoad", "bootList", "done"}
  PROVE  RaopInv'
  BY DEF RaopInv, RaopReclaimed, OldRaops

LEMMA RaopStep ==
  ASSUME PactlAnswers
  PROVE  TypeOK /\ RouteInv /\ RaopInv /\ [Next]_vars => RaopInv'
  <1> SUFFICES ASSUME TypeOK, RouteInv, RaopInv, [Next]_vars PROVE RaopInv'
    OBVIOUS
  <1> USE OutputsAssumption DEF local, mailbox, casts
  <1> DEFINE NoRaop == \A m \in ModuleIds : modules[m] # Raop
  <1>1. ASSUME NEW m \in ModuleIds, NEW a \in LoadAnswers, BootLoad(m, a)
        PROVE  RaopInv'
    <2>1. a \in {"ok", "refused"}
      BY DEF LoadAnswers, PactlAnswers
    <2>2. CASE a = "ok"
      <3>1. NoRaop /\ modules' = [modules EXCEPT ![m] = Raop]
            /\ raopId' = m /\ pc' = "bootProbe"
        BY <1>1, <2>2 DEF BootLoad, LoadModule, RaopLoaded
      <3> QED
        BY <3>1 DEF RaopInv, RaopReclaimed, TypeOK
    <2>3. CASE a = "refused"
      BY <1>1, <2>3 DEF BootLoad, LoadModule, RaopInv, RaopReclaimed
    <2> QED
      BY <2>1, <2>2, <2>3
  <1>2. CASE BootList
    <2>1. raopId' = ListedRaop /\ modules' = modules /\ pc' = "bootProbe"
      BY <1>2 DEF BootList, PactlAnswers
    <2>2. ASSUME NEW m \in ModuleIds, modules[m] = Raop
          PROVE  ListedRaop = m
      BY <2>2 DEF ListedRaop, RaopLoaded, RaopInv
    <2> QED
      BY <2>1, <2>2 DEF RaopInv, RaopReclaimed
  <1>3. CASE BootProbe \/ TakeCommand \/ RefreshTick \/ Refreshed \/ LeaveLoop
    BY <1>3, RaopFrame
    DEF BootProbe, TakeCommand, RefreshTick, Refreshed, LeaveLoop, OldRaops
  <1>4. CASE ClearOutput \/ RouteToSink \/ CastUnavailable \/ ExitUnloaded
    <2>1. /\ UnloadModule(unloading) /\ raopId' = raopId /\ pc' # "done"
          /\ pc \in {"unload", "exitUnload"}
      BY <1>4 DEF ClearOutput, RouteToSink, CastUnavailable, ExitUnloaded
    <2>2. OldRaops
      BY <2>1, UnloadOldRaops DEF TypeOK
    <2> QED
      BY <2>1, <2>2, RaopFrame
  <1>5. ASSUME NEW s \in SessionIds, StartCast(s)
        PROVE  RaopInv'
    <2>1. /\ UnloadModule(unloading) /\ raopId' = raopId /\ pc' # "done"
          /\ pc = "unload"
      BY <1>5 DEF StartCast
    <2>2. OldRaops
      BY <2>1, UnloadOldRaops DEF TypeOK
    <2> QED
      BY <2>1, <2>2, RaopFrame
  <1>6. ASSUME NEW m \in ModuleIds, NEW a \in LoadAnswers, LoadAnswered(m, a)
        PROVE  RaopInv'
    <2>1. /\ LoadModule(handling, m, a) /\ handling \in Sinks
          /\ pc = "load" /\ pc' = "idle" /\ raopId' = raopId
      BY <1>6 DEF LoadAnswered, RouteInv, LoadHasSink
    <2>2. OldRaops
      BY <2>1 DEF OldRaops, LoadModule, TypeOK, Outputs
    <2> QED
      BY <2>1, <2>2, RaopFrame
  <1>7. CASE ExitRaopUnloaded
    <2>1. pc = "exitRaop" /\ pc' = "done" /\ UnloadModule(raopId)
      BY <1>7 DEF ExitRaopUnloaded
    <2>2. \A m \in ModuleIds : modules[m] = Raop => raopId = m
      BY <2>1 DEF RaopInv
    <2>3. OldRaops
      BY <2>1, UnloadOldRaops DEF TypeOK
    <2>4. ASSUME NEW m \in ModuleIds PROVE modules'[m] # Raop
      BY <2>1, <2>2, <2>3, UnloadsAll DEF OldRaops, TypeOK
    <2> QED
      BY <2>1, <2>4 DEF RaopInv, RaopReclaimed, RaopLoaded
  <1>8. CASE MainReturns \/ Crash
    <2>1. pc' = "down" /\ InFlight
      BY <1>8 DEF MainReturns, Crash, Forget
    <2>2. OldRaops \/ \E n \in Unused :
                        NoRaop /\ modules' = [modules EXCEPT ![n] = Raop]
      BY <2>1, UnloadOldRaops
      DEF InFlight, TypeOK, OldRaops, RaopLoaded, RouteInv, LoadHasSink,
          Outputs, Unused
    <2> QED
      BY <2>1, <2>2 DEF RaopInv, RaopReclaimed, OldRaops, TypeOK, Unused
  <1>9. CASE FatalExit \/ Start
    BY <1>9 DEF FatalExit, Start, Forget, RaopInv, RaopReclaimed
  <1>10. CASE Environment \/ UNCHANGED vars
    <2>1. UNCHANGED <<pc, raopId>> /\ OldRaops
      BY <1>10
      DEF Environment, vars, Submit, SendersGone, RequestShutdown, CastLaunch,
          CastStatus, CastHandled, CastEnd, PipeWireRestart, ForeignLoad,
          OldRaops, Unused, TypeOK
    <2> QED
      BY <2>1 DEF RaopInv, RaopReclaimed, RaopLoaded, OldRaops
  <1> QED
    BY <1>1, <1>2, <1>3, <1>4, <1>5, <1>6, <1>7, <1>8, <1>9, <1>10
    DEF Next, Controller, Process

(* A task that ran to its end left no module-raop-discover behind, whatever  *)
(* crashed before and even if PipeWire restarted meanwhile.                *)
THEOREM RaopCorrect ==
  ASSUME PactlAnswers
  PROVE  Spec => []RaopReclaimed
  <1>1. Init => RaopInv
    BY OutputsAssumption DEF Init, RaopInv, RaopReclaimed
  <1>2. RaopInv => RaopReclaimed
    BY DEF RaopInv
  <1> QED
    BY <1>1, <1>2, RaopStep, RouteInvariant, PTL DEF Spec

-----------------------------------------------------------------------------
(* No route goes astray, while every pactl call is answered.                *)

NoNewStrayStep ==
  pc # "down" /\ pc' # "down" =>
    /\ StrayLoopbacks' \subseteq StrayLoopbacks
    /\ StrayCasts' \subseteq StrayCasts

(* The modules of a sink that appear or lose their tracker in a step.       *)
LEMMA UnloadNoStray ==
  ASSUME TypeOK, PactlAnswers, UnloadModule(unloading),
         loopbackId = None, loopbackId' = None, unloading' = None
  PROVE  StrayLoopbacks' \subseteq StrayLoopbacks
  BY OutputsAssumption
  DEF StrayLoopbacks, UnloadModule, PactlAnswers, TypeOK, Outputs

LEMMA KeepNoStray ==
  ASSUME UNCHANGED <<task, stopped, session>>
  PROVE  StrayCasts' \subseteq StrayCasts
  BY DEF StrayCasts

LEMMA StrayStep ==
  ASSUME PactlAnswers
  PROVE  TypeOK /\ RouteInv /\ [Next]_vars => [NoNewStrayStep]_vars
  <1> SUFFICES ASSUME TypeOK, RouteInv, Next PROVE NoNewStrayStep
    BY DEF NoNewStrayStep, vars, local, casts, StrayLoopbacks, StrayCasts
  <1> USE OutputsAssumption DEF NoNewStrayStep, local, mailbox, casts
  <1>1. ASSUME NEW m \in ModuleIds, NEW a \in LoadAnswers, BootLoad(m, a)
        PROVE  NoNewStrayStep
    BY <1>1, KeepNoStray
    DEF BootLoad, LoadModule, StrayLoopbacks, TypeOK, Outputs
  <1>2. CASE BootList \/ BootProbe \/ RefreshTick
    BY <1>2, KeepNoStray DEF BootList, BootProbe, RefreshTick, StrayLoopbacks
  <1>3. CASE TakeCommand \/ LeaveLoop
    <2>1. /\ modules' = modules /\ unloading = None
          /\ unloading' = loopbackId /\ loopbackId' = None /\ StopCast
      BY <1>3 DEF TakeCommand, LeaveLoop, BeginTeardown, RouteInv
    <2>2. StrayLoopbacks' \subseteq StrayLoopbacks
      BY <2>1 DEF StrayLoopbacks
    <2>3. StrayCasts' \subseteq StrayCasts
      BY <2>1 DEF StopCast, StrayCasts, TypeOK, Live
    <2> QED
      BY <2>2, <2>3
  <1>4. CASE ClearOutput \/ RouteToSink \/ CastUnavailable \/ ExitUnloaded
    <2>1. /\ UnloadModule(unloading) /\ unloading' = None
          /\ loopbackId = None /\ loopbackId' = None
          /\ UNCHANGED <<task, stopped, session>>
      BY <1>4
      DEF ClearOutput, RouteToSink, CastUnavailable, ExitUnloaded, RouteInv,
          TornDown
    <2> QED
      BY <2>1, UnloadNoStray, KeepNoStray
  <1>5. ASSUME NEW s \in SessionIds, StartCast(s)
        PROVE  NoNewStrayStep
    <2>1. /\ UnloadModule(unloading) /\ unloading' = None
          /\ loopbackId = None /\ loopbackId' = None /\ session = None
          /\ session' = s
          /\ task' = [task EXCEPT ![s] = "connecting"]
          /\ stopped' = [stopped EXCEPT ![s] = FALSE]
      BY <1>5 DEF StartCast, RouteInv, TornDown
    <2>2. StrayCasts' \subseteq StrayCasts
      BY <2>1 DEF StrayCasts, TypeOK
    <2> QED
      BY <2>1, <2>2, UnloadNoStray
  <1>6. ASSUME NEW m \in ModuleIds, NEW a \in LoadAnswers, LoadAnswered(m, a)
        PROVE  NoNewStrayStep
    <2>1. a \in {"ok", "refused"}
      BY DEF LoadAnswers, PactlAnswers
    <2> QED
      BY <1>6, <2>1, KeepNoStray
      DEF LoadAnswered, LoadModule, StrayLoopbacks, TypeOK, RouteInv, TornDown
  <1>7. CASE Refreshed
    <2>1. StrayCasts' \subseteq StrayCasts
      BY <1>7 DEF Refreshed, CastIsDead, StrayCasts, TypeOK, Live
    <2> QED
      BY <1>7, <2>1 DEF Refreshed, StrayLoopbacks
  <1>8. CASE ExitRaopUnloaded
    <2>1. UnloadModule(raopId) /\ UNCHANGED <<task, stopped, session>>
          /\ UNCHANGED <<loopbackId, unloading>>
      BY <1>8 DEF ExitRaopUnloaded
    <2>2. StrayLoopbacks' \subseteq StrayLoopbacks
      BY <2>1 DEF StrayLoopbacks, UnloadModule, TypeOK, Outputs
    <2> QED
      BY <2>1, <2>2, KeepNoStray
  <1>9. CASE Process
    BY <1>9 DEF Process, MainReturns, FatalExit, Crash, Start, Forget
  <1>10. ASSUME NEW c \in Commands, Submit(c)
         PROVE  NoNewStrayStep
    BY <1>10, KeepNoStray DEF Submit, StrayLoopbacks
  <1>11. CASE SendersGone \/ RequestShutdown
    BY <1>11, KeepNoStray DEF SendersGone, RequestShutdown, StrayLoopbacks
  <1>12. ASSUME NEW s \in SessionIds,
                CastLaunch(s) \/ CastStatus(s) \/ CastHandled(s) \/ CastEnd(s)
         PROVE  NoNewStrayStep
    <2>1. StrayCasts' \subseteq StrayCasts
      BY <1>12
      DEF CastLaunch, CastStatus, CastHandled, CastEnd, StrayCasts, TypeOK, Live
    <2>2. StrayLoopbacks' = StrayLoopbacks
      BY <1>12
      DEF CastLaunch, CastStatus, CastHandled, CastEnd, StrayLoopbacks
    <2> QED
      BY <2>1, <2>2
  <1>13. CASE PipeWireRestart \/ ForeignLoad
    BY <1>13, KeepNoStray
    DEF PipeWireRestart, ForeignLoad, StrayLoopbacks, Unused, TypeOK, Outputs
  <1> QED
    BY <1>1, <1>2, <1>3, <1>4, <1>5, <1>6, <1>7, <1>8, <1>9, <1>10, <1>11,
       <1>12, <1>13
    DEF Next, Controller, Environment

(* Every handler hands each route it gives up to an unload or a stop.       *)
THEOREM NoStrayCorrect ==
  ASSUME PactlAnswers
  PROVE  Spec => NoNewStray
  <1>1. TypeOK /\ RouteInv /\ [Next]_vars => [NoNewStrayStep]_vars
    BY StrayStep
  <1>2. Spec => [][NoNewStrayStep]_vars
    BY <1>1, RouteInvariant, PTL DEF Spec
  <1> QED
    BY <1>2 DEF NoNewStray, NoNewStrayStep

-----------------------------------------------------------------------------
(* The controller implements the route its users see.                      *)

Todo == IF pc \in {"unload", "load"} THEN <<handling>> \o queue ELSE queue

LEMMA TodoFacts ==
  ASSUME NEW q \in Seq(Commands), NEW h \in Commands, NEW c \in Commands
  PROVE  /\ <<h>> \o q # <<>>
         /\ Head(<<h>> \o q) = h
         /\ Tail(<<h>> \o q) = q
         /\ <<h>> \o Append(q, c) = Append(<<h>> \o q, c)
         /\ q # <<>> => <<Head(q)>> \o Tail(q) = q
  <1>1. <<h>> \o q # <<>> /\ Head(<<h>> \o q) = h
    OBVIOUS
  <1>2. Tail(<<h>> \o q) = q
    OBVIOUS
  <1>3. <<h>> \o Append(q, c) = Append(<<h>> \o q, c)
    OBVIOUS
  <1>4. q # <<>> => <<Head(q)>> \o Tail(q) = q
    OBVIOUS
  <1> QED
    BY <1>1, <1>2, <1>3, <1>4

LEMMA RefineInit == Init => Route!Init
  BY DEF Init, Route!Init, Running

LEMMA RefineServe ==
  ASSUME TypeOK, pc \in {"unload", "load"}, pc' = "idle", queue' = queue,
         published'.active \in {None, handling}
  PROVE  Route!Next
  <1>1. queue \in Seq(Commands) /\ handling \in Commands
    BY DEF TypeOK
  <1>2. Route!Serve
    BY <1>1, TodoFacts DEF Route!Serve, Running
  <1> QED
    BY <1>2 DEF Route!Next

LEMMA RefineStep ==
  TypeOK /\ RouteInv /\ [Next]_vars => [Route!Next]_(Route!routeVars)
  <1> SUFFICES ASSUME TypeOK, RouteInv, [Next]_vars
               PROVE  Route!Next \/ UNCHANGED Route!routeVars
    OBVIOUS
  <1> USE DEF Running, local, mailbox, casts, Route!routeVars
  <1>1. ASSUME NEW m \in ModuleIds, NEW a \in LoadAnswers, BootLoad(m, a)
        PROVE  UNCHANGED Route!routeVars
    BY <1>1 DEF BootLoad
  <1>2. CASE BootList
    BY <1>2 DEF BootList
  <1>3. CASE BootProbe
    <2>1. Route!Lose
      BY <1>3 DEF BootProbe, Route!Lose, RouteInv, BootPlaces
    <2> QED
      BY <2>1 DEF Route!Next
  <1>4. CASE TakeCommand
    <2>1. queue \in Seq(Commands) /\ queue # <<>>
      BY <1>4 DEF TypeOK, TakeCommand
    <2>2. <<handling'>> \o queue' = queue
      BY <1>4, <2>1, TodoFacts DEF TakeCommand
    <2> QED
      BY <1>4, <2>2 DEF TakeCommand
  <1>5. CASE ClearOutput
    BY <1>5, RefineServe DEF ClearOutput, Publish
  <1>6. CASE RouteToSink
    BY <1>6 DEF RouteToSink
  <1>7. ASSUME NEW m \in ModuleIds, NEW a \in LoadAnswers, LoadAnswered(m, a)
        PROVE  Route!Next
    BY <1>7, RefineServe DEF LoadAnswered, Publish
  <1>8. ASSUME NEW s \in SessionIds, StartCast(s)
        PROVE  Route!Next
    BY <1>8, RefineServe DEF StartCast, Publish
  <1>9. CASE CastUnavailable
    BY <1>9, RefineServe DEF CastUnavailable, Publish
  <1>10. CASE RefreshTick
    BY <1>10 DEF RefreshTick
  <1>11. CASE Refreshed
    <2>1. published.active = active
      BY <1>11 DEF Refreshed, RouteInv, RouteMatchesActive, AtRest
    <2>2. Route!Lose \/ UNCHANGED Route!routeVars
      BY <1>11, <2>1 DEF Refreshed, Publish, Route!Lose
    <2> QED
      BY <2>2 DEF Route!Next
  <1>12. CASE LeaveLoop \/ ExitUnloaded
    BY <1>12 DEF LeaveLoop, ExitUnloaded
  <1>13. CASE ExitRaopUnloaded
    <2>1. Route!Halt
      BY <1>13 DEF ExitRaopUnloaded, Route!Halt
    <2> QED
      BY <2>1 DEF Route!Next
  <1>14. CASE MainReturns \/ FatalExit \/ Crash
    <2>1. Route!Halt
      BY <1>14 DEF MainReturns, FatalExit, Crash, Forget, Route!Halt
    <2> QED
      BY <2>1 DEF Route!Next
  <1>15. CASE Start
    <2>1. Route!Boot
      BY <1>15 DEF Start, RouteInv, Route!Boot
    <2> QED
      BY <2>1 DEF Route!Next
  <1>16. ASSUME NEW c \in Commands, Submit(c)
         PROVE  Route!Next
    <2>1. /\ queue \in Seq(Commands) /\ handling \in Commands
          /\ queue' = Append(queue, c) /\ pc' = pc /\ handling' = handling
          /\ published' = published /\ Running
      BY <1>16 DEF TypeOK, Submit, Put
    <2>2. Todo' = Append(Todo, c)
      BY <2>1, TodoFacts DEF Todo
    <2>3. Route!Accept
      BY <2>1, <2>2 DEF Todo, Route!Accept, Commands
    <2> QED
      BY <2>3 DEF Route!Next
  <1>17. CASE SendersGone \/ RequestShutdown \/ PipeWireRestart \/ ForeignLoad
    BY <1>17 DEF SendersGone, RequestShutdown, PipeWireRestart, ForeignLoad
  <1>18. ASSUME NEW s \in SessionIds,
                CastLaunch(s) \/ CastStatus(s) \/ CastHandled(s) \/ CastEnd(s)
         PROVE  UNCHANGED Route!routeVars
    BY <1>18 DEF CastLaunch, CastStatus, CastHandled, CastEnd
  <1>19. CASE UNCHANGED vars
    BY <1>19 DEF vars
  <1> QED
    BY <1>1, <1>2, <1>3, <1>4, <1>5, <1>6, <1>7, <1>8, <1>9, <1>10, <1>11,
       <1>12, <1>13, <1>14, <1>15, <1>16, <1>17, <1>18, <1>19
    DEF Next, Controller, Environment, Process

(* Requests are served in the order accepted, each once, and what is shown   *)
(* is always the last one served or nothing.                               *)
THEOREM RouteImplemented == Spec => ServesInOrder
  <1> QED
    BY RefineInit, RefineStep, RouteInvariant, PTL
    DEF Spec, ServesInOrder, Route!Spec

-----------------------------------------------------------------------------
(* A cast task, as its own module says it lives.                            *)

LifeStep(s) ==
  \/ [CastTask(s)!Next]_<<PhaseOf(s), stopped[s]>>
  \/ PhaseOf(s) = "ended" /\ CastTask(s)!Init'
  \/ pc' = "down"

LEMMA LifeStays ==
  ASSUME NEW s \in SessionIds, task'[s] = task[s], stopped'[s] = stopped[s]
  PROVE  LifeStep(s)
  BY DEF LifeStep, PhaseOf

(* A stop is no news to a task that was told before; of one that ended it     *)
(* only frees the id.                                                       *)
LEMMA StopIsLife ==
  ASSUME TypeOK, StopCast, NEW s \in SessionIds
  PROVE  LifeStep(s)
  <1>1. CASE s # session
    <2>1. task'[s] = task[s] /\ stopped'[s] = stopped[s]
      BY <1>1 DEF StopCast, TypeOK
    <2> QED
      BY <2>1, LifeStays
  <1>2. CASE s = session /\ session # None
    <2>1. stopped'[s] = TRUE /\ stopped[s] \in BOOLEAN
      BY <1>2 DEF StopCast, TypeOK
    <2>2. task'[s] = IF task[s] = "finished" THEN "free" ELSE task[s]
      BY <1>2 DEF StopCast, TypeOK
    <2>3. PhaseOf(s)' = PhaseOf(s)
      BY <2>2 DEF PhaseOf, Live
    <2>4. CASE stopped[s] = FALSE
      <3>1. CastTask(s)!Stop
        BY <2>1, <2>3, <2>4 DEF CastTask!Stop
      <3> QED
        BY <3>1 DEF LifeStep, CastTask!Next
    <2>5. CASE stopped[s] = TRUE
      BY <2>1, <2>3, <2>5 DEF LifeStep
    <2> QED
      BY <2>1, <2>4, <2>5
  <1>3. CASE session = None
    <2>1. task' = task /\ stopped' = stopped
      BY <1>3 DEF StopCast
    <2> QED
      BY <2>1, LifeStays
  <1> QED
    BY <1>1, <1>2, <1>3

LEMMA LifeStepHolds ==
  ASSUME TypeOK, Next, NEW s \in SessionIds
  PROVE  LifeStep(s)
  <1>1. CASE UNCHANGED <<task, stopped>>
    BY <1>1, LifeStays
  <1>2. ASSUME NEW t \in SessionIds, CastLaunch(t) \/ CastStatus(t)
                                     \/ CastHandled(t) \/ CastEnd(t)
        PROVE  LifeStep(s)
    <2>1. stopped' = stopped
      BY <1>2 DEF CastLaunch, CastStatus, CastHandled, CastEnd
    <2>2. CASE s # t
      <3>1. task'[s] = task[s]
        BY <1>2, <2>2 DEF CastLaunch, CastStatus, CastHandled, CastEnd, TypeOK
      <3> QED
        BY <2>1, <3>1, LifeStays
    <2>3. CASE s = t
      <3>1. CASE CastLaunch(t)
        <4>1. CastTask(s)!Launch
          BY <2>1, <2>3, <3>1 DEF CastLaunch, TypeOK, PhaseOf, Live, CastTask!Launch
        <4> QED
          BY <4>1 DEF LifeStep, CastTask!Next
      <3>2. CASE CastStatus(t)
        <4>1. CastTask(s)!Status
          BY <2>1, <2>3, <3>2 DEF CastStatus, TypeOK, PhaseOf, Live, CastTask!Status
        <4> QED
          BY <4>1 DEF LifeStep, CastTask!Next
      <3>3. CASE CastHandled(t)
        <4>1. CastTask(s)!Handled
          BY <2>1, <2>3, <3>3 DEF CastHandled, TypeOK, PhaseOf, Live, CastTask!Handled
        <4> QED
          BY <4>1 DEF LifeStep, CastTask!Next
      <3>4. CASE CastEnd(t)
        <4>1. CastTask(s)!End
          BY <2>1, <2>3, <3>4 DEF CastEnd, TypeOK, PhaseOf, Live, CastTask!End
        <4> QED
          BY <4>1 DEF LifeStep, CastTask!Next
      <3> QED
        BY <1>2, <3>1, <3>2, <3>3, <3>4
    <2> QED
      BY <2>2, <2>3
  <1>3. CASE TakeCommand \/ LeaveLoop
    BY <1>3, StopIsLife DEF TakeCommand, LeaveLoop, BeginTeardown
  <1>4. ASSUME NEW t \in SessionIds, StartCast(t)
        PROVE  LifeStep(s)
    <2>1. CASE s # t
      <3>1. task'[s] = task[s] /\ stopped'[s] = stopped[s]
        BY <1>4, <2>1 DEF StartCast, TypeOK
      <3> QED
        BY <3>1, LifeStays
    <2>2. CASE s = t
      <3>1. /\ task[s] = "free" /\ task'[s] = "connecting"
            /\ stopped'[s] = FALSE
        BY <1>4, <2>2 DEF StartCast, TypeOK
      <3>2. PhaseOf(s) = "ended" /\ PhaseOf(s)' = "connecting"
        BY <3>1 DEF PhaseOf, Live
      <3> QED
        BY <3>1, <3>2 DEF LifeStep, CastTask!Init
    <2> QED
      BY <2>1, <2>2
  <1>5. CASE Refreshed
    <2>1. stopped' = stopped
      BY <1>5 DEF Refreshed
    <2>2. \/ task'[s] = task[s]
          \/ task[s] = "finished" /\ task'[s] = "free"
      BY <1>5 DEF Refreshed, CastIsDead, TypeOK
    <2>3. PhaseOf(s)' = PhaseOf(s)
      BY <2>2 DEF PhaseOf, Live
    <2> QED
      BY <2>1, <2>3 DEF LifeStep
  <1>6. CASE Process
    <2>1. CASE Start
      BY <1>1, <2>1 DEF Start, casts
    <2>2. CASE MainReturns \/ FatalExit \/ Crash
      BY <2>2 DEF MainReturns, FatalExit, Crash, Forget, LifeStep
    <2> QED
      BY <1>6, <2>1, <2>2 DEF Process
  <1>7. ASSUME NEW m \in ModuleIds, NEW a \in LoadAnswers,
               BootLoad(m, a) \/ LoadAnswered(m, a)
        PROVE  LifeStep(s)
    BY <1>1, <1>7 DEF BootLoad, LoadAnswered, casts
  <1>8. CASE \/ BootList \/ BootProbe \/ ClearOutput \/ RouteToSink
             \/ CastUnavailable \/ RefreshTick \/ ExitUnloaded \/ ExitRaopUnloaded
    BY <1>1, <1>8 DEF BootList, BootProbe, ClearOutput, RouteToSink,
       CastUnavailable, RefreshTick, ExitUnloaded, ExitRaopUnloaded, casts
  <1>9. ASSUME \/ \E c \in Commands : Submit(c)
               \/ SendersGone \/ RequestShutdown \/ PipeWireRestart \/ ForeignLoad
        PROVE  LifeStep(s)
    BY <1>1, <1>9 DEF Submit, SendersGone, RequestShutdown, PipeWireRestart,
       ForeignLoad, casts
  <1> QED
    BY <1>2, <1>3, <1>4, <1>5, <1>6, <1>7, <1>8, <1>9
    DEF Next, Controller, Environment

(* A cast task takes only the steps of the life that a session implements     *)
(* (ImplementsCastLife): no handler of the controller moves a session on,      *)
(* takes back its stop, or gives its id to another while it runs.             *)
THEOREM CastTasksMove == Spec => CastTasksLive
  <1>1. TypeOK /\ [Next]_vars =>
          [\A s \in SessionIds : LifeStep(s)]_vars
    BY LifeStepHolds
  <1> QED
    BY <1>1, RouteInvariant, PTL DEF Spec, CastTasksLive, LifeStep

-----------------------------------------------------------------------------
(* Discovery: what is kept of a sequence.                                   *)

LEMMA LeastPlace ==
  ASSUME NEW S \in SUBSET Nat, S # {}
  PROVE  Min(S) \in S /\ \A n \in S : Min(S) <= n
<1> DEFINE R == OpToRel(<, Nat)
<1>1. PICK m \in S : \A n \in S : <<n, m>> \notin R
  <2>1. IsWellFoundedOn(R, Nat)
    BY NatLessThanWellFounded
  <2> HIDE DEF R
  <2> QED
    BY <2>1, WFMin
<1>2. ASSUME NEW n \in S
      PROVE  m <= n
  <2>1. ~ (n < m)
    BY <1>1 DEF OpToRel
  <2> QED
    BY <2>1
<1> QED
  BY <1>2 DEF Min

(* The positions up to n that are kept have an order.                        *)
Ascends(g) == \A i, j \in DOMAIN g : i < j => g[i] < g[j]

Ordered(n) ==
  \A P \in SUBSET (1 .. n) :
    IsFiniteSet(P) /\ \E g \in [1 .. Cardinality(P) -> P] : Ascends(g)

LEMMA OrderedNext ==
  ASSUME NEW n \in Nat, Ordered(n)
  PROVE  Ordered(n + 1)
<1> SUFFICES ASSUME NEW P \in SUBSET (1 .. n + 1)
             PROVE  IsFiniteSet(P) /\ \E g \in [1 .. Cardinality(P) -> P] : Ascends(g)
  BY DEF Ordered
<1> DEFINE Q == P \ {n + 1}
<1>1. Q \in SUBSET (1 .. n)
  OBVIOUS
<1>2. IsFiniteSet(Q) /\ \E g \in [1 .. Cardinality(Q) -> Q] : Ascends(g)
  BY <1>1 DEF Ordered
<1>3. CASE n + 1 \notin P
  <2>1. Q = P
    BY <1>3
  <2> QED
    BY <1>2, <2>1
<1>4. CASE n + 1 \in P
  <2>1. PICK g \in [1 .. Cardinality(Q) -> Q] : Ascends(g)
    BY <1>2
  <2>2. P = Q \cup {n + 1}
    BY <1>4
  <2> DEFINE c == Cardinality(Q)
  <2>3. c \in Nat
    BY <1>2, FS_CardinalityType
  <2>4. IsFiniteSet(P) /\ Cardinality(P) = c + 1
    <3>1. n + 1 \notin Q
      OBVIOUS
    <3> HIDE DEF Q
    <3>2. /\ IsFiniteSet(Q \cup {n + 1})
          /\ Cardinality(Q \cup {n + 1}) = Cardinality(Q) + 1
      BY <1>2, <3>1, FS_AddElement
    <3> QED
      BY <2>2, <3>2
  <2> HIDE DEF c, Q
  <2> DEFINE h == [i \in 1 .. c + 1 |-> IF i = c + 1 THEN n + 1 ELSE g[i]]
  <2>5. g \in [1 .. c -> Q]
    BY DEF c
  <2>6. h \in [1 .. c + 1 -> P]
    <3>1. ASSUME NEW i \in 1 .. c + 1, i # c + 1
          PROVE  g[i] \in P
      <4>1. i \in 1 .. c
        BY <2>3, <3>1
      <4>2. g[i] \in Q
        BY <4>1, <2>5
      <4> QED
        BY <4>2, <2>2
    <3> QED
      BY <3>1, <1>4
  <2>7. Ascends(h)
    <3> SUFFICES ASSUME NEW i \in 1 .. c + 1, NEW j \in 1 .. c + 1, i < j
                 PROVE  h[i] < h[j]
      BY DEF Ascends
    <3>1. i \in 1 .. c /\ h[i] = g[i] /\ g[i] \in 1 .. n
      <4>1. i \in 1 .. c /\ i # c + 1
        BY <2>3
      <4> QED
        BY <4>1, <2>5, <1>1
    <3>2. CASE j = c + 1
      BY <3>1, <3>2, <2>3
    <3>3. CASE j # c + 1
      <4>1. j \in 1 .. c /\ h[j] = g[j]
        BY <3>3, <2>3
      <4> QED
        BY <4>1, <3>1, <2>1, <2>5 DEF Ascends
    <3> QED
      BY <3>2, <3>3
  <2> QED
    BY <2>4, <2>6, <2>7
<1> QED
  BY <1>3, <1>4

(* If some n had none, the least such n would follow one that has.            *)
LEMMA AlwaysOrdered == \A n \in Nat : Ordered(n)
<1> DEFINE Bad == {n \in Nat : ~ Ordered(n)}
<1>1. Ordered(0)
  <2>1. IsFiniteSet({}) /\ Cardinality({}) = 0
    BY FS_EmptySet
  <2>2. \A P \in SUBSET (1 .. 0) : P = {}
    OBVIOUS
  <2>3. \E g \in [1 .. 0 -> {}] : Ascends(g)
    <3>1. [i \in 1 .. 0 |-> 0] \in [1 .. 0 -> {}]
      OBVIOUS
    <3>2. Ascends([i \in 1 .. 0 |-> 0])
      BY DEF Ascends
    <3> QED
      BY <3>1, <3>2
  <2> QED
    BY <2>1, <2>2, <2>3 DEF Ordered
<1>2. SUFFICES ASSUME Bad # {} PROVE FALSE
  BY <1>2
<1>3. Min(Bad) \in Bad /\ \A n \in Bad : Min(Bad) <= n
  BY <1>2, LeastPlace
<1>4. PICK m \in Bad : \A n \in Bad : m <= n
  BY <1>3
<1>5. m \in Nat /\ ~ Ordered(m)
  BY <1>4
<1>6. m # 0
  BY <1>1, <1>5
<1>7. m - 1 \in Nat /\ m = (m - 1) + 1
  BY <1>5, <1>6
<1>8. m - 1 \notin Bad
  BY <1>4, <1>7
<1>9. Ordered(m - 1)
  BY <1>7, <1>8
<1>10. Ordered((m - 1) + 1)
  <2> HIDE DEF Bad
  <2> QED
    BY <1>7, <1>9, OrderedNext
<1> QED
  BY <1>5, <1>7, <1>10

(* InOrder goes through every position that is kept, upwards.                 *)
LEMMA InOrderIs ==
  ASSUME NEW n \in Nat, NEW P \in SUBSET (1 .. n)
  PROVE  /\ Cardinality(P) \in Nat
         /\ InOrder(P) \in [1 .. Cardinality(P) -> P]
         /\ Ascends(InOrder(P))
         /\ \A p \in P : \E i \in 1 .. Cardinality(P) : InOrder(P)[i] = p
<1>1. IsFiniteSet(P) /\ \E g \in [1 .. Cardinality(P) -> P] : Ascends(g)
  BY AlwaysOrdered DEF Ordered
<1>2. Cardinality(P) \in Nat
  BY <1>1, FS_CardinalityType
<1> DEFINE c == Cardinality(P)
           g == InOrder(P)
<1>3. g \in [1 .. c -> P] /\ Ascends(g)
  BY <1>1 DEF InOrder, Ascends
<1> HIDE DEF g
<1>4. IsFiniteSet(1 .. c) /\ Cardinality(1 .. c) = c
  <2> HIDE DEF c
  <2> QED
    BY <1>2, FS_Interval DEF c
<1>5. g \in Injection(1 .. c, P)
  <2> SUFFICES ASSUME NEW i \in 1 .. c, NEW j \in 1 .. c, g[i] = g[j]
               PROVE  i = j
    BY <1>3, Zenon DEF Injection, IsInjective
  <2>1. g[i] \in Nat /\ g[j] \in Nat
    <3> HIDE DEF c
    <3>1. g[i] \in P /\ g[j] \in P
      BY <1>3
    <3>2. P \subseteq Nat
      BY SMT
    <3> QED
      BY <3>1, <3>2
  <2> QED
    BY <2>1, <1>2, <1>3 DEF Ascends
<1>6. g \in Surjection(1 .. c, P)
  BY <1>1, <1>4, <1>5, FS_Injection
<1> QED
  BY <1>2, <1>3, <1>6 DEF Surjection, g

(* What k holds is what s holds at the places P, from the first to the last.    *)
Selects(k, s, P) ==
  \E g \in [DOMAIN k -> P] :
    /\ Ascends(g)
    /\ \A p \in P : \E i \in DOMAIN g : g[i] = p
    /\ \A i \in DOMAIN g : k[i] = s[g[i]]

LEMMA KeptIs ==
  ASSUME NEW S, NEW s \in Seq(S), NEW P \in SUBSET DOMAIN s
  PROVE  Kept(s, P) \in Seq(S) /\ Selects(Kept(s, P), s, P)
<1>1. P \in SUBSET (1 .. Len(s)) /\ Len(s) \in Nat
  OBVIOUS
<1> DEFINE c == Cardinality(P)
           g == InOrder(P)
<1>2. c \in Nat /\ g \in [1 .. c -> P] /\ Ascends(g)
      /\ \A p \in P : \E i \in 1 .. c : g[i] = p
  BY <1>1, InOrderIs
<1>3. Kept(s, P) = [i \in 1 .. c |-> s[g[i]]]
  BY DEF Kept
<1> HIDE DEF c, g
<1>4. DOMAIN Kept(s, P) = 1 .. c /\ \A i \in 1 .. c : Kept(s, P)[i] = s[g[i]]
  BY <1>3
<1>5. Kept(s, P) \in Seq(S)
  <2>1. \A i \in 1 .. c : s[g[i]] \in S
    BY <1>2
  <2> QED
    BY <1>2, <1>3, <2>1
<1>6. DOMAIN g = 1 .. c
  BY <1>2
<1>7. Selects(Kept(s, P), s, P)
  <2>1. g \in [DOMAIN Kept(s, P) -> P]
    BY <1>2, <1>4
  <2>2. \A p \in P : \E i \in DOMAIN g : g[i] = p
    BY <1>2, <1>6
  <2>3. \A i \in DOMAIN g : Kept(s, P)[i] = s[g[i]]
    BY <1>4, <1>6
  <2> QED
    BY <1>2, <2>1, <2>2, <2>3, Zenon DEF Selects
<1> QED
  BY <1>5, <1>7

(* The first device of each key is kept.                                     *)
FirstOfEach(d, s, field) ==
  /\ OnceEach(d, field, {s[i][field] : i \in DOMAIN s})
  /\ \A i \in DOMAIN d : \E p \in DOMAIN s :
       /\ d[i] = s[p]
       /\ \A q \in DOMAIN s : s[q][field] = s[p][field] => p <= q

LEMMA DedupIs ==
  ASSUME NEW S, NEW s \in Seq(S), NEW field
  PROVE  DedupBy(s, field) \in Seq(S) /\ FirstOfEach(DedupBy(s, field), s, field)
<1> DEFINE P == {i \in DOMAIN s : \A j \in 1 .. i - 1 : s[j][field] # s[i][field]}
           d == Kept(s, P)
<1>1. d = DedupBy(s, field)
  BY DEF DedupBy
<1>2. P \in SUBSET DOMAIN s /\ DOMAIN s = 1 .. Len(s) /\ Len(s) \in Nat
  OBVIOUS
<1>3. ASSUME NEW p \in P, NEW q \in DOMAIN s, s[q][field] = s[p][field]
      PROVE  p <= q
  <2>1. p \in Nat /\ q \in Nat /\ q >= 1
    BY <1>2
  <2>2. q \notin 1 .. p - 1
    BY <1>3
  <2> QED
    BY <2>1, <2>2
<1>4. ASSUME NEW q \in DOMAIN s
      PROVE  \E p \in P : s[p][field] = s[q][field]
  <2> DEFINE Same == {p \in DOMAIN s : s[p][field] = s[q][field]}
  <2>1. Same \in SUBSET Nat /\ Same # {}
    BY <1>2
  <2>2. PICK p \in Same : \A n \in Same : p <= n
    <3> HIDE DEF Same
    <3> QED
      BY <2>1, LeastPlace
  <2>3. ASSUME NEW j \in 1 .. p - 1
        PROVE  s[j][field] # s[p][field]
    <3>1. j \in DOMAIN s /\ ~ (p <= j)
      BY <1>2
    <3>2. j \notin Same
      BY <2>2, <3>1
    <3> QED
      BY <3>1, <3>2
  <2> QED
    BY <2>3
<1> HIDE DEF P
<1>5. d \in Seq(S)
  BY <1>2, KeptIs
<1>6. PICK g \in [DOMAIN d -> P] :
        /\ Ascends(g)
        /\ \A p \in P : \E i \in DOMAIN g : g[i] = p
        /\ \A i \in DOMAIN g : d[i] = s[g[i]]
  <2>1. Selects(d, s, P)
    BY <1>2, KeptIs
  <2> QED
    BY <2>1 DEF Selects
<1> HIDE DEF d
<1>7. \A i \in DOMAIN d : g[i] \in P /\ d[i] = s[g[i]]
  BY <1>6
<1>8. OnceEach(d, field, {s[i][field] : i \in DOMAIN s})
  <2>1. ASSUME NEW i \in DOMAIN d
        PROVE  d[i][field] \in {s[q][field] : q \in DOMAIN s}
    BY <1>2, <1>7
  <2>2. ASSUME NEW q \in DOMAIN s
        PROVE  s[q][field] \in {d[i][field] : i \in DOMAIN d}
    <3>1. PICK p \in P : s[p][field] = s[q][field]
      BY <1>4
    <3>2. PICK i \in DOMAIN d : g[i] = p
      BY <1>6
    <3> QED
      BY <1>7, <3>1, <3>2
  <2>3. ASSUME NEW i \in DOMAIN d, NEW j \in DOMAIN d, d[i][field] = d[j][field]
        PROVE  i = j
    <3>1. g[i] <= g[j] /\ g[j] <= g[i]
      BY <1>2, <1>3, <1>7, <2>3
    <3>2. g[i] \in Nat /\ g[j] \in Nat /\ i \in Nat /\ j \in Nat
      BY <1>2, <1>5, <1>7
    <3>3. i < j => g[i] < g[j]
      BY <1>6 DEF Ascends
    <3>4. j < i => g[j] < g[i]
      BY <1>6 DEF Ascends
    <3> QED
      BY <3>1, <3>2, <3>3, <3>4
  <2> QED
    BY <2>1, <2>2, <2>3 DEF OnceEach
<1>9. ASSUME NEW i \in DOMAIN d
      PROVE  \E p \in DOMAIN s :
               /\ d[i] = s[p]
               /\ \A q \in DOMAIN s : s[q][field] = s[p][field] => p <= q
  <2>1. g[i] \in P /\ g[i] \in DOMAIN s /\ d[i] = s[g[i]]
    BY <1>2, <1>7
  <2> QED
    BY <2>1, <1>3
<1> QED
  BY <1>1, <1>5, <1>8, <1>9 DEF FirstOfEach

(* The lines of IPv4 come first, and none is lost.                            *)
LEMMA Ipv4FirstIs ==
  ASSUME NEW S, NEW s \in Seq(S)
  PROVE  /\ Ipv4First(s) \in Seq(S)
         /\ \A i \in DOMAIN Ipv4First(s) : \E p \in DOMAIN s : Ipv4First(s)[i] = s[p]
         /\ \A p \in DOMAIN s : \E i \in DOMAIN Ipv4First(s) : Ipv4First(s)[i] = s[p]
         /\ \A i, j \in DOMAIN Ipv4First(s) :
              Ipv4First(s)[i].proto # "IPv4" /\ Ipv4First(s)[j].proto = "IPv4" => j < i
<1> DEFINE V4 == {i \in DOMAIN s : s[i].proto = "IPv4"}
           Rest == DOMAIN s \ V4
           a == Kept(s, V4)
           b == Kept(s, Rest)
           c == a \o b
<1>1. Ipv4First(s) = c
  BY DEF Ipv4First
<1>2. V4 \in SUBSET DOMAIN s /\ Rest \in SUBSET DOMAIN s /\ V4 \cup Rest = DOMAIN s
  OBVIOUS
<1>3. /\ \A i \in V4 : s[i].proto = "IPv4"
      /\ \A i \in Rest : s[i].proto # "IPv4"
  OBVIOUS
<1> HIDE DEF V4, Rest
<1>4. a \in Seq(S) /\ b \in Seq(S)
  BY <1>2, KeptIs
<1>5. PICK f \in [DOMAIN a -> V4] :
        /\ Ascends(f)
        /\ \A p \in V4 : \E i \in DOMAIN f : f[i] = p
        /\ \A i \in DOMAIN f : a[i] = s[f[i]]
  <2>1. Selects(a, s, V4)
    BY <1>2, KeptIs
  <2> QED
    BY <2>1 DEF Selects
<1>6. PICK h \in [DOMAIN b -> Rest] :
        /\ Ascends(h)
        /\ \A p \in Rest : \E i \in DOMAIN h : h[i] = p
        /\ \A i \in DOMAIN h : b[i] = s[h[i]]
  <2>1. Selects(b, s, Rest)
    BY <1>2, KeptIs
  <2> QED
    BY <2>1 DEF Selects
<1> HIDE DEF a, b
<1>7. /\ c \in Seq(S)
      /\ DOMAIN c = 1 .. Len(a) + Len(b) /\ Len(a) \in Nat /\ Len(b) \in Nat
      /\ DOMAIN a = 1 .. Len(a) /\ DOMAIN b = 1 .. Len(b)
      /\ \A i \in 1 .. Len(a) : c[i] = a[i]
      /\ \A i \in 1 .. Len(b) : c[Len(a) + i] = b[i]
  BY <1>4
<1> HIDE DEF c
<1>8. ASSUME NEW i \in DOMAIN c, i <= Len(a)
      PROVE  \E p \in V4 : c[i] = s[p]
  <2>1. i \in DOMAIN a /\ c[i] = a[i]
    BY <1>7, <1>8
  <2> QED
    BY <1>5, <2>1
<1>9. ASSUME NEW i \in DOMAIN c, ~ (i <= Len(a))
      PROVE  \E p \in Rest : c[i] = s[p]
  <2>1. i - Len(a) \in 1 .. Len(b) /\ i = Len(a) + (i - Len(a))
    BY <1>7, <1>9
  <2>2. i - Len(a) \in DOMAIN b /\ c[i] = b[i - Len(a)]
    BY <1>7, <2>1
  <2> QED
    BY <1>6, <2>2
<1>10. ASSUME NEW p \in DOMAIN s
       PROVE  \E i \in DOMAIN c : c[i] = s[p]
  <2>1. CASE p \in V4
    <3>1. PICK i \in DOMAIN a : a[i] = s[p]
      BY <1>5, <2>1
    <3>2. i \in DOMAIN c /\ c[i] = a[i]
      BY <1>7
    <3> QED
      BY <3>1, <3>2
  <2>2. CASE p \notin V4
    <3>1. PICK i \in DOMAIN b : b[i] = s[p]
      BY <1>2, <1>6, <2>2
    <3>2. Len(a) + i \in DOMAIN c /\ c[Len(a) + i] = b[i]
      BY <1>7
    <3> QED
      BY <3>1, <3>2
  <2> QED
    BY <2>1, <2>2
<1>11. ASSUME NEW i \in DOMAIN c, NEW j \in DOMAIN c,
              c[i].proto # "IPv4", c[j].proto = "IPv4"
       PROVE  j < i
  <2>1. ~ (i <= Len(a)) /\ j <= Len(a)
    BY <1>3, <1>8, <1>9, <1>11
  <2> QED
    BY <1>7, <2>1
<1> QED
  BY <1>1, <1>2, <1>7, <1>8, <1>9, <1>10, <1>11

(* What parses of an avahi printout, those of IPv4 first.                     *)
ParsedOf(lines) == {l \in Range(lines) : Parsed(l)}

Chromecast(l) == [id |-> l.id, name |-> l.name, addr |-> l.addr, port |-> l.port]

Ipv4Leads(lines) ==
  \A i, j \in DOMAIN lines :
    lines[i].proto # "IPv4" /\ lines[j].proto = "IPv4" => j < i

LEMMA ChromecastsParsed ==
  ASSUME NEW out \in Seq(Lines)
  PROVE  \E lines \in Seq(Lines) :
           /\ {lines[i] : i \in DOMAIN lines} = ParsedOf(out)
           /\ Ipv4Leads(lines)
           /\ ParseChromecasts(out) = [i \in DOMAIN lines |-> Chromecast(lines[i])]
<1> DEFINE P == {i \in DOMAIN out : Parsed(out[i])}
           k == Kept(out, P)
           lines == Ipv4First(k)
<1>1. P \in SUBSET DOMAIN out /\ \A p \in P : out[p] \in ParsedOf(out)
  BY DEF ParsedOf, Range
<1>2. \A l \in ParsedOf(out) : \E p \in P : out[p] = l
  BY DEF ParsedOf, Range
<1>3. ParseChromecasts(out) = [i \in DOMAIN lines |-> Chromecast(lines[i])]
  BY DEF ParseChromecasts, Chromecast
<1> HIDE DEF P
<1>4. k \in Seq(Lines)
  BY <1>1, KeptIs
<1>5. PICK f \in [DOMAIN k -> P] :
        /\ Ascends(f)
        /\ \A p \in P : \E i \in DOMAIN f : f[i] = p
        /\ \A i \in DOMAIN f : k[i] = out[f[i]]
  <2>1. Selects(k, out, P)
    BY <1>1, KeptIs
  <2> QED
    BY <2>1 DEF Selects
<1> HIDE DEF k
<1>6. /\ lines \in Seq(Lines)
      /\ \A i \in DOMAIN lines : \E p \in DOMAIN k : lines[i] = k[p]
      /\ \A p \in DOMAIN k : \E i \in DOMAIN lines : lines[i] = k[p]
      /\ \A i, j \in DOMAIN lines :
           lines[i].proto # "IPv4" /\ lines[j].proto = "IPv4" => j < i
  BY <1>4, Ipv4FirstIs
<1> HIDE DEF lines
<1>7. ASSUME NEW i \in DOMAIN lines
      PROVE  lines[i] \in ParsedOf(out)
  <2>1. PICK p \in DOMAIN k : lines[i] = k[p]
    BY <1>6
  <2>2. f[p] \in P /\ k[p] = out[f[p]]
    BY <1>5
  <2> QED
    BY <1>1, <2>1, <2>2
<1>8. ASSUME NEW l \in ParsedOf(out)
      PROVE  \E i \in DOMAIN lines : lines[i] = l
  <2>1. PICK p \in P : out[p] = l
    BY <1>2
  <2>2. PICK q \in DOMAIN k : f[q] = p
    BY <1>5
  <2>3. k[q] = l
    BY <1>5, <2>1, <2>2
  <2> QED
    BY <1>6, <2>3
<1>9. {lines[i] : i \in DOMAIN lines} = ParsedOf(out)
  BY <1>7, <1>8
<1> QED
  BY <1>3, <1>6, <1>9 DEF Ipv4Leads

(* A Chromecast is offered once, and by IPv4 if it announced that.            *)
Found(out) == DedupBy(ParseChromecasts(out), "id")

LEMMA ChromecastsOnce ==
  ASSUME NEW out \in Seq(Lines)
  PROVE  /\ OnceEach(Found(out), "id", {l.id : l \in ParsedOf(out)})
         /\ Found(out) \in Seq({Chromecast(l) : l \in ParsedOf(out)})
         /\ \A i \in DOMAIN Found(out) : BestAddress(Found(out)[i], ParsedOf(out))
<1>1. PICK lines \in Seq(Lines) :
        /\ {lines[i] : i \in DOMAIN lines} = ParsedOf(out)
        /\ Ipv4Leads(lines)
        /\ ParseChromecasts(out) = [i \in DOMAIN lines |-> Chromecast(lines[i])]
  BY ChromecastsParsed
<1> DEFINE c == [i \in DOMAIN lines |-> Chromecast(lines[i])]
           S == {Chromecast(l) : l \in ParsedOf(out)}
           d == Found(out)
<1>2. DOMAIN c = DOMAIN lines
  OBVIOUS
<1>3. \A i \in DOMAIN lines : lines[i] \in ParsedOf(out) /\ c[i] = Chromecast(lines[i])
  BY <1>1
<1>4. c \in Seq(S)
  <2>1. DOMAIN c = 1 .. Len(lines) /\ Len(lines) \in Nat
    BY <1>2
  <2>2. \A i \in DOMAIN c : c[i] \in S
    BY <1>2, <1>3
  <2> HIDE DEF S
  <2> QED
    BY <2>1, <2>2
<1>5. d = DedupBy(c, "id")
  BY <1>1 DEF Found
<1> HIDE DEF c, S, d
<1>6. /\ d \in Seq(S)
      /\ OnceEach(d, "id", {c[i]["id"] : i \in DOMAIN c})
      /\ \A i \in DOMAIN d : \E p \in DOMAIN c :
           /\ d[i] = c[p]
           /\ \A q \in DOMAIN c : c[q]["id"] = c[p]["id"] => p <= q
  <2>1. d \in Seq(S) /\ FirstOfEach(d, c, "id")
    BY <1>4, <1>5, DedupIs
  <2> QED
    BY <2>1 DEF FirstOfEach
<1>7. {c[i]["id"] : i \in DOMAIN c} = {l.id : l \in ParsedOf(out)}
  <2>1. \A i \in DOMAIN c : c[i]["id"] = lines[i].id
    BY <1>2, <1>3 DEF Chromecast
  <2>2. \A l \in ParsedOf(out) : \E i \in DOMAIN c : lines[i] = l
    BY <1>1, <1>2
  <2> QED
    BY <1>2, <1>3, <2>1, <2>2
<1>8. ASSUME NEW i \in DOMAIN d
      PROVE  BestAddress(d[i], ParsedOf(out))
  <2>1. PICK p \in DOMAIN lines :
          /\ d[i] = c[p]
          /\ \A q \in DOMAIN lines : c[q]["id"] = c[p]["id"] => p <= q
    BY <1>2, <1>6
  <2>2. /\ d[i].id = lines[p].id /\ d[i].addr = lines[p].addr /\ d[i].port = lines[p].port
        /\ lines[p] \in ParsedOf(out)
    <3>1. d[i] = Chromecast(lines[p]) /\ lines[p] \in ParsedOf(out)
      BY <1>3, <2>1
    <3> QED
      BY <3>1 DEF Chromecast
  <2>3. ASSUME NEW l \in ParsedOf(out), l.id = d[i].id, l.proto = "IPv4"
        PROVE  lines[p].proto = "IPv4"
    <3>1. PICK q \in DOMAIN lines : lines[q] = l
      BY <1>1
    <3>2. p <= q
      <4>1. c[q] = Chromecast(lines[q]) /\ c[p] = Chromecast(lines[p])
        BY <1>3
      <4>2. c[q]["id"] = l.id /\ c[p]["id"] = lines[p].id
        BY <3>1, <4>1 DEF Chromecast
      <4> QED
        BY <2>1, <2>2, <2>3, <4>2
    <3>3. ~ (q < p)
      BY <3>2
    <3> QED
      BY <1>1, <2>3, <3>1, <3>3 DEF Ipv4Leads
  <2> QED
    BY <2>2, <2>3 DEF BestAddress
<1> QED
  BY <1>6, <1>7, <1>8 DEF S, d

(* An AirPlay receiver is offered once, by the sink that was there first.      *)
RaopOf(sinks) == {s \in Range(sinks) : s[1] = "raop_sink."}

Place(sinks, s) == Min({i \in DOMAIN sinks : sinks[i] = s})

LEMMA PlaceIs ==
  ASSUME NEW out \in Seq(SinkNames), NEW p \in DOMAIN out
  PROVE  /\ Place(out, out[p]) \in DOMAIN out
         /\ out[Place(out, out[p])] = out[p]
         /\ Place(out, out[p]) <= p
<1> DEFINE S == {i \in DOMAIN out : out[i] = out[p]}
<1>1. S \in SUBSET Nat /\ p \in S
  OBVIOUS
<1>2. Min(S) \in S /\ \A n \in S : Min(S) <= n
  <2> HIDE DEF S
  <2> QED
    BY <1>1, LeastPlace
<1> QED
  BY <1>1, <1>2 DEF Place

Receiver(sink) == [id |-> sink, name |-> Friendly(sink)]

Receivers(out) == DedupBy(ParseRaopSinks(out), "name")

LEMMA AirplayOnce ==
  ASSUME NEW out \in Seq(SinkNames)
  PROVE  /\ OnceEach(Receivers(out), "name", {Friendly(s) : s \in RaopOf(out)})
         /\ \A i \in DOMAIN Receivers(out) : \A s \in RaopOf(out) :
              Friendly(s) = Receivers(out)[i].name
                => Place(out, Receivers(out)[i].id) <= Place(out, s)
<1> DEFINE P == {i \in DOMAIN out : IsRaop(out[i])}
           k == Kept(out, P)
           c == [i \in DOMAIN k |-> Receiver(k[i])]
           S == {Receiver(s) : s \in SinkNames}
           d == Receivers(out)
<1>1. d = DedupBy(c, "name")
  BY DEF Receivers, ParseRaopSinks, Receiver
<1> HIDE DEF d
<1>2. /\ P \in SUBSET DOMAIN out
      /\ \A p \in P : out[p] \in RaopOf(out)
      /\ \A p \in DOMAIN out : out[p] \in RaopOf(out) => p \in P
      /\ \A s \in RaopOf(out) : \E p \in P : out[p] = s
  BY DEF RaopOf, Range, IsRaop
<1> HIDE DEF P
<1>3. k \in Seq(SinkNames)
  BY <1>2, KeptIs
<1>4. PICK f \in [DOMAIN k -> P] :
        /\ Ascends(f)
        /\ \A p \in P : \E i \in DOMAIN f : f[i] = p
        /\ \A i \in DOMAIN f : k[i] = out[f[i]]
  <2>1. Selects(k, out, P)
    BY <1>2, KeptIs
  <2> QED
    BY <2>1 DEF Selects
<1> HIDE DEF k
<1>5. /\ DOMAIN c = DOMAIN k /\ DOMAIN f = DOMAIN k
      /\ \A i \in DOMAIN k : /\ c[i] = Receiver(k[i])
                             /\ f[i] \in P /\ k[i] = out[f[i]] /\ k[i] \in RaopOf(out)
  BY <1>2, <1>4
<1>6. c \in Seq(S)
  <2>1. DOMAIN c = 1 .. Len(k) /\ Len(k) \in Nat
    BY <1>3, <1>5
  <2>2. \A i \in DOMAIN c : c[i] \in S
    BY <1>3, <1>5
  <2> HIDE DEF S
  <2> QED
    BY <2>1, <2>2
<1> HIDE DEF c, S
<1>7. /\ OnceEach(d, "name", {c[i]["name"] : i \in DOMAIN c})
      /\ \A i \in DOMAIN d : \E p \in DOMAIN c :
           /\ d[i] = c[p]
           /\ \A q \in DOMAIN c : c[q]["name"] = c[p]["name"] => p <= q
  <2>1. FirstOfEach(d, c, "name")
    BY <1>1, <1>6, DedupIs
  <2> QED
    BY <2>1 DEF FirstOfEach
<1>8. \A i \in DOMAIN k : c[i]["name"] = Friendly(k[i]) /\ c[i].id = k[i]
  BY <1>5 DEF Receiver
<1>9. \A s \in RaopOf(out) : \A p \in P :
        out[p] = s => \E i \in DOMAIN k : f[i] = p /\ k[i] = s
  BY <1>4
<1>10. {c[i]["name"] : i \in DOMAIN c} = {Friendly(s) : s \in RaopOf(out)}
  <2>1. \A i \in DOMAIN c : c[i]["name"] = Friendly(k[i]) /\ k[i] \in RaopOf(out)
    BY <1>5, <1>8
  <2>2. \A s \in RaopOf(out) : \E i \in DOMAIN c : k[i] = s
    BY <1>2, <1>5, <1>9
  <2> QED
    BY <2>1, <2>2
<1>11. ASSUME NEW i \in DOMAIN d, NEW s \in RaopOf(out), Friendly(s) = d[i].name
       PROVE  Place(out, d[i].id) <= Place(out, s)
  <2>1. PICK p \in DOMAIN k :
          /\ d[i] = c[p]
          /\ \A q \in DOMAIN k : c[q]["name"] = c[p]["name"] => p <= q
    BY <1>5, <1>7
  <2>2. /\ d[i].id = k[p] /\ d[i].name = Friendly(k[p])
        /\ f[p] \in DOMAIN out /\ k[p] = out[f[p]]
    BY <1>2, <1>5, <1>8, <2>1
  <2>3. Place(out, d[i].id) \in DOMAIN out /\ Place(out, d[i].id) <= f[p]
    BY <2>2, PlaceIs
  <2>4. Place(out, s) \in DOMAIN out /\ out[Place(out, s)] = s
    BY <1>2, PlaceIs
  <2>5. Place(out, s) \in P
    BY <1>2, <2>4
  <2>6. PICK q \in DOMAIN k : f[q] = Place(out, s) /\ k[q] = s
    BY <1>9, <2>4, <2>5
  <2>7. p <= q
    BY <1>8, <1>11, <2>1, <2>2, <2>6
  <2>8. p \in Nat /\ q \in Nat /\ f[p] \in Nat /\ f[q] \in Nat
    BY <1>3, <2>2, <2>4, <2>6
  <2>9. p < q => f[p] < f[q]
    BY <1>4, <1>5 DEF Ascends
  <2>10. f[p] <= f[q]
    BY <2>7, <2>8, <2>9
  <2> QED
    BY <2>3, <2>4, <2>6, <2>8, <2>10
<1> QED
  BY <1>7, <1>10, <1>11 DEF d

(* A sound card is a sink that was listed, neither ours nor a receiver.       *)
Cards(out) == DedupBy(ParseSoundcardSinks(out), "id")

LEMMA SoundcardsListed ==
  ASSUME NEW out \in Seq(SinkNames), NEW i \in DOMAIN Cards(out)
  PROVE  Cards(out)[i].id \in {s \in Range(out) : s[1] \notin {"raop_sink.", "soundsync"}}
<1> DEFINE P == {p \in DOMAIN out : IsHardware(out[p])}
           k == Kept(out, P)
           c == [p \in DOMAIN k |-> [id |-> k[p], name |-> k[p]]]
           S == {[id |-> s, name |-> s] : s \in SinkNames}
           d == Cards(out)
<1>1. d = DedupBy(c, "id")
  BY DEF Cards, ParseSoundcardSinks
<1> HIDE DEF d
<1>2. P \in SUBSET DOMAIN out
  OBVIOUS
<1>3. \A p \in P : out[p] \in {s \in Range(out) : s[1] \notin {"raop_sink.", "soundsync"}}
  BY DEF Range, IsHardware, IsRaop
<1> HIDE DEF P
<1>4. k \in Seq(SinkNames)
  BY <1>2, KeptIs
<1>5. PICK f \in [DOMAIN k -> P] :
        /\ Ascends(f)
        /\ \A p \in P : \E j \in DOMAIN f : f[j] = p
        /\ \A j \in DOMAIN f : k[j] = out[f[j]]
  <2>1. Selects(k, out, P)
    BY <1>2, KeptIs
  <2> QED
    BY <2>1 DEF Selects
<1> HIDE DEF k
<1>6. c \in Seq(S)
  <2>1. DOMAIN c = 1 .. Len(k) /\ Len(k) \in Nat
    BY <1>4
  <2>2. \A p \in DOMAIN c : c[p] \in S
    BY <1>4
  <2> HIDE DEF S
  <2> QED
    BY <2>1, <2>2
<1>7. \A p \in DOMAIN c : p \in DOMAIN k /\ c[p].id = k[p]
  OBVIOUS
<1> HIDE DEF c, S
<1>8. /\ OnceEach(d, "id", {c[j]["id"] : j \in DOMAIN c})
      /\ \A j \in DOMAIN d : \E p \in DOMAIN c :
           /\ d[j] = c[p]
           /\ \A q \in DOMAIN c : c[q]["id"] = c[p]["id"] => p <= q
  <2>1. FirstOfEach(d, c, "id")
    BY <1>1, <1>6, DedupIs
  <2> QED
    BY <2>1 DEF FirstOfEach
<1>9. PICK p \in DOMAIN c : d[i] = c[p]
  BY <1>8 DEF d
<1>10. d[i].id = out[f[p]] /\ f[p] \in P
  BY <1>5, <1>7, <1>9
<1> QED
  BY <1>3, <1>10 DEF d

-----------------------------------------------------------------------------
(* What holds whenever nothing is being probed.                              *)

Printed == [avahi : Seq(Lines), sinks : Seq(SinkNames)]

Pullable(a) == a = NoDevice \/ (a \in Seq(0 .. 255) /\ Usable(a))

Merged ==
  offered = [soundcard  |-> Cards(printed.sinks),
             airplay    |-> Receivers(printed.sinks),
             chromecast |-> Found(printed.avahi)]

MergeInv ==
  /\ printed \in Printed
  /\ chromecasts = Found(printed.avahi)
  /\ ~probing => Merged
  /\ Pullable(lanIp)

(* The address to pull from is one the host has, and may be pulled from.      *)
LEMMA ServerLanIpIs ==
  ASSUME NEW host \in Hosts
  PROVE  Pullable(ServerLanIp(host))
<1> DEFINE usable == {i \in DOMAIN host : Usable(host[i])}
           private == {i \in usable : Private(host[i])}
<1>1. host \in Seq(Seq(0 .. 255))
  BY DiscoveryAssumption
<1>2. usable \in SUBSET Nat /\ private \in SUBSET Nat
  BY <1>1
<1>3. \A i \in usable : host[i] \in Seq(0 .. 255) /\ Usable(host[i])
  BY <1>1
<1>4. ServerLanIp(host) =
        IF private # {} THEN host[Min(private)]
        ELSE IF usable # {} THEN host[Min(usable)] ELSE NoDevice
  BY DEF ServerLanIp
<1>5. private \subseteq usable
  OBVIOUS
<1> HIDE DEF usable, private
<1>6. CASE private # {}
  <2>1. Min(private) \in private
    BY <1>2, <1>6, LeastPlace
  <2> QED
    BY <1>3, <1>4, <1>5, <1>6, <2>1 DEF Pullable
<1>7. CASE private = {} /\ usable # {}
  <2>1. Min(usable) \in usable
    BY <1>2, <1>7, LeastPlace
  <2> QED
    BY <1>3, <1>4, <1>7, <2>1 DEF Pullable
<1>8. CASE private = {} /\ usable = {}
  <2>1. ServerLanIp(host) = NoDevice
    BY <1>4, <1>8
  <2> QED
    BY <2>1 DEF Pullable
<1> QED
  BY <1>6, <1>7, <1>8

(* Before the first probe nothing was printed, and nothing is offered.         *)
LEMMA NothingFound ==
  /\ Found(<<>>) = <<>>
  /\ Receivers(<<>>) = <<>>
  /\ Cards(<<>>) = <<>>
<1>1. ASSUME NEW s, s = <<>>, NEW P \in SUBSET DOMAIN s
      PROVE  Kept(s, P) = <<>>
  <2>1. P = {}
    BY <1>1
  <2>2. Cardinality(P) = 0
    BY <2>1, FS_EmptySet
  <2> QED
    BY <2>2 DEF Kept
<1>2. \A field : DedupBy(<<>>, field) = <<>>
  BY <1>1 DEF DedupBy
<1>3. \A P \in SUBSET DOMAIN <<>> : Kept(<<>>, P) = <<>>
  BY <1>1
<1>4. Ipv4First(<<>>) = <<>>
  <2>1. /\ {i \in DOMAIN <<>> : <<>>[i].proto = "IPv4"} = {}
        /\ DOMAIN <<>> \ {} = {}
    OBVIOUS
  <2>2. Kept(<<>>, {}) = <<>>
    BY <1>3
  <2> QED
    BY <2>1, <2>2 DEF Ipv4First
<1>5. ParseChromecasts(<<>>) = <<>>
  <2>1. Kept(<<>>, {i \in DOMAIN <<>> : Parsed(<<>>[i])}) = <<>>
    BY <1>3
  <2> QED
    BY <1>4, <2>1 DEF ParseChromecasts
<1>6. ParseRaopSinks(<<>>) = <<>>
  <2>1. Kept(<<>>, {i \in DOMAIN <<>> : IsRaop(<<>>[i])}) = <<>>
    BY <1>3
  <2> QED
    BY <2>1 DEF ParseRaopSinks
<1>7. ParseSoundcardSinks(<<>>) = <<>>
  <2>1. Kept(<<>>, {i \in DOMAIN <<>> : IsHardware(<<>>[i])}) = <<>>
    BY <1>3
  <2> QED
    BY <2>1 DEF ParseSoundcardSinks
<1> QED
  BY <1>2, <1>5, <1>6, <1>7 DEF Found, Receivers, Cards

LEMMA PrintoutsAre ==
  ASSUME NEW S, NEW out \in Printouts(S)
  PROVE  out \in Seq(S)
<1>1. PICK n \in 0 .. MaxListed : out \in [1 .. n -> S]
  BY DEF Printouts
<1>2. n \in Nat
  BY DiscoveryAssumption
<1> QED
  BY <1>1, <1>2

LEMMA MergeInit == DiscoveryInit => MergeInv
<1> SUFFICES ASSUME DiscoveryInit PROVE MergeInv
  OBVIOUS
<1>1. Pullable(lanIp)
  BY ServerLanIpIs DEF DiscoveryInit
<1>2. printed \in Printed /\ printed.avahi = <<>> /\ printed.sinks = <<>>
  BY DEF DiscoveryInit, Printed
<1> QED
  BY <1>1, <1>2, NothingFound DEF DiscoveryInit, MergeInv, Merged

LEMMA MergeBrowse ==
  ASSUME MergeInv, Browse
  PROVE  MergeInv'
<1>1. PICK out \in Printouts(Lines) :
        chromecasts' = Found(out) /\ printed' = [printed EXCEPT !.avahi = out]
  BY DEF Browse, Found
<1>2. printed' \in Printed /\ printed'.avahi = out
  BY <1>1, PrintoutsAre DEF MergeInv, Printed
<1> QED
  BY <1>1, <1>2 DEF MergeInv, Browse

LEMMA MergeListSinks ==
  ASSUME MergeInv, ListSinks
  PROVE  MergeInv'
<1>1. PICK out \in Printouts(SinkNames) :
        /\ offered' = [soundcard  |-> Cards(out),
                       airplay    |-> Receivers(out),
                       chromecast |-> chromecasts]
        /\ printed' = [printed EXCEPT !.sinks = out]
  BY DEF ListSinks, Cards, Receivers
<1>2. /\ printed' \in Printed
      /\ printed'.sinks = out /\ printed'.avahi = printed.avahi
  BY <1>1, PrintoutsAre DEF MergeInv, Printed
<1>3. Merged'
  BY <1>1, <1>2 DEF MergeInv, Merged
<1> QED
  BY <1>2, <1>3 DEF MergeInv, ListSinks

LEMMA MergeAlways == DiscoverySpec => []MergeInv
<1>1. MergeInv /\ [DiscoveryNext]_discoveryVars => MergeInv'
  <2> SUFFICES ASSUME MergeInv, [DiscoveryNext]_discoveryVars PROVE MergeInv'
    OBVIOUS
  <2>1. CASE Browse
    BY <2>1, MergeBrowse
  <2>2. CASE ListSinks
    BY <2>2, MergeListSinks
  <2>3. CASE UNCHANGED discoveryVars
    BY <2>3 DEF MergeInv, Merged, discoveryVars
  <2> QED
    BY <2>1, <2>2, <2>3 DEF DiscoveryNext
<1> QED
  BY <1>1, MergeInit, PTL DEF DiscoverySpec

(* Where a Chromecast that is offered is cast to, and what it is told to pull.  *)
LEMMA CastWell ==
  ASSUME MergeInv, Merged, NEW id, CastTo(id) # NoDevice
  PROVE  /\ BestAddress(CastTo(id).device, ParsedOf(printed.avahi))
         /\ CastTo(id).pull[1] # 127
         /\ SubSeq(CastTo(id).pull, 1, 2) # <<169, 254>>
<1> DEFINE found == Found(printed.avahi)
           matching == {i \in DOMAIN offered.chromecast : offered.chromecast[i].id = id}
<1>1. /\ lanIp # NoDevice /\ matching # {}
      /\ CastTo(id) = [device |-> offered.chromecast[Min(matching)], pull |-> lanIp]
  BY DEF CastTo
<1>2. offered.chromecast = found
  BY DEF Merged
<1>3. printed.avahi \in Seq(Lines)
  BY DEF MergeInv, Printed
<1>4. /\ DOMAIN found \in SUBSET Nat
      /\ \A i \in DOMAIN found : BestAddress(found[i], ParsedOf(printed.avahi))
  <2>1. found \in Seq({Chromecast(l) : l \in ParsedOf(printed.avahi)})
    BY <1>3, ChromecastsOnce
  <2>2. \A i \in DOMAIN found : BestAddress(found[i], ParsedOf(printed.avahi))
    BY <1>3, ChromecastsOnce
  <2> HIDE DEF found
  <2>3. DOMAIN found = 1 .. Len(found) /\ Len(found) \in Nat
    BY <2>1
  <2> QED
    BY <2>2, <2>3
<1>5. matching \in SUBSET Nat /\ matching \subseteq DOMAIN found
  BY <1>2, <1>4
<1>6. Min(matching) \in DOMAIN found
  <2> HIDE DEF matching, found
  <2> QED
    BY <1>1, <1>5, LeastPlace
<1>7. BestAddress(CastTo(id).device, ParsedOf(printed.avahi))
  <2>1. CastTo(id).device = found[Min(matching)]
    BY <1>1, <1>2
  <2> HIDE DEF matching, found
  <2> QED
    BY <1>4, <1>6, <2>1
<1>8. lanIp \in Seq(0 .. 255) /\ Usable(lanIp) /\ CastTo(id).pull = lanIp
  BY <1>1 DEF MergeInv, Pullable
<1>9. lanIp[1] # 127 /\ SubSeq(lanIp, 1, 2) # <<169, 254>>
  <2>1. lanIp[1] # 127 /\ ~ (lanIp[1] = 169 /\ lanIp[2] = 254) /\ Len(lanIp) = 4
    BY <1>8 DEF Usable
  <2> DEFINE start == SubSeq(lanIp, 1, 2)
  <2>2. start[1] = lanIp[1] /\ start[2] = lanIp[2]
    BY <1>8, <2>1
  <2> HIDE DEF start
  <2>3. start # <<169, 254>>
    BY <2>1, <2>2
  <2> QED
    BY <2>1, <2>3 DEF start
<1> QED
  BY <1>7, <1>8, <1>9

(* A device that was printed in several lines is offered once, and reached at  *)
(* the best address it announced (output/discovery.rs 20-41, 86-89, 298-308). *)
THEOREM MergedHolds == DiscoverySpec => []MergedOnce
<1>1. MergeInv => MergedOnce
  <2> SUFFICES ASSUME MergeInv, ~probing PROVE ChromecastsMerged /\ SinksMerged
    BY DEF MergedOnce
  <2>1. Merged
    BY DEF MergeInv
  <2>2. printed.avahi \in Seq(Lines) /\ printed.sinks \in Seq(SinkNames)
    BY DEF MergeInv, Printed
  <2>3. OnceEach(offered.chromecast, "id", {l.id : l \in ParsedOf(printed.avahi)})
    BY <2>1, <2>2, ChromecastsOnce DEF Merged
  <2>4. ChromecastsMerged
    BY <2>1, <2>3, CastWell DEF ChromecastsMerged, ParsedOf
  <2>5. /\ offered.airplay = Receivers(printed.sinks)
        /\ offered.soundcard = Cards(printed.sinks)
    BY <2>1 DEF Merged
  <2>6. /\ OnceEach(Receivers(printed.sinks), "name",
                  {Friendly(s) : s \in RaopOf(printed.sinks)})
        /\ \A i \in DOMAIN Receivers(printed.sinks) : \A s \in RaopOf(printed.sinks) :
             Friendly(s) = Receivers(printed.sinks)[i].name
               => Place(printed.sinks, Receivers(printed.sinks)[i].id)
                    <= Place(printed.sinks, s)
    BY <2>2, AirplayOnce
  <2>7. \A i \in DOMAIN Cards(printed.sinks) :
          Cards(printed.sinks)[i].id \in
            {s \in Range(printed.sinks) : s[1] \notin {"raop_sink.", "soundsync"}}
    BY <2>2, SoundcardsListed
  <2>8. SinksMerged
    <3>1. OnceEach(offered.airplay, "name", {Friendly(s) : s \in RaopOf(printed.sinks)})
      BY <2>5, <2>6, Zenon
    <3>2. \A i \in DOMAIN offered.airplay : \A s \in RaopOf(printed.sinks) :
            Friendly(s) = offered.airplay[i].name
              => Place(printed.sinks, offered.airplay[i].id) <= Place(printed.sinks, s)
      BY <2>5, <2>6, Zenon
    <3>3. \A i \in DOMAIN offered.soundcard : offered.soundcard[i].id \in
            {s \in Range(printed.sinks) : s[1] \notin {"raop_sink.", "soundsync"}}
      BY <2>5, <2>7, Zenon
    <3> QED
      BY <3>1, <3>2, <3>3, Zenon DEF SinksMerged, RaopOf, Place
  <2> QED
    BY <2>4, <2>8
<1> QED
  BY <1>1, MergeAlways, PTL
=============================================================================
