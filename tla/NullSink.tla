------------------------------ MODULE NullSink ------------------------------
(***************************************************************************)
(* The capture null sink (audio/pw/null_sink.rs): ensure_null_sink reuses   *)
(* or creates it with a handful of pactl calls, and is called from three    *)
(* places of daemon.rs: once at startup, followed by the sweep of           *)
(* duplicates, then by the reconcile loop on graph events and by the admin  *)
(* restart. The last two share one task (tokio::join!), so they interleave  *)
(* only where ensure_null_sink sleeps between two attempts to load the      *)
(* module; PipeWire changes whenever it likes.                             *)
(***************************************************************************)
EXTENDS Naturals, FiniteSets

CONSTANTS
  ModuleIds,    \* ids of module-null-sink instances named soundsync-capture
  None,
  MAX_ATTEMPTS, \* attempts to load the module (10 in the code)
  Environments  \* the sets of faults among which a behaviour has one

(***************************************************************************)
(* "serverRestart": pipewire-pulse restarts, and every module is gone;      *)
(* "nodeLost":      a module stays loaded while its node is gone (NF-6);    *)
(* "listFails":     a `pactl list` fails;                                   *)
(* "refused":       a load-module, unload-module or set-default-sink is      *)
(*                  refused;                                                *)
(* "timedOut":      a load-module times out, executed or not;               *)
(* "deadLeft":      an earlier run left a module without a node;            *)
(* "admin":         POST /api/admin/restart is used.                        *)
(***************************************************************************)
FaultKinds == {"serverRestart", "nodeLost", "listFails", "refused", "timedOut",
               "deadLeft", "admin"}

(* Who calls ensure_null_sink.                                             *)
Callers == {"startup", "reconcile", "admin"}

ASSUME ConstantsAssumption ==
  /\ ModuleIds \subseteq Nat
  /\ None \notin ModuleIds
  /\ None \notin Callers
  /\ MAX_ATTEMPTS \in Nat \ {0}
  /\ Environments \subseteq SUBSET FaultKinds

VARIABLES
  pc,        \* the pactl call each caller is at
  found,     \* module id the caller found or loaded
  attempt,   \* the caller's attempts so far
  loaded,    \* loaded_by_us
  running,   \* the caller that has the task, None while all of them sleep
  todo,      \* duplicates the sweep has yet to unload
  phase,     \* run_daemon: starting, running, failed, stopped
  modules,   \* PipeWire: each module absent, or loaded with a live or no node
  server,    \* does pipewire-pulse answer?
  listening, \* `pactl subscribe` is connected
  events,    \* graph events not yet received by the reconcile loop
  faults     \* the faults that may happen in this behaviour; never changes

callVars == <<pc, found, attempt, loaded, running, todo, phase>>
pwVars   == <<modules, server, listening, events>>
vars     == <<callVars, pwVars, faults>>

States == {"absent", "live", "dead"}
Calls  == {"idle", "find", "check", "unload", "load", "sleep", "verify",
           "recover", "sweep", "route"}

TypeOK ==
  /\ pc \in [Callers -> Calls]
  /\ found \in [Callers -> ModuleIds \cup {None}]
  /\ attempt \in [Callers -> 1 .. MAX_ATTEMPTS]
  /\ loaded \in [Callers -> BOOLEAN]
  /\ running \in Callers \cup {None}
  /\ todo \in SUBSET ModuleIds
  /\ phase \in {"starting", "running", "failed", "stopped"}
  /\ modules \in [ModuleIds -> States]
  /\ server \in BOOLEAN
  /\ listening \in BOOLEAN
  /\ events \in BOOLEAN
  /\ faults \in Environments

Loaded == {m \in ModuleIds : modules[m] # "absent"}
Live   == {m \in ModuleIds : modules[m] = "live"}

-----------------------------------------------------------------------------
(* PipeWire and `pactl subscribe`.                                         *)

(* A change of the graph is an event for a subscriber that is connected.    *)
Notify == events' = (events \/ listening)

ServerRestarts ==
  /\ "serverRestart" \in faults
  /\ server
  /\ server' = FALSE
  /\ listening' = FALSE
  /\ modules' = [m \in ModuleIds |-> "absent"]
  /\ UNCHANGED <<callVars, events, faults>>

ServerReady ==
  /\ ~server
  /\ server' = TRUE
  /\ UNCHANGED <<callVars, modules, listening, events, faults>>

(* The supervisor restarts run_event_source once the server answers; what   *)
(* changed before is no event.                                             *)
Subscribe ==
  /\ phase = "running"
  /\ server
  /\ ~listening
  /\ listening' = TRUE
  /\ UNCHANGED <<callVars, modules, server, events, faults>>

NodeLost ==
  /\ "nodeLost" \in faults
  /\ \E m \in Live : modules' = [modules EXCEPT ![m] = "dead"]
  /\ Notify
  /\ UNCHANGED <<callVars, server, listening, faults>>

Unload(id) ==
  \/ /\ server
     /\ modules' = [modules EXCEPT ![id] = "absent"]
     /\ Notify
  \/ /\ ~server \/ "refused" \in faults
     /\ UNCHANGED <<modules, events>>

ListFails == ~server \/ "listFails" \in faults

-----------------------------------------------------------------------------
(* ensure_null_sink, one action per pactl call. A step of a caller keeps    *)
(* the task (running) until it sleeps or returns.                          *)

Step(c, from) == running = c /\ pc[c] = from
Goto(c, to)   == pc' = [pc EXCEPT ![c] = to]

(* Ok(NullSink): at startup the sweep follows when an id is known, then the *)
(* default sink; the other callers set the default sink and are through.    *)
Succeed(c) ==
  IF c = "startup"
  THEN /\ Goto(c, IF found'[c] = None THEN "route" ELSE "sweep")
       /\ UNCHANGED <<running, phase>>
  ELSE /\ Goto(c, "idle")
       /\ running' = None
       /\ UNCHANGED phase

(* Err: fatal at startup, logged by the other callers.                     *)
Fail(c) ==
  /\ Goto(c, "idle")
  /\ running' = None
  /\ phase' = IF c = "startup" THEN "failed" ELSE phase

(* parse_null_sink_module_id returns the first module of the name.          *)
FirstLoaded == CHOOSE m \in Loaded : \A n \in Loaded : m <= n

FindExisting(c) ==
  /\ Step(c, "find")
  /\ \/ /\ server
        /\ Loaded # {}
        /\ found' = [found EXCEPT ![c] = FirstLoaded]
        /\ Goto(c, "check")
     \/ /\ Loaded = {} \/ ListFails
        /\ found' = [found EXCEPT ![c] = None]
        /\ Goto(c, "load")
  /\ attempt' = [attempt EXCEPT ![c] = 1]
  /\ loaded' = [loaded EXCEPT ![c] = FALSE]
  /\ UNCHANGED <<running, todo, phase, pwVars, faults>>

(* Variant: the module record is proof enough (before NF-6).                *)
RecordSuffices == TRUE

(* `pactl list short sinks` lists a node of the name, of whichever module.   *)
NodeListed == Live # {}

(* The module is there: is a node of its name?                             *)
NodePresent(c) ==
  /\ Step(c, "check")
  /\ server /\ NodeListed
  /\ UNCHANGED found
  /\ Succeed(c)
  /\ UNCHANGED <<attempt, loaded, todo, pwVars, faults>>

NodeAbsent(c) ==
  /\ Step(c, "check")
  /\ server /\ ~NodeListed
  /\ Goto(c, "unload")
  /\ UNCHANGED <<found, attempt, loaded, running, todo, phase, pwVars, faults>>

(* Variant: a list that failed is taken for an absent node (before NF-6).   *)
UnverifiedIsAbsent(c) ==
  /\ Goto(c, "unload")
  /\ UNCHANGED <<found, running, phase>>

UnverifiedIsKept(c) ==
  /\ UNCHANGED found
  /\ Succeed(c)

NodeUnverified(c) ==
  /\ Step(c, "check")
  /\ ListFails
  /\ UnverifiedIsKept(c)
  /\ UNCHANGED <<attempt, loaded, todo, pwVars, faults>>

UnloadStale(c) ==
  /\ Step(c, "unload")
  /\ Unload(found[c])
  /\ found' = [found EXCEPT ![c] = None]
  /\ Goto(c, "load")
  /\ UNCHANGED <<attempt, loaded, running, todo, phase, server,
                 listening, faults>>

Load(c) ==
  /\ Step(c, "load")
  /\ server
  /\ \E m \in ModuleIds \ Loaded :
       /\ modules' = [modules EXCEPT ![m] = "live"]
       /\ found' = [found EXCEPT ![c] = m]
  /\ Notify
  /\ loaded' = [loaded EXCEPT ![c] = TRUE]
  /\ Goto(c, "verify")
  /\ UNCHANGED <<attempt, running, todo, phase, server, listening, faults>>

AttemptsLeft(c) == attempt[c] < MAX_ATTEMPTS

(* load-module answered with an error: sleep and retry, MAX_ATTEMPTS times. *)
LoadRefused(c) ==
  /\ Step(c, "load")
  /\ ~server \/ "refused" \in faults
  /\ IF AttemptsLeft(c)
     THEN /\ Goto(c, "sleep")
          /\ attempt' = [attempt EXCEPT ![c] = @ + 1]
          /\ running' = None
     ELSE /\ Goto(c, "verify")
          /\ UNCHANGED <<attempt, running>>
  /\ UNCHANGED <<found, loaded, todo, phase, pwVars, faults>>

(* The call itself fails: no retry, executed or not.                       *)
LoadTimedOut(c) ==
  /\ Step(c, "load")
  /\ "timedOut" \in faults
  /\ \/ /\ server
        /\ \E m \in ModuleIds \ Loaded : modules' = [modules EXCEPT ![m] = "live"]
        /\ Notify
     \/ UNCHANGED <<modules, events>>
  /\ Fail(c)
  /\ UNCHANGED <<found, attempt, loaded, todo, server, listening, faults>>

Wake(c) ==
  /\ running = None
  /\ pc[c] = "sleep"
  /\ running' = c
  /\ Goto(c, "load")
  /\ UNCHANGED <<found, attempt, loaded, todo, phase, pwVars, faults>>

Verified(c) ==
  /\ Step(c, "verify")
  /\ server /\ Live # {}
  /\ UNCHANGED found
  /\ IF found[c] # None
     THEN Succeed(c)
     ELSE Goto(c, "recover") /\ UNCHANGED <<running, phase>>
  /\ UNCHANGED <<attempt, loaded, todo, pwVars, faults>>

(* An id that load-module did not give is looked up once more. That may fail *)
(* or find nothing: there is a sink, and no id of it.                       *)
FindAgain(c) ==
  /\ Step(c, "recover")
  /\ \/ /\ server
        /\ Loaded # {}
        /\ found' = [found EXCEPT ![c] = FirstLoaded]
     \/ /\ Loaded = {} \/ ListFails
        /\ found' = [found EXCEPT ![c] = None]
  /\ Succeed(c)
  /\ UNCHANGED <<attempt, loaded, todo, pwVars, faults>>

NotVerified(c) ==
  /\ Step(c, "verify")
  /\ Live = {} \/ ListFails
  /\ Fail(c)
  /\ UNCHANGED <<found, attempt, loaded, todo, pwVars, faults>>

-----------------------------------------------------------------------------
(* Startup only: the sweep, then the default sink.                          *)

(* Variants: no sweep (before W2.1).                                       *)
NothingToSweep(c) == {}

Duplicates(c) == Loaded \ {found[c]}

Sweep(c) ==
  /\ Step(c, "sweep")
  /\ \/ server /\ todo' = Duplicates(c)
     \/ ListFails /\ todo' = {}
  /\ Goto(c, "route")
  /\ UNCHANGED <<found, attempt, loaded, running, phase, pwVars, faults>>

SweepOne(c) ==
  /\ Step(c, "route")
  /\ \E d \in todo : Unload(d) /\ todo' = todo \ {d}
  /\ UNCHANGED <<pc, found, attempt, loaded, running, phase, server,
                 listening, faults>>

(* set_default_sink needs a sink of the name, and may be refused; its error  *)
(* is fatal.                                                               *)
RouteDefault(c) ==
  /\ Step(c, "route")
  /\ todo = {}
  /\ Goto(c, "idle")
  /\ running' = None
  /\ \/ server /\ Live # {} /\ phase' = "running"
     \/ (~server \/ Live = {} \/ "refused" \in faults) /\ phase' = "failed"
  /\ UNCHANGED <<found, attempt, loaded, todo, pwVars, faults>>

-----------------------------------------------------------------------------
(* The process and its loops.                                              *)

(* A graph event starts a reconcile.                                       *)
StartReconcile ==
  /\ phase = "running"
  /\ running = None
  /\ pc["reconcile"] = "idle"
  /\ events
  /\ events' = FALSE
  /\ running' = "reconcile"
  /\ Goto("reconcile", "find")
  /\ UNCHANGED <<found, attempt, loaded, todo, phase, modules, server,
                 listening, faults>>

(* POST /api/admin/restart.                                                *)
StartAdmin ==
  /\ "admin" \in faults
  /\ phase = "running"
  /\ running = None
  /\ pc["admin"] = "idle"
  /\ running' = "admin"
  /\ Goto("admin", "find")
  /\ UNCHANGED <<found, attempt, loaded, todo, phase, pwVars, faults>>

(* Shutdown is seen where a caller sleeps or none runs; the sink stays.      *)
Stop ==
  /\ phase \in {"starting", "running"}
  /\ running = None
  /\ phase' = "stopped"
  /\ pc' = [c \in Callers |-> "idle"]
  /\ UNCHANGED <<found, attempt, loaded, running, todo, pwVars, faults>>

(* systemd starts the process again.                                       *)
Restart ==
  /\ phase \in {"failed", "stopped"}
  /\ phase' = "starting"
  /\ running' = "startup"
  /\ Goto("startup", "find")
  /\ listening' = FALSE
  /\ events' = FALSE
  /\ todo' = {}
  /\ UNCHANGED <<found, attempt, loaded, modules, server, faults>>

-----------------------------------------------------------------------------
Init ==
  /\ pc = [c \in Callers |-> IF c = "startup" THEN "find" ELSE "idle"]
  /\ found = [c \in Callers |-> None]
  /\ attempt = [c \in Callers |-> 1]
  /\ loaded = [c \in Callers |-> FALSE]
  /\ running = "startup"
  /\ todo = {}
  /\ phase = "starting"
  /\ faults \in Environments
  /\ modules \in [ModuleIds -> States \ {"dead" : f \in {"deadLeft"} \ faults}]
  /\ server = TRUE
  /\ listening = FALSE
  /\ events = FALSE

Ensure(c) ==
  \/ FindExisting(c)
  \/ NodePresent(c)
  \/ NodeAbsent(c)
  \/ NodeUnverified(c)
  \/ UnloadStale(c)
  \/ Load(c)
  \/ LoadRefused(c)
  \/ LoadTimedOut(c)
  \/ Wake(c)
  \/ Verified(c)
  \/ FindAgain(c)
  \/ NotVerified(c)
  \/ Sweep(c)
  \/ SweepOne(c)
  \/ RouteDefault(c)

Next ==
  \/ \E c \in Callers : Ensure(c)
  \/ ServerRestarts
  \/ ServerReady
  \/ Subscribe
  \/ NodeLost
  \/ StartReconcile
  \/ StartAdmin
  \/ Stop
  \/ Restart

Spec == Init /\ [][Next]_vars

(* The task goes on, systemd restarts what ended, pipewire-pulse comes back. *)
FairSpec ==
  /\ Spec
  /\ \A c \in Callers : WF_vars(Ensure(c))
  /\ WF_vars(ServerReady)
  /\ WF_vars(Subscribe)
  /\ WF_vars(StartReconcile)
  /\ WF_vars(Restart)

-----------------------------------------------------------------------------
(* Once the process is started, no two null sinks of the name have a node.   *)
NeverTwoSinks == phase = "running" => Cardinality(Live) <= 1

(* Leftovers are swept and a sink that exists is reused, so there is one at  *)
(* most, if pactl answers what it is asked and nobody uses admin restart.   *)
OneNullSink ==
  faults \subseteq {"serverRestart", "nodeLost", "deadLeft"} => NeverTwoSinks

(* No step of the code takes the last live null sink away, be it taken for   *)
(* a stale one or for a duplicate, unless a module without a node stands     *)
(* before it in the list.                                                  *)
KeepsLiveSink ==
  [][/\ faults \cap {"deadLeft", "nodeLost"} = {}
     /\ callVars' # callVars
     /\ Live # {}
     => Live' # {}]_vars

(* A null sink whose node was lost is brought back if the loss left an event *)
(* unread, or the process ended, as long as pactl answers.                  *)
LossHealed ==
  /\ faults \subseteq {"nodeLost", "admin"}
  /\ phase = "running" /\ Live = {} /\ events
  ~> Live # {} \/ phase # "running"
=============================================================================
