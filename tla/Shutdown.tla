------------------------------ MODULE Shutdown ------------------------------
(***************************************************************************)
(* How the process ends (main.rs): main polls three futures in one select,  *)
(* on one task: the daemon, the shutdown backstop, and the supervisor of    *)
(* the critical tasks. The daemon runs its pactl calls synchronously, so    *)
(* nothing of the select is polled while one of them hangs; and the first   *)
(* future to complete drops the other two before its arm runs. Beside main  *)
(* run the critical tasks, the two units the daemon supervises, the signal  *)
(* handler, and systemd with its patience. Time is counted in seconds.      *)
(***************************************************************************)
EXTENDS Naturals, FiniteSets

CONSTANTS
  Critical,        \* the tasks whose JoinHandles the supervisor watches
  Kids,            \* the tasks run_daemon spawned: capture, events
  BACKSTOP,        \* DEFAULT_SHUTDOWN_TIMEOUT_SECS
  TimeoutStopSec,  \* of the systemd unit
  COMMAND_TIMEOUT, \* of one helper call
  MaxCalls,        \* helper calls that follow each other without an await
  Faults           \* what may go wrong in this instance

(***************************************************************************)
(* "dies":      a critical task ends by itself;                            *)
(* "wedged":    helper calls hang until they time out;                      *)
(* "stuck":     a unit takes its time to end;                              *)
(* "fails":     the first bring-up fails;                                  *)
(* "noSignals": the SIGTERM handler cannot be installed.                    *)
(***************************************************************************)
FaultKinds == {"dies", "wedged", "stuck", "fails", "noSignals"}

ASSUME ConstantsAssumption ==
  /\ IsFiniteSet(Critical)
  /\ Critical # {}
  /\ BACKSTOP \in Nat \ {0}
  /\ TimeoutStopSec \in Nat \ {0}
  /\ COMMAND_TIMEOUT \in Nat
  /\ MaxCalls \in Nat \ {0}
  /\ Faults \subseteq FaultKinds

VARIABLES
  main,       \* the select, or the arm that parks
  daemon,     \* run_daemon: setup, bringUp, loops, joining
  supervisor, \* the supervisor future: watching, yielded
  blocked,    \* seconds the main task is still inside helper calls
  armed,      \* the backstop has seen the request
  timer,      \* seconds the backstop still grants
  shutdown,   \* the shutdown watch
  sender,     \* the sender of the watch exists
  age,        \* seconds since the request
  ended,      \* critical tasks that ended
  died,       \* history: those that ended before anybody asked them to
  kids,       \* each supervised unit: none, up, ended
  exit        \* how the process ended

vars == <<main, daemon, supervisor, blocked, armed, timer, shutdown, sender,
          age, ended, died, kids, exit>>

TypeOK ==
  /\ main \in {"select", "parked"}
  /\ daemon \in {"setup", "bringUp", "loops", "joining"}
  /\ supervisor \in {"watching", "yielded"}
  /\ blocked \in 0 .. MaxCalls * COMMAND_TIMEOUT
  /\ armed \in BOOLEAN
  /\ timer \in 0 .. BACKSTOP
  /\ shutdown \in BOOLEAN
  /\ sender \in BOOLEAN
  /\ age \in 0 .. TimeoutStopSec
  /\ ended \in SUBSET Critical
  /\ died \in SUBSET ended
  /\ kids \in [Kids -> {"none", "up", "ended"}]
  /\ exit \in {"none", "clean", "error", "fatal", "forced", "killed"}

Alive  == exit = "none"
Polled == Alive /\ main = "select" /\ blocked = 0

(* wait_for_shutdown: a sender that is gone counts as a request.            *)
Requested == shutdown \/ ~sender

-----------------------------------------------------------------------------
(* The signal handler.                                                     *)

Signal ==
  /\ Alive
  /\ sender
  /\ ~shutdown
  /\ shutdown' = TRUE
  /\ UNCHANGED <<main, daemon, supervisor, blocked, armed, timer, sender, age,
                 ended, died, kids, exit>>

NoSignals ==
  /\ Alive
  /\ "noSignals" \in Faults
  /\ ~shutdown
  /\ sender' = FALSE
  /\ UNCHANGED <<main, daemon, supervisor, blocked, armed, timer, shutdown,
                 age, ended, died, kids, exit>>

-----------------------------------------------------------------------------
(* The tasks beside main.                                                  *)

TaskEnds(t) ==
  /\ Alive
  /\ t \notin ended
  /\ Requested \/ "dies" \in Faults
  /\ ended' = ended \cup {t}
  /\ died' = IF Requested THEN died ELSE died \cup {t}
  /\ UNCHANGED <<main, daemon, supervisor, blocked, armed, timer, shutdown,
                 sender, age, kids, exit>>

(* A unit that stops is restarted; its supervisor ends on shutdown or abort. *)
KidEnds(k) ==
  /\ Alive
  /\ kids[k] = "up"
  /\ Requested \/ daemon = "joining"
  /\ kids' = [kids EXCEPT ![k] = "ended"]
  /\ UNCHANGED <<main, daemon, supervisor, blocked, armed, timer, shutdown,
                 sender, age, ended, died, exit>>

-----------------------------------------------------------------------------
(* run_daemon, polled by main.                                             *)

(* Up to n helper calls one after the other: each is instantaneous, or hangs *)
(* until it times out.                                                     *)
Helpers(n) ==
  \E hung \in 0 .. IF "wedged" \in Faults THEN n ELSE 0 :
    blocked' = hung * COMMAND_TIMEOUT

(* The capture tool and the quantum are probed before any select.           *)
Setup ==
  /\ Polled
  /\ daemon = "setup"
  /\ daemon' = "bringUp"
  /\ Helpers(1)
  /\ UNCHANGED <<main, supervisor, armed, timer, shutdown, sender, age, ended,
                 died, kids, exit>>

(* An attempt to bring the graph up, or a reconcile: the select that starts  *)
(* it looks at shutdown first.                                             *)
RunHelpers ==
  /\ Polled
  /\ daemon \in {"bringUp", "loops"}
  /\ ~Requested
  /\ Helpers(MaxCalls)
  /\ UNCHANGED <<main, daemon, supervisor, armed, timer, shutdown, sender, age,
                 ended, died, kids, exit>>

BroughtUp ==
  /\ Polled
  /\ daemon = "bringUp"
  /\ ~Requested
  /\ daemon' = "loops"
  /\ kids' = [k \in Kids |-> "up"]
  /\ UNCHANGED <<main, supervisor, blocked, armed, timer, shutdown, sender,
                 age, ended, died, exit>>

BringUpFails ==
  /\ Polled
  /\ daemon \in {"setup", "bringUp"}
  /\ "fails" \in Faults
  /\ exit' = "error"
  /\ UNCHANGED <<main, daemon, supervisor, blocked, armed, timer, shutdown,
                 sender, age, ended, died, kids>>

StopsInBringUp ==
  /\ Polled
  /\ daemon = "bringUp"
  /\ Requested
  /\ exit' = "clean"
  /\ UNCHANGED <<main, daemon, supervisor, blocked, armed, timer, shutdown,
                 sender, age, ended, died, kids>>

(* Both loops return, and the units are aborted.                           *)
LoopsEnd ==
  /\ Polled
  /\ daemon = "loops"
  /\ Requested
  /\ daemon' = "joining"
  /\ UNCHANGED <<main, supervisor, blocked, armed, timer, shutdown, sender,
                 age, ended, died, kids, exit>>

KidsEnded == \A k \in Kids : kids[k] = "ended"

(* run_daemon returns, and main with it.                                   *)
DaemonReturns ==
  /\ Polled
  /\ daemon = "joining"
  /\ KidsEnded
  /\ exit' = "clean"
  /\ UNCHANGED <<main, daemon, supervisor, blocked, armed, timer, shutdown,
                 sender, age, ended, died, kids>>

-----------------------------------------------------------------------------
(* The backstop.                                                           *)

ArmedBy == shutdown

Arm ==
  /\ Polled
  /\ ~armed
  /\ ArmedBy
  /\ armed' = TRUE
  /\ timer' = BACKSTOP
  /\ UNCHANGED <<main, daemon, supervisor, blocked, shutdown, sender, age,
                 ended, died, kids, exit>>

ForceExit ==
  /\ Polled
  /\ armed
  /\ timer = 0
  /\ exit' = "forced"
  /\ UNCHANGED <<main, daemon, supervisor, blocked, armed, timer, shutdown,
                 sender, age, ended, died, kids>>

-----------------------------------------------------------------------------
(* The supervisor of the critical tasks.                                   *)

(* Variant: one JoinHandle was forgotten.                                  *)
WatchedButOne == Critical \ {CHOOSE t \in Critical : TRUE}

Watched == Critical

SeesEnd ==
  /\ Polled
  /\ supervisor = "watching"
  /\ ended \cap Watched # {}
  /\ supervisor' = "yielded"
  /\ UNCHANGED <<main, daemon, blocked, armed, timer, shutdown, sender, age,
                 ended, died, kids, exit>>

(* Variant: the flag is read before the end of the task was seen.           *)
FlagReadEarly == FALSE

FlagReread == shutdown

(* After the yield the flag is read again: Fatal exits; Expected parks in    *)
(* its arm, and by then select has dropped the two other futures.           *)
Classify ==
  /\ Polled
  /\ supervisor = "yielded"
  /\ IF FlagReread
     THEN main' = "parked" /\ UNCHANGED exit
     ELSE exit' = "fatal" /\ UNCHANGED main
  /\ UNCHANGED <<daemon, supervisor, blocked, armed, timer, shutdown, sender,
                 age, ended, died, kids>>

-----------------------------------------------------------------------------
(* Time. What main can do at once, and the end of a unit that was asked to  *)
(* end, do not take a second.                                              *)

Pending ==
  \/ /\ Polled
     /\ \/ daemon = "setup"
        \/ daemon \in {"bringUp", "loops"} /\ Requested
        \/ daemon = "joining" /\ KidsEnded
        \/ supervisor = "watching" /\ ended \cap Watched # {}
        \/ supervisor = "yielded"
        \/ ArmedBy /\ ~armed
        \/ armed /\ timer = 0
  \/ /\ "stuck" \notin Faults
     /\ \E k \in Kids : kids[k] = "up" /\ Requested

Less(n) == IF n = 0 THEN 0 ELSE n - 1

Tick ==
  /\ Alive
  /\ ~Pending
  /\ age < TimeoutStopSec
  /\ age' = IF shutdown THEN age + 1 ELSE 0
  /\ blocked' = Less(blocked)
  /\ timer' = IF armed THEN Less(timer) ELSE timer
  /\ UNCHANGED <<main, daemon, supervisor, armed, shutdown, sender, ended,
                 died, kids, exit>>

(* systemd escalates to SIGKILL.                                           *)
Kill ==
  /\ Alive
  /\ age = TimeoutStopSec
  /\ exit' = "killed"
  /\ UNCHANGED <<main, daemon, supervisor, blocked, armed, timer, shutdown,
                 sender, age, ended, died, kids>>

-----------------------------------------------------------------------------
Init ==
  /\ main = "select"
  /\ daemon = "setup"
  /\ supervisor = "watching"
  /\ blocked = 0
  /\ armed = FALSE
  /\ timer = BACKSTOP
  /\ shutdown = FALSE
  /\ sender = TRUE
  /\ age = 0
  /\ ended = {}
  /\ died = {}
  /\ kids = [k \in Kids |-> "none"]
  /\ exit = "none"

Daemon == Setup \/ BroughtUp \/ StopsInBringUp \/ LoopsEnd \/ DaemonReturns

Watchdogs == Arm \/ ForceExit \/ SeesEnd \/ Classify

Next ==
  \/ Signal
  \/ NoSignals
  \/ \E t \in Critical : TaskEnds(t)
  \/ \E k \in Kids : KidEnds(k)
  \/ Daemon
  \/ RunHelpers
  \/ BringUpFails
  \/ Watchdogs
  \/ Tick
  \/ Kill

Spec == Init /\ [][Next]_vars

(* Units end when asked to, time passes, and the select polls each of its    *)
(* futures again and again, in between the helper calls of the daemon.       *)
Fairness ==
  /\ \A k \in Kids : WF_vars(KidEnds(k))
  /\ WF_vars(Tick)
  /\ WF_vars(Kill)
  /\ SF_vars(Daemon)
  /\ SF_vars(Watchdogs)

FairSpec == Spec /\ Fairness

-----------------------------------------------------------------------------
(* The backstop ends only a process that was asked to end: its time runs    *)
(* from the request, however long the process served before.               *)
NeverForcedInService == exit = "forced" => shutdown

(* main.rs:317-323: the backstop times the teardown, which has all the time it  *)
(* grants from the request on, however late the backstop came to see that.     *)
GraceGiven == exit = "forced" => age >= BACKSTOP

(* What main may spend in helper calls that follow each other.               *)
LongestHang == IF "wedged" \in Faults THEN MaxCalls * COMMAND_TIMEOUT ELSE 0

(* main.rs:309-313: the backstop ends the process before systemd kills it, if *)
(* systemd waits for longer than it and the helper calls it is not polled in: *)
(* only a main that parked itself, with its backstop dropped, is killed.      *)
KilledOnlyParked ==
  TimeoutStopSec > LongestHang + BACKSTOP => (exit = "killed" => main = "parked")

(* NF-2: the process makes itself fatal only when a critical task really     *)
(* ended by itself, never because tasks end in the course of a shutdown.     *)
FatalIsReal == exit = "fatal" => died # {} \/ ~sender

(* NF-2: a critical task that ended by itself ends the process, unless a      *)
(* shutdown is asked for before that is seen.                              *)
DeathIsFatal == died # {} ~> ~Alive \/ shutdown

(* main.rs:426 "Fall through to let the clean daemon path + backstop own     *)
(* teardown": a request ends the process before systemd kills it.           *)
CleanPathOwns == shutdown ~> exit \in {"clean", "error", "fatal", "forced"}
=============================================================================
