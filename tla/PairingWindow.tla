---------------------------- MODULE PairingWindow ----------------------------
(***************************************************************************)
(* The pairing window (bluetooth/pairing.rs): POST /api/pair opens it or    *)
(* extends it, POST /api/pair/close, its deadline or a shutdown close it.   *)
(* Each change is a D-Bus call for discoverable and one for pairable, both  *)
(* awaited and their failures ignored, while the commands go on coming, the  *)
(* adapter may be reset, and the process may crash or, asked to end, return  *)
(* from main without waiting for this task.                                *)
(***************************************************************************)
EXTENDS Naturals, Sequences

CONSTANTS
  Durations,    \* lengths of a window, clamped (30 to 3600 s in web/pairing.rs)
  QueueCap,     \* capacity of the command channel (16 in main.rs)
  MaxStarts,    \* bound: times the process is started
  Environments  \* the sets of faults among which a behaviour has one

(***************************************************************************)
(* "setterFails": a D-Bus call errs and changes nothing;                    *)
(* "reset":       the adapter comes back neither discoverable nor pairable; *)
(* "refused":     what else the service asks of the system fails;           *)
(* "renames":     users rename the adapter and open no window (BtService).   *)
(***************************************************************************)
FaultKinds == {"setterFails", "reset", "refused", "renames"}

ASSUME DurationsAssumption ==
  /\ Durations \subseteq Nat \ {0}
  /\ QueueCap \in Nat \ {0}
  /\ MaxStarts \in Nat \ {0}
  /\ Environments \subseteq SUBSET FaultKinds

(* PairingCommand: Open { duration } is its duration, Close is 0.           *)
Close    == 0
Commands == Durations \cup {Close}

VARIABLES
  pc,           \* the await the window is at
  duration,     \* duration of the Open being handled
  left,         \* time to the deadline
  discoverable, \* the adapter
  pairable,
  openState,    \* the open_state watch
  cmds,         \* accepted commands not yet received
  gone,         \* the command sender is dropped
  shutdown,
  starts,       \* times the process was started
  asked,        \* history: the last command accepted
  age,          \* history: time since the last Open took effect
  faults        \* the faults that may happen in this behaviour; never changes

adapter == <<discoverable, pairable>>
mailbox == <<cmds, gone, asked>>
timer   == <<duration, left, age>>
process == <<shutdown, starts>>
vars    == <<pc, timer, adapter, openState, mailbox, process, faults>>

Places == {"off", "off2", "closed", "on", "on2", "open", "again", "again2",
           "end", "end2", "done", "exited"}

TypeOK ==
  /\ pc \in Places
  /\ duration \in Durations \cup {0}
  /\ left \in UNION {0 .. d : d \in Durations \cup {0}}
  /\ discoverable \in BOOLEAN
  /\ pairable \in BOOLEAN
  /\ openState \in BOOLEAN
  /\ cmds \in Seq(Commands) /\ Len(cmds) <= QueueCap
  /\ gone \in BOOLEAN
  /\ shutdown \in BOOLEAN
  /\ starts \in 1 .. MaxStarts
  /\ asked \in Commands
  /\ age \in Nat
  /\ faults \in Environments

-----------------------------------------------------------------------------
(* POST /api/pair and /api/pair/close: try_send, a full channel is a 503.   *)

HasRoom == Len(cmds) < QueueCap

Submit(c) ==
  /\ pc \notin {"done", "exited"}
  /\ ~gone
  /\ HasRoom
  /\ cmds' = Append(cmds, c)
  /\ asked' = c
  /\ UNCHANGED <<pc, timer, adapter, openState, gone, process, faults>>

SenderDrops ==
  /\ ~gone
  /\ gone' = TRUE
  /\ UNCHANGED <<pc, timer, adapter, openState, cmds, asked, process, faults>>

RequestShutdown ==
  /\ ~shutdown
  /\ shutdown' = TRUE
  /\ UNCHANGED <<pc, timer, adapter, openState, mailbox, starts, faults>>

(* A crash, or main returns when asked to.                                  *)
Exit ==
  /\ pc # "exited"
  /\ shutdown \/ starts < MaxStarts
  /\ pc' = "exited"
  /\ openState' = FALSE
  /\ UNCHANGED <<timer, adapter, mailbox, process, faults>>

Start ==
  /\ pc = "exited"
  /\ starts < MaxStarts
  /\ starts' = starts + 1
  /\ pc' = "off"
  /\ cmds' = <<>>
  /\ gone' = FALSE
  /\ asked' = Close
  /\ shutdown' = FALSE
  /\ UNCHANGED <<timer, adapter, openState, faults>>

AdapterReset ==
  /\ "reset" \in faults
  /\ discoverable' = FALSE
  /\ pairable' = FALSE
  /\ UNCHANGED <<pc, timer, openState, mailbox, process, faults>>

(* The deadline comes nearer whatever the window is doing. Bound: age stops  *)
(* counting where it is past every duration.                               *)
Tick ==
  /\ pc \in {"open", "again", "again2"}
  /\ left > 0
  /\ left' = left - 1
  /\ age' = IF \E d \in Durations : age < d THEN age + 1 ELSE age
  /\ UNCHANGED <<pc, duration, adapter, openState, mailbox, process, faults>>

-----------------------------------------------------------------------------
(* The setters: `let _ = control.set_...(on).await`.                        *)

SetDiscoverable(on) ==
  discoverable' \in {on} \cup {discoverable : f \in faults \cap {"setterFails"}}

SetPairable(on) ==
  pairable' \in {on} \cup {pairable : f \in faults \cap {"setterFails"}}

(* A place whose await is set_discoverable, and the next.                   *)
Discoverable(from, to, on) ==
  /\ pc = from
  /\ SetDiscoverable(on)
  /\ pc' = to
  /\ UNCHANGED <<timer, pairable, openState, mailbox, process, faults>>

(* CLOSED is entered, or the window ends with the shutdown.                 *)
BeginOff == Discoverable("off", "off2", FALSE)
BeginEnd == Discoverable("end", "end2", FALSE)

Closed(from, to) ==
  /\ pc = from
  /\ SetPairable(FALSE)
  /\ openState' = FALSE
  /\ pc' = to
  /\ UNCHANGED <<timer, discoverable, mailbox, process, faults>>

EnterClosed == Closed("off2", "closed")
End         == Closed("end2", "done")

BeginOn    == Discoverable("on", "on2", TRUE)
BeginAgain == Discoverable("again", "again2", TRUE)

(* Variant: the re-opened window keeps its old deadline.                    *)
DeadlineStays == IF pc = "again2" THEN left ELSE duration

Deadline == duration

(* OPEN is entered or re-asserted; the deadline counts from here.           *)
EnterOpen ==
  /\ pc \in {"on2", "again2"}
  /\ SetPairable(TRUE)
  /\ openState' = TRUE
  /\ left' = Deadline
  /\ age' = 0
  /\ pc' = "open"
  /\ UNCHANGED <<duration, discoverable, mailbox, process, faults>>

-----------------------------------------------------------------------------
(* The selects: shutdown first, then the deadline, then commands (biased).  *)

Receive(c) ==
  /\ ~shutdown
  /\ cmds # <<>>
  /\ c = Head(cmds)
  /\ cmds' = Tail(cmds)
  /\ UNCHANGED <<left, age, adapter, openState, gone, asked, process,
                 faults>>

Open(d) ==
  /\ pc = "closed"
  /\ Receive(d)
  /\ duration' = d
  /\ pc' = "on"

IgnoreClose ==
  /\ pc = "closed"
  /\ Receive(Close)
  /\ UNCHANGED <<pc, duration>>

Reopen(d) ==
  /\ pc = "open"
  /\ left > 0
  /\ Receive(d)
  /\ duration' = d
  /\ pc' = "again"

CloseNow ==
  /\ pc = "open"
  /\ left > 0
  /\ Receive(Close)
  /\ pc' = "off"
  /\ UNCHANGED duration

(* Variant: an elapsed deadline is noticed with the next command only.      *)
ElapsedWithCommand == left = 0 /\ cmds # <<>>

Elapsed == left = 0

Expire ==
  /\ pc = "open"
  /\ ~shutdown
  /\ Elapsed
  /\ pc' = "off"
  /\ UNCHANGED <<timer, adapter, openState, mailbox, process, faults>>

SenderGone ==
  /\ pc \in {"closed", "open"}
  /\ pc = "open" => left > 0
  /\ ~shutdown
  /\ gone
  /\ cmds = <<>>
  /\ pc' = IF pc = "open" THEN "off" ELSE "done"
  /\ UNCHANGED <<timer, adapter, openState, mailbox, process, faults>>

(* Variant: the shutdown returns from an open window as from a closed one.  *)
ReturnAtOnce == pc' = "done"

CloseFirst == pc' = IF pc = "open" THEN "end" ELSE "done"

SeeShutdown ==
  /\ pc \in {"closed", "open"}
  /\ shutdown
  /\ CloseFirst
  /\ UNCHANGED <<timer, adapter, openState, mailbox, process, faults>>

-----------------------------------------------------------------------------
(* An earlier process may have left the adapter in any state.               *)
Init ==
  /\ pc = "off"
  /\ duration = 0
  /\ left = 0
  /\ discoverable \in BOOLEAN
  /\ pairable \in BOOLEAN
  /\ openState = FALSE
  /\ cmds = <<>>
  /\ gone = FALSE
  /\ shutdown = FALSE
  /\ starts = 1
  /\ asked = Close
  /\ age = 0
  /\ faults \in Environments

Window ==
  \/ BeginOff
  \/ EnterClosed
  \/ BeginEnd
  \/ End
  \/ BeginOn
  \/ BeginAgain
  \/ EnterOpen
  \/ \E d \in Durations : Open(d)
  \/ IgnoreClose
  \/ \E d \in Durations : Reopen(d)
  \/ CloseNow
  \/ Expire
  \/ SenderGone
  \/ SeeShutdown

Next ==
  \/ Window
  \/ Tick
  \/ \E c \in Commands : Submit(c)
  \/ SenderDrops
  \/ RequestShutdown
  \/ Exit
  \/ Start
  \/ AdapterReset

Spec == Init /\ [][Next]_vars

(* The task goes on and D-Bus calls return; time passes; systemd restarts   *)
(* a process that nobody stopped.                                          *)
FairSpec ==
  /\ Spec
  /\ WF_vars(Window)
  /\ WF_vars(Tick)
  /\ WF_vars(Start /\ ~shutdown)

-----------------------------------------------------------------------------
Rest == pc \in {"closed", "open"} /\ cmds = <<>> /\ ~shutdown

(* With every command handled, the window is what the last one made of it:   *)
(* not open after a Close, and closed after an Open only when the whole      *)
(* duration of that Open has passed since it took effect, however often the  *)
(* window was extended before.                                             *)
LastCommandWins ==
  Rest /\ ~gone =>
    IF pc = "open" THEN asked # Close ELSE asked # Close => age >= asked

(* pairing.rs:20 "The closed state always drives discoverable/pairable OFF": *)
(* a window that is closed, or ended with the shutdown, leaves the adapter   *)
(* neither discoverable nor pairable, whatever it was before, unless BlueZ   *)
(* refused.                                                                *)
ClosedIsOff ==
  pc \in {"closed", "done"} /\ "setterFails" \notin faults =>
    ~discoverable /\ ~pairable /\ ~openState

(* A window that nobody extends closes, and so does the adapter, even when   *)
(* the process that opened it crashed; only a stopped process may leave it   *)
(* on, because main does not wait for this task, or one that cannot start its  *)
(* service.                                                                *)
WindowExpires ==
  faults \cap {"setterFails", "refused"} = {} =>
    (openState \/ discoverable \/ pairable ~>
      \/ ~openState /\ ~discoverable /\ ~pairable
      \/ \E i \in DOMAIN cmds : cmds[i] # Close
      \/ shutdown /\ pc = "exited")
=============================================================================
