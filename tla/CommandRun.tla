----------------------------- MODULE CommandRun -----------------------------
(***************************************************************************)
(* One helper call (SystemCommandRunner of sys/command.rs): the child writes  *)
(* into pipes that nobody reads before it exited, while the caller polls for  *)
(* its end until the timeout. Time is counted in polls.                      *)
(***************************************************************************)
EXTENDS Naturals

CONSTANTS
  PIPE,     \* what a pipe holds
  OUTPUT,   \* bound: what a child writes at most
  TIMEOUT   \* command_timeout, in polls

ASSUME CallAssumption == PIPE \in Nat /\ OUTPUT \in Nat /\ TIMEOUT \in Nat \ {0}

VARIABLES
  call,      \* the caller: idle, polling, killing, draining, and how it returned
  child,     \* the child: none, running, wedged, exited, reaped
  unwritten, \* what the child has still to write
  pipe,      \* what is in the pipe
  heir,      \* a process that the child started holds the pipe
  polls      \* polls since the spawn

callVars == <<call, child, unwritten, pipe, heir, polls>>

Returned == {"output", "timedOut", "spawnFailed"}

-----------------------------------------------------------------------------
(* The child.                                                              *)

ChildWrites ==
  /\ child = "running"
  /\ unwritten > 0
  /\ pipe < PIPE
  /\ pipe' = pipe + 1
  /\ unwritten' = unwritten - 1
  /\ UNCHANGED <<call, child, heir, polls>>

Wedge ==
  /\ child = "running"
  /\ child' = "wedged"
  /\ UNCHANGED <<call, unwritten, pipe, heir, polls>>

ChildExits ==
  /\ child = "running"
  /\ unwritten = 0
  /\ child' = "exited"
  /\ UNCHANGED <<call, unwritten, pipe, heir, polls>>

-----------------------------------------------------------------------------
(* The caller.                                                             *)

Spawn ==
  /\ call = "idle"
  /\ \/ /\ call' = "polling"
        /\ child' = "running"
        /\ unwritten' \in 0 .. OUTPUT
        /\ heir' \in BOOLEAN
     \/ call' = "spawnFailed" /\ UNCHANGED <<child, unwritten, heir>>
  /\ UNCHANGED <<pipe, polls>>

(* Variant: at the deadline the pipes are read before the child is killed.   *)
DrainAtDeadline == call' = "draining" /\ UNCHANGED child

KillAtDeadline == call' = "killing" /\ child' = "exited"

TryWait ==
  /\ call = "polling"
  /\ \/ child = "exited" /\ call' = "draining" /\ UNCHANGED <<child, polls>>
     \/ /\ child # "exited"
        /\ polls < TIMEOUT
        /\ polls' = polls + 1
        /\ UNCHANGED <<call, child>>
     \/ child # "exited" /\ polls >= TIMEOUT /\ KillAtDeadline /\ UNCHANGED polls
  /\ UNCHANGED <<unwritten, pipe, heir>>

Reap ==
  /\ call = "killing"
  /\ child' = "reaped"
  /\ call' = "timedOut"
  /\ UNCHANGED <<unwritten, pipe, heir, polls>>

(* wait_with_output reads to the end of the file, which comes when nobody     *)
(* holds the pipe any more.                                                *)
Drain ==
  /\ call = "draining"
  /\ \/ pipe > 0 /\ pipe' = pipe - 1 /\ UNCHANGED <<call, child>>
     \/ /\ pipe = 0
        /\ child = "exited"
        /\ ~heir
        /\ child' = "reaped"
        /\ call' = "output"
        /\ UNCHANGED pipe
  /\ UNCHANGED <<unwritten, heir, polls>>

CallInit ==
  /\ call = "idle"
  /\ child = "none"
  /\ unwritten = 0
  /\ pipe = 0
  /\ heir = FALSE
  /\ polls = 0

CallNext == ChildWrites \/ Wedge \/ ChildExits \/ Spawn \/ TryWait \/ Reap \/ Drain

(* The caller's thread goes on; nothing is assumed of the child.             *)
CallFairness == WF_callVars(TryWait) /\ WF_callVars(Reap) /\ WF_callVars(Drain)

-----------------------------------------------------------------------------
(* command.rs:61-66: what is returned as output is all that was written by a    *)
(* child that ended by itself, and before the deadline was found to be over; a  *)
(* timeout never passes for an output. Either way the child is reaped.          *)
OutputIsWhole ==
  /\ call = "output" => unwritten = 0 /\ pipe = 0 /\ polls <= TIMEOUT
  /\ call \in {"output", "timedOut"} => child = "reaped"

(* A call returns, and its child is reaped, whatever the child does: it may    *)
(* wedge, or block for ever on a pipe that nobody reads. Only a process that    *)
(* outlives it and keeps the pipe open can hold the call (command.rs 68-104).  *)
CallReturns == call = "polling" /\ ~heir ~> call \in Returned /\ child = "reaped"
=============================================================================
