------------------------------ MODULE MCTasks ------------------------------
(***************************************************************************)
(* Instances for TLC of what ends, is stopped or gives up: a behaviour is one *)
(* of the process, for which a helper call is a time it is blocked, one of    *)
(* such a call, one of a cast session and its link, or one of the bytes that  *)
(* such a session reads.                                                    *)
(***************************************************************************)
EXTENDS Shutdown, CommandRun, CastSession, CastWire, TLC

CONSTANT Parts  \* which of the four an instance is about

VARIABLE part

Status(apps) == [type |-> "RECEIVER_STATUS", source |-> "receiver-0", apps |-> apps]
App(app, transport) == [app |-> app, transport |-> transport]

MCPing     == [type |-> "PING", source |-> "sender-1", apps |-> <<>>]
MCIdle     == Status(<<App("backdrop", "web-0"), App(OurApp, NoTransport)>>)
MCLaunched == Status(<<App("backdrop", "web-0"), App(OurApp, "web-1")>>)
MCRelaunch == Status(<<App(OurApp, "web-2")>>)
MCMessages == {MCPing, MCIdle, MCLaunched, MCRelaunch}
MCBytes    == MCPing :> <<1>> @@ MCIdle :> <<1, 0>>
                @@ MCLaunched :> <<0, 1, 1>> @@ MCRelaunch :> <<0>>
MCGarbled  == {<<0, 0>>}

MCInit ==
  /\ part \in Parts
  /\ Init
  /\ CallInit
  /\ SessionInit
  /\ WireInit

MCNext ==
  /\ UNCHANGED part
  /\ \/ part = "process" /\ Next /\ UNCHANGED <<callVars, sessionVars, wireVars>>
     \/ part = "call" /\ CallNext /\ UNCHANGED <<vars, sessionVars, wireVars>>
     \/ part = "session" /\ SessionNext /\ UNCHANGED <<vars, callVars, wireVars>>
     \/ part = "bytes" /\ WireNext /\ UNCHANGED <<vars, callVars, sessionVars>>

(* The fairness of Shutdown, CommandRun and CastSession, each in the          *)
(* behaviours that are about it: in another its actions are never taken.     *)
MCFairness ==
  /\ \A k \in Kids : WF_vars(part = "process" /\ KidEnds(k))
  /\ WF_vars(part = "process" /\ Tick)
  /\ WF_vars(part = "process" /\ Kill)
  /\ SF_vars(part = "process" /\ Daemon)
  /\ SF_vars(part = "process" /\ Watchdogs)
  /\ WF_callVars(part = "call" /\ TryWait)
  /\ WF_callVars(part = "call" /\ Reap)
  /\ WF_callVars(part = "call" /\ Drain)
  /\ WF_sessionVars(part = "session" /\ Task)

MCSpec ==
  /\ MCInit
  /\ [][MCNext]_<<vars, callVars, sessionVars, wireVars, part>>
  /\ MCFairness
=============================================================================
