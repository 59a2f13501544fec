---------------------------- MODULE MCWebSession ----------------------------
(***************************************************************************)
(* Instances of WebSession and of AudioStream for TLC: a behaviour is one of  *)
(* the sessions, of the sound they carry, or of /api/stream. Two clients      *)
(* share the command channel where nothing fails; elsewhere the callbacks of  *)
(* the peer connections contend for it with the only client that is left.    *)
(***************************************************************************)
EXTENDS WebSession, AudioStream

VARIABLE part

(* pw-metadata fails, or tells of a long quantum and of no rate.              *)
MCClocks == {Silent, [quantum |-> 2048, rate |-> 0]}

First == CHOOSE c \in Clients : TRUE

MCInit ==
  /\ Init
  /\ AudioInit
  /\ part \in {"sessions", "sound", "streams"}
  /\ \A c \in Clients :
       conn[c] = IF c = First \/ events = {"signals"} THEN "none" ELSE "closed"
  /\ part # "sessions" => events = {"signals"}
  /\ part # "sound" => command = Silent

MCNext ==
  /\ UNCHANGED part
  /\ \/ part = "sessions" /\ Next /\ UNCHANGED audioVars
     \/ part = "sound" /\ SoundNext /\ UNCHANGED vars
     \/ part = "streams" /\ StreamNext /\ UNCHANGED vars

(* The fairness of WebSession, in behaviours that are about the sessions.     *)
InSessions(A) == part = "sessions" /\ A

MCFairness ==
  /\ WF_vars(InSessions(CommandLoop))
  /\ \A p \in Peers : /\ WF_vars(InSessions(PumpEnds(p)))
                      /\ SF_vars(InSessions(FailureReported(p)))
  /\ \A c \in Clients :
       /\ WF_vars(InSessions(Snapshot(c) \/ Greet(c)))
       /\ WF_vars(InSessions(Keepalive(c) \/ GivesUp(c) \/ Answered(c)))
       /\ SF_vars(InSessions(Pass(c) \/ Close(c)))

MCSpec ==
  /\ MCInit
  /\ [][MCNext]_<<vars, audioVars, part>>
  /\ MCFairness
=============================================================================
