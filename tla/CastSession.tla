---------------------------- MODULE CastSession ----------------------------
(***************************************************************************)
(* One CASTV2 session task (run_cast_session of cast/client.rs): connect,   *)
(* launch the media receiver, then a biased select over the stop signal,    *)
(* inbound bytes and a 5 s heartbeat that also watches for a link gone      *)
(* silent. Time is counted in heartbeats; frames are what the code tells    *)
(* apart; every write_all may fail and is an await of its own.              *)
(***************************************************************************)
EXTENDS Naturals, Sequences, SequencesExt

CONSTANTS
  MaxFrames,  \* bound: frames that one read completes
  MaxReads    \* bound: reads that bring a RECEIVER_STATUS

ASSUME SessionBoundsAssumption == MaxFrames \in Nat \ {0} /\ MaxReads \in Nat

VARIABLES
  at,      \* the await the task is at
  frames,  \* frames of the last read not yet handled
  loaded,  \* the local of the task: LOAD was sent
  since,   \* heartbeats since the last inbound bytes (last_inbound)
  stop,    \* the stop watch
  link,    \* the network: good, silent (half-open) or closed
  owed,    \* a PING of ours that the Chromecast has not answered yet
  cause,   \* why the task ended
  loads,   \* history: LOADs sent
  quiet,   \* history: the link was silent at some time
  reads    \* RECEIVER_STATUS reads so far (bounded by MaxReads)

sessionVars == <<at, frames, loaded, since, stop, link, owed, cause, loads,
                 quiet, reads>>

Frames == {"PING", "RECEIVER_STATUS", "other"}

SessionPlaces == {"tcp", "tls", "connect", "launch", "select", "frame", "pong",
           "transport", "load", "ping", "close", "ended"}

Causes == {"none", "stop", "read", "write", "deadline", "connect"}

SessionTypeOK ==
  /\ at \in SessionPlaces
  /\ frames \in Seq(Frames) /\ Len(frames) <= MaxFrames
  /\ loaded \in BOOLEAN
  /\ since \in 0 .. 3
  /\ stop \in BOOLEAN
  /\ link \in {"good", "silent", "closed"}
  /\ owed \in BOOLEAN
  /\ cause \in Causes
  /\ loads \in 0 .. 1
  /\ quiet \in BOOLEAN
  /\ reads \in 0 .. MaxReads

End(why) == at' = "ended" /\ cause' = why

-----------------------------------------------------------------------------
(* The controller and the network.                                         *)

Stop ==
  /\ ~stop
  /\ stop' = TRUE
  /\ UNCHANGED <<at, frames, loaded, since, link, owed, cause, loads, quiet,
                 reads>>

LinkChanges ==
  /\ link # "closed"
  /\ link' \in {"good", "silent", "closed"} \ {link}
  /\ quiet' = IF link' = "silent" THEN TRUE ELSE quiet
  /\ UNCHANGED <<at, frames, loaded, since, stop, owed, cause, loads, reads>>

-----------------------------------------------------------------------------
(* Connecting: nothing here reads the stop signal.                          *)

(* A TCP connect ends, at the latest by the timeout of the kernel.          *)
TcpConnect ==
  /\ at = "tcp"
  /\ \/ link = "good" /\ at' = "tls" /\ UNCHANGED cause
     \/ End("connect")
  /\ UNCHANGED <<frames, loaded, since, stop, link, owed, loads, quiet, reads>>

(* The handshake waits for the peer, and nothing bounds that wait.          *)
TlsConnect ==
  /\ at = "tls"
  /\ link # "silent"
  /\ \/ link = "good" /\ at' = "connect" /\ UNCHANGED cause
     \/ End("connect")
  /\ UNCHANGED <<frames, loaded, since, stop, link, owed, loads, quiet, reads>>

(* A write_all that leads from one await to the next, or ends the task.     *)
Write(from, to) ==
  /\ at = from
  /\ \/ at' = to /\ UNCHANGED cause
     \/ link = "closed" /\ End("write")

SendConnect ==
  /\ Write("connect", "launch")
  /\ UNCHANGED <<frames, loaded, since, stop, link, owed, loads, quiet, reads>>

SendLaunch ==
  /\ Write("launch", "select")
  /\ UNCHANGED <<frames, loaded, since, stop, link, owed, loads, quiet, reads>>

-----------------------------------------------------------------------------
(* The select loop.                                                        *)

(* Variant: there is no stop arm before the stream is loaded.              *)
SeesStopLoaded == stop /\ loaded

SeesStop == stop

StopSeen ==
  /\ at = "select"
  /\ SeesStop
  /\ at' = "close"
  /\ UNCHANGED <<frames, loaded, since, stop, link, owed, cause, loads, quiet,
                 reads>>

(* CLOSE is sent at best effort.                                           *)
SendClose ==
  /\ at = "close"
  /\ End("stop")
  /\ UNCHANGED <<frames, loaded, since, stop, link, owed, loads, quiet, reads>>

(* Variant: only complete frames count as activity.                        *)
SinceFrame(fs) == IF fs = <<>> THEN since ELSE 0

SinceRead(fs) == 0

(* Any inbound bytes, complete frames or not, prove that the link is alive. *)
Read(fs) ==
  /\ at = "select"
  /\ ~SeesStop
  /\ link = "good"
  /\ frames' = fs
  /\ since' = SinceRead(fs)
  /\ owed' = FALSE
  /\ at' = IF fs = <<>> THEN "select" ELSE "frame"
  /\ reads' = IF "RECEIVER_STATUS" \in ToSet(fs) THEN reads + 1 ELSE reads
  /\ reads' <= MaxReads
  /\ UNCHANGED <<loaded, stop, link, cause, loads, quiet>>

ReadEnds ==
  /\ at = "select"
  /\ ~SeesStop
  /\ link = "closed"
  /\ End("read")
  /\ UNCHANGED <<frames, loaded, since, stop, link, owed, loads, quiet, reads>>

(* What one frame leads to. A RECEIVER_STATUS may or may not say that our   *)
(* application runs, and counts only until LOAD was sent.                   *)
HandleFrame ==
  /\ at = "frame"
  /\ frames # <<>>
  /\ frames' = Tail(frames)
  /\ at' \in CASE Head(frames) = "PING" -> {"pong"}
               [] Head(frames) = "RECEIVER_STATUS" /\ ~loaded ->
                    {"transport", "frame"}
               [] OTHER -> {"frame"}
  /\ UNCHANGED <<loaded, since, stop, link, owed, cause, loads, quiet, reads>>

FramesDone ==
  /\ at = "frame"
  /\ frames = <<>>
  /\ at' = "select"
  /\ UNCHANGED <<frames, loaded, since, stop, link, owed, cause, loads, quiet,
                 reads>>

SendPong ==
  /\ Write("pong", "frame")
  /\ UNCHANGED <<frames, loaded, since, stop, link, owed, loads, quiet, reads>>

SendTransportConnect ==
  /\ Write("transport", "load")
  /\ UNCHANGED <<frames, loaded, since, stop, link, owed, loads, quiet, reads>>

SendLoad ==
  /\ Write("load", "frame")
  /\ IF at' = "frame" THEN loaded' = TRUE /\ loads' = loads + 1
                     ELSE UNCHANGED <<loaded, loads>>
  /\ UNCHANGED <<frames, since, stop, link, owed, quiet, reads>>

(* Variant: our own PING counts as activity.                                *)
SincePing == 1

Elapsed == since + 1

(* link_lost at the n-th heartbeat since the last bytes: more than 15 s, so  *)
(* never before the third heartbeat, and at the third only if the bytes     *)
(* came right at a heartbeat.                                              *)
LinkLost(n) == IF n < 3 THEN {FALSE} ELSE IF n = 3 THEN BOOLEAN ELSE {TRUE}

(* A heartbeat sends a PING, then looks at the deadline. Timing: a           *)
(* Chromecast on a good link answers a PING before the next one (its PONG   *)
(* is a Read).                                                             *)
Heartbeat ==
  /\ at = "select"
  /\ ~SeesStop
  /\ link # "closed"
  /\ ~(link = "good" /\ owed)
  /\ at' = "ping"
  /\ UNCHANGED <<frames, loaded, since, stop, link, owed, cause, loads, quiet,
                 reads>>

SendPing ==
  /\ at = "ping"
  /\ \/ \E lost \in LinkLost(Elapsed) :
          IF lost
          THEN End("deadline") /\ UNCHANGED <<since, owed>>
          ELSE at' = "select" /\ since' = Elapsed /\ owed' = TRUE
               /\ UNCHANGED cause
     \/ link = "closed" /\ End("write") /\ UNCHANGED <<since, owed>>
  /\ UNCHANGED <<frames, loaded, stop, link, loads, quiet, reads>>

-----------------------------------------------------------------------------
SessionInit ==
  /\ at = "tcp"
  /\ frames = <<>>
  /\ loaded = FALSE
  /\ since = 0
  /\ stop = FALSE
  /\ link = "good"
  /\ owed = FALSE
  /\ cause = "none"
  /\ loads = 0
  /\ quiet = FALSE
  /\ reads = 0

Task ==
  \/ TcpConnect
  \/ TlsConnect
  \/ SendConnect
  \/ SendLaunch
  \/ StopSeen
  \/ SendClose
  \/ ReadEnds
  \/ HandleFrame
  \/ FramesDone
  \/ SendPong
  \/ SendTransportConnect
  \/ SendLoad
  \/ Heartbeat
  \/ SendPing

SessionNext ==
  \/ Task
  \/ \E fs \in BoundedSeq(Frames, MaxFrames) : Read(fs)
  \/ Stop
  \/ LinkChanges

SessionSpec == SessionInit /\ [][SessionNext]_sessionVars

(* The task runs when it can; nothing is assumed of the network.            *)
SessionFairSpec == SessionSpec /\ WF_sessionVars(Task)

-----------------------------------------------------------------------------
(* The stream is loaded at most once, however often the receiver reports     *)
(* its status and however the frames arrive.                               *)
LoadedOnce == loads = IF loaded THEN 1 ELSE 0

(* NF-26: a session on a link that never went silent is not given up by the  *)
(* inbound deadline.                                                       *)
NoFalseLoss == cause = "deadline" => quiet

(* The task implements the life the output controller reckons with.         *)
Phase ==
  IF at = "ended" THEN "ended"
  ELSE IF at \in {"tcp", "tls", "connect", "launch"} THEN "connecting"
  ELSE IF loaded THEN "playing"
  ELSE IF at \in {"frame", "pong", "transport", "load"} THEN "loading"
  ELSE "launched"

Life == INSTANCE CastLife WITH phase <- Phase, stopped <- stop

LivesAsReckoned == Life!Spec

(* NF-26: a connected session whose link stays silent ends.                 *)
HalfOpenReaped ==
  \A p \in {"select", "ping", "frame"} :
    <>[](link = "silent") => (at = p ~> at = "ended")

(* A stop signal ends a session that got past connecting.                   *)
StopEnds == stop /\ at \notin {"tcp", "tls"} ~> at = "ended"
=============================================================================
