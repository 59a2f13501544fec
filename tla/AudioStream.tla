---------------------------- MODULE AudioStream ----------------------------
(***************************************************************************)
(* From the capture tool to a listener: pump_frames cuts the byte stream of   *)
(* a supervised capture process into frames on the PCM bus (audio/capture.rs), *)
(* and the Opus pump of a WebRTC session turns them into RTP packets          *)
(* (web/webrtc/pump.rs, rtp.rs). Beside it, GET /api/stream, whose clients    *)
(* each have a pipeline of their own, bounded by a semaphore (web/stream.rs). *)
(***************************************************************************)
EXTENDS CaptureSetup, Sequences, FiniteSets

CONSTANTS
  FRAME,      \* BYTES_PER_FRAME (7680)
  TICKS,      \* RTP_SAMPLES_PER_FRAME (960)
  STAMPS,     \* what a timestamp is counted modulo, and the number of a lag's
              \* frames with it (2^32)
  NUMBERS,    \* what a sequence number is counted modulo (2^16)
  PcmCap,     \* BROADCAST_CAPACITY (256)
  MaxFrames,  \* bound: frames ever published
  MaxTools,   \* bound: capture processes ever started
  Installed,  \* sets of capture tools that a host may have
  Clocks,     \* what pw-metadata may answer
  Listeners,  \* clients of /api/stream
  STREAM_MAX  \* STREAM_MAX_CONCURRENT (4)

ASSUME AudioAssumption ==
  /\ {FRAME, TICKS, STAMPS, NUMBERS, PcmCap, STREAM_MAX} \subseteq Nat \ {0}
  /\ MaxFrames \in Nat /\ MaxTools \in Nat
  /\ IsFiniteSet(Listeners)

VARIABLES
  command,   \* what run_daemon built once, and never builds again
  tool,      \* the capture process: how many were started, and what of its
             \* bytes has been read
  partial,   \* bytes of a frame that read_exact has so far
  pcm,       \* the frames published: the process and its first byte
  opus,      \* the await of run_opus_pump
  stopping,  \* its shutdown watch
  upto,      \* its receiver: the frames taken from the bus, or skipped
  first,     \* history: the frames published before it subscribed
  timestamp, sequence,  \* RtpTimeline
  packet,    \* history: the last packet, the frame in it, and `unsent` then
  unsent,    \* history: frames that could not be encoded
  longest,   \* history: the most frames it lost at a time
  http,      \* a client of /api/stream: none, spawning, streaming
  pipeline,  \* its parec and ffmpeg: none, running, orphaned
  permits    \* stream_limit

capture    == <<command, tool, partial, pcm>>
timeline   == <<timestamp, sequence>>
sender     == <<opus, stopping, upto, first, timeline, packet, unsent, longest>>
streams    == <<http, pipeline, permits>>
audioVars  == <<capture, sender, streams>>

-----------------------------------------------------------------------------
(* run_capture, the unit that run_daemon supervises: none without a tool.     *)

SpawnTool ==
  /\ command # Silent
  /\ ~tool.up
  /\ tool.no < MaxTools
  /\ tool' = [no |-> tool.no + 1, up |-> TRUE, read |-> 0]
  /\ UNCHANGED <<command, partial, pcm, sender, streams>>

(* A read that does not fill the frame.                                    *)
ReadSome ==
  /\ tool.up
  /\ \E n \in 1 .. FRAME - 1 :
       /\ partial + n < FRAME
       /\ partial' = partial + n
       /\ tool' = [tool EXCEPT !.read = @ + n]
  /\ UNCHANGED <<command, pcm, sender, streams>>

(* One that does: the frame is sent, to nobody if nobody listens.           *)
ReadFrame ==
  /\ tool.up
  /\ Len(pcm) < MaxFrames
  /\ pcm' = Append(pcm, [no |-> tool.no, at |-> tool.read - partial])
  /\ tool' = [tool EXCEPT !.read = @ + FRAME - partial]
  /\ partial' = 0
  /\ UNCHANGED <<command, sender, streams>>

DropPartial == 0

(* The end of the stream or an error of it; the supervisor starts another.  *)
ToolEnds ==
  /\ tool.up
  /\ tool' = [tool EXCEPT !.up = FALSE, !.read = 0]
  /\ partial' = DropPartial
  /\ UNCHANGED <<command, pcm, sender, streams>>

-----------------------------------------------------------------------------
(* run_opus_pump.                                                          *)

Subscribe ==
  /\ opus = "none"
  /\ opus' = "recv"
  /\ upto' = Len(pcm)
  /\ first' = Len(pcm)
  /\ UNCHANGED <<capture, stopping, timeline, packet, unsent, longest, streams>>

Waiting == Len(pcm) - upto

Recv ==
  /\ opus = "recv"
  /\ ~stopping
  /\ Waiting \in 1 .. PcmCap
  /\ upto' = upto + 1
  /\ opus' = "encode"
  /\ UNCHANGED <<capture, stopping, first, timeline, packet, unsent, longest,
                 streams>>

(* Variant: the sequence numbers skip, the clock does not.                  *)
SkipNumbers(n) == /\ sequence' = (sequence + n) % NUMBERS
                  /\ UNCHANGED timestamp

Skip(n) == /\ timestamp' = (timestamp + ((TICKS * n) % STAMPS)) % STAMPS
           /\ sequence' = (sequence + (n % NUMBERS)) % NUMBERS

(* n.min(u32::MAX as u64): a u32 counts the frames that are skipped.         *)
Clamped(n) == IF n < STAMPS THEN n ELSE STAMPS - 1

(* Lagged(n): the receiver goes on with the oldest frame the bus holds.      *)
Lagged ==
  /\ opus = "recv"
  /\ ~stopping
  /\ Waiting > PcmCap
  /\ LET lost == Waiting - PcmCap
     IN /\ Skip(Clamped(lost))
        /\ longest' = IF lost > longest THEN lost ELSE longest
  /\ upto' = Len(pcm) - PcmCap
  /\ UNCHANGED <<capture, opus, stopping, first, packet, unsent, streams>>

Encoded ==
  /\ opus = "encode"
  /\ opus' = "send"
  /\ UNCHANGED <<capture, stopping, upto, first, timeline, packet, unsent, longest,
                 streams>>

(* An encode error is passed over, and the timeline stays where it is.       *)
NotEncoded ==
  /\ opus = "encode"
  /\ opus' = "recv"
  /\ unsent' = unsent + 1
  /\ UNCHANGED <<capture, stopping, upto, first, timeline, packet, longest, streams>>

(* next_packet, and the track that takes the packet.                        *)
SendPacket ==
  /\ opus = "send"
  /\ packet' = [frame |-> upto, ts |-> timestamp, seq |-> sequence,
               unsent |-> unsent]
  /\ timestamp' = (timestamp + TICKS) % STAMPS
  /\ sequence' = (sequence + 1) % NUMBERS
  /\ opus' = "recv"
  /\ UNCHANGED <<capture, stopping, upto, first, unsent, longest, streams>>

(* The encoder panics or the track refuses.                                 *)
PumpFails ==
  /\ opus \in {"encode", "send"}
  /\ opus' = "ended"
  /\ UNCHANGED <<capture, stopping, upto, first, timeline, packet, unsent, longest,
                 streams>>

StopPump ==
  /\ opus # "none"
  /\ ~stopping
  /\ stopping' = TRUE
  /\ UNCHANGED <<capture, opus, upto, first, timeline, packet, unsent, longest,
                 streams>>

PumpStops ==
  /\ opus = "recv"
  /\ stopping
  /\ opus' = "ended"
  /\ UNCHANGED <<capture, stopping, upto, first, timeline, packet, unsent, longest,
                 streams>>

-----------------------------------------------------------------------------
(* stream_response.                                                        *)

(* A request that finds no permit is answered 503.                          *)
Acquire(c) ==
  /\ http[c] = "none"
  /\ pipeline[c] = "none"
  /\ permits > 0
  /\ permits' = permits - 1
  /\ http' = [http EXCEPT ![c] = "spawning"]
  /\ UNCHANGED <<capture, sender, pipeline>>

(* Variant: the permit is the handler's, and goes with it.                   *)
PermitOfHandler == permits + 1

PermitOfBody == permits

Respond(c) ==
  /\ http[c] = "spawning"
  /\ http' = [http EXCEPT ![c] = "streaming"]
  /\ pipeline' = [pipeline EXCEPT ![c] = "running"]
  /\ permits' = PermitOfBody
  /\ UNCHANGED <<capture, sender>>

SpawnFails(c) ==
  /\ http[c] = "spawning"
  /\ http' = [http EXCEPT ![c] = "none"]
  /\ permits' = permits + 1
  /\ UNCHANGED <<capture, sender, pipeline>>

(* The body ends with the pipeline, and is dropped with its permit.          *)
PipelineEnds(c) ==
  /\ http[c] = "streaming"
  /\ pipeline' = [pipeline EXCEPT ![c] = "none"]
  /\ http' = [http EXCEPT ![c] = "none"]
  /\ permits' = permits + 1
  /\ UNCHANGED <<capture, sender>>

(* The client goes: the shell is killed with the body; parec and ffmpeg end   *)
(* when they next write to a pipe that nobody reads.                         *)
Disconnect(c) ==
  /\ http[c] = "streaming"
  /\ http' = [http EXCEPT ![c] = "none"]
  /\ pipeline' = [pipeline EXCEPT ![c] = "orphaned"]
  /\ permits' = permits + 1
  /\ UNCHANGED <<capture, sender>>

OrphanEnds(c) ==
  /\ pipeline[c] = "orphaned"
  /\ pipeline' = [pipeline EXCEPT ![c] = "none"]
  /\ UNCHANGED <<capture, sender, http, permits>>

-----------------------------------------------------------------------------
AudioInit ==
  /\ \E found \in Installed, clock \in Clocks :
       command = SetUp(found, clock)
  /\ tool = [no |-> 0, up |-> FALSE, read |-> 0]
  /\ partial = 0
  /\ pcm = <<>>
  /\ opus = "none"
  /\ stopping = FALSE
  /\ upto = 0
  /\ first = 0
  /\ timestamp = 0
  /\ sequence = 0
  /\ packet = [frame |-> 0, ts |-> 0, seq |-> 0, unsent |-> 0]
  /\ unsent = 0
  /\ longest = 0
  /\ http = [c \in Listeners |-> "none"]
  /\ pipeline = [c \in Listeners |-> "none"]
  /\ permits = STREAM_MAX

SoundNext ==
  \/ SpawnTool \/ ReadSome \/ ReadFrame \/ ToolEnds
  \/ Subscribe \/ Recv \/ Lagged \/ Encoded \/ NotEncoded \/ SendPacket
  \/ PumpFails \/ StopPump \/ PumpStops

StreamNext ==
  \E c \in Listeners :
    \/ Acquire(c) \/ Respond(c) \/ SpawnFails(c)
    \/ PipelineEnds(c) \/ Disconnect(c) \/ OrphanEnds(c)

AudioNext == SoundNext \/ StreamNext

AudioSpec == AudioInit /\ [][AudioNext]_audioVars

-----------------------------------------------------------------------------
(* A frame on the bus is a whole one of the process it came from, and the next *)
(* after the one before it, wherever reads and restarts cut the bytes.        *)
FramesWhole ==
  \A i \in DOMAIN pcm :
    IF i > 1 /\ pcm[i - 1].no = pcm[i].no
    THEN pcm[i].at = pcm[i - 1].at + FRAME
    ELSE pcm[i].at = 0

(* A packet carries the time of its frame: timestamp and sequence number count *)
(* the frames since the pump subscribed, with those it lost by lagging and      *)
(* without those that could not be encoded, however often both wrap round       *)
(* (rtp.rs 20-36, pump.rs 39-63), as long as a u32 counts every lag: one that is  *)
(* longer is clamped. And its frame is whole (capture.rs 28-46).               *)
PacketsInTime ==
  /\ FramesWhole
  /\ packet.frame > 0 /\ longest < STAMPS =>
       LET elapsed == packet.frame - first - 1 - packet.unsent
       IN packet.ts = (elapsed * TICKS) % STAMPS /\ packet.seq = elapsed % NUMBERS

(* No more than STREAM_MAX pipelines feed a client, and when none does every    *)
(* permit is back, whichever way each of them ended (stream.rs 83-121).        *)
StreamsBounded ==
  LET fed == {c \in Listeners : http[c] # "none"}
  IN /\ Cardinality(fed) <= STREAM_MAX
     /\ fed = {} => permits = STREAM_MAX
=============================================================================
