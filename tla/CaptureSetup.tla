---------------------------- MODULE CaptureSetup ----------------------------
(***************************************************************************)
(* What run_daemon decides once, before it starts the capture unit: which     *)
(* tool captures (daemon.rs), from which source, and with which latency,      *)
(* derived from the quantum that PipeWire runs with at that moment            *)
(* (audio/pw/quantum.rs, audio/pw/capture_cmd.rs).                          *)
(***************************************************************************)
EXTENDS Naturals

CONSTANTS
  U32,     \* how many values a u32 has
  Silent   \* a call that failed, and a setting that cannot be parsed

DEFAULT_QUANTUM == 1024
DEFAULT_RATE    == 48000
FLOOR_MS        == 50

ASSUME U32Assumption == U32 \in Nat /\ U32 > DEFAULT_RATE

-----------------------------------------------------------------------------
(* pw-metadata prints each setting; what it does not tell is the default.     *)
OrDefault(value, default) == IF value = Silent THEN default ELSE value

ProbeQuantum(settings) ==
  IF settings = Silent
  THEN [quantum |-> DEFAULT_QUANTUM, rate |-> DEFAULT_RATE]
  ELSE [quantum |-> OrDefault(settings.quantum, DEFAULT_QUANTUM),
        rate    |-> OrDefault(settings.rate, DEFAULT_RATE)]

DivCeil(a, b) == (a + b - 1) \div b

Rate(rate) == IF rate = 0 THEN DEFAULT_RATE ELSE rate

(* Two periods in 64 bits, cut to 32, and never less than the floor.          *)
CaptureLatencyMs(quantum, rate) ==
  LET periods == DivCeil(2 * quantum * 1000, Rate(rate)) % U32
  IN IF periods > FLOOR_MS THEN periods ELSE FLOOR_MS

DetectCaptureTool(found) ==
  CASE "parec" \in found -> "parec"
    [] "parec" \notin found /\ "pw-cat" \in found -> "pw-cat"
    [] OTHER -> Silent

(* parec reads the monitor of the null sink by its name, and takes a latency; *)
(* pw-cat targets the node itself, and takes none.                           *)
BuildCaptureCommand(tool, latency) ==
  IF tool = "parec"
  THEN [program |-> tool, device |-> "soundsync-capture.monitor", latency |-> latency]
  ELSE [program |-> tool, device |-> "soundsync-capture", latency |-> Silent]

(* Without a tool run_daemon returns before it starts anything.               *)
SetUp(found, settings) ==
  LET tool  == DetectCaptureTool(found)
      clock == ProbeQuantum(settings)
  IN IF tool = Silent THEN Silent
     ELSE BuildCaptureCommand(tool, CaptureLatencyMs(clock.quantum, clock.rate))
=============================================================================
