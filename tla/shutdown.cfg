SPECIFICATION MCSpec
CONSTANTS
  Critical = {web, output}
  Kids = {capture, events}
  BACKSTOP = 8
  TimeoutStopSec = 15
  COMMAND_TIMEOUT = 10
  MaxCalls = 2
  Faults = {"dies", "wedged", "stuck", "fails", "noSignals"}
  PIPE = 1
  OUTPUT = 2
  TIMEOUT = 2
  MaxFrames = 2
  MaxReads = 2
  Messages <- MCMessages
  Bytes <- MCBytes
  Garbled <- MCGarbled
  BYTE = 2
  PREFIX = 2
  TMP = 3
  OurApp = OurApp
  NoTransport = NoTransport
  MaxSent = 4
  Parts = {"process", "call", "session", "bytes"}
CHECK_DEADLOCK FALSE
INVARIANT FatalIsReal
PROPERTY DeathIsFatal
PROPERTY CallReturns
INVARIANT NoFalseLoss
INVARIANT WireAnswered
PROPERTY LivesAsReckoned
PROPERTY HalfOpenReaped
PROPERTY StopEnds
