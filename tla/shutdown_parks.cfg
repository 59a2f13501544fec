SPECIFICATION MCSpec
CONSTANTS
  Critical = {web, output}
  Kids = {capture, events}
  BACKSTOP = 8
  TimeoutStopSec = 15
  COMMAND_TIMEOUT = 10
  MaxCalls = 2
  Faults = {}
  PIPE = 1
  OUTPUT = 0
  TIMEOUT = 1
  MaxFrames = 2
  MaxReads = 2
  Messages <- MCMessages
  Bytes <- MCBytes
  Garbled <- MCGarbled
  BYTE = 2
  PREFIX = 2
  TMP = 3
  OurApp = OurApp
  NoTransport = NoTransport
  MaxSent = 4
  Parts = {"process"}
CHECK_DEADLOCK FALSE
PROPERTY CleanPathOwns
