SPECIFICATION MCSpec
CONSTANTS
  Clients = {c1, c2}
  Peers = {p1, p2}
  None = None
  BusCap = 2
  ChanCap = 1
  PING = 15
  IDLE = 35
  MaxWrites = 2
  MaxEvents = 3
  Environments = {{"updates", "spectrum"}, {"signals"}, {"signals", "spectrum"}, {"signals", "stops", "silent", "fails"}}
  FRAME = 2
  TICKS = 2
  STAMPS = 3
  NUMBERS = 2
  PcmCap = 1
  MaxFrames = 4
  MaxTools = 2
  U32 = 1000000
  Silent = Silent
  Installed = {{}, {"parec", "pw-cat"}}
  Clocks <- MCClocks
  Listeners = {l1, l2}
  STREAM_MAX = 1
CHECK_DEADLOCK FALSE
INVARIANT ViewCurrent
INVARIANT NoLeakedSession
INVARIANT PacketsInTime
INVARIANT StreamsBounded
PROPERTY SilentReaped
