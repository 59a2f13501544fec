SPECIFICATION MCSpec
CONSTANTS
  Sinks = {s1}
  Casts = {c1}
  ModuleIds = {m1, m2, m3}
  SessionIds = {t1}
  None = None
  Raop = Raop
  Foreign = Foreign
  QueueCap = 1
  LanKnown = TRUE
  Faults = {"crash"}
  Lines <- MCLines
  SinkNames <- MCSinkNames
  Hosts <- MCHosts
  PORTS = 65535
  NoDevice = NoDevice
  MaxListed = 3
  MaxStarts = 2
CHECK_DEADLOCK FALSE
INVARIANT TrackedIdsAreOurs
INVARIANT RaopReclaimed
INVARIANT MergedOnce
PROPERTY NoNewStray
PROPERTY DeadCastCleared
PROPERTY ShutdownCompletes
