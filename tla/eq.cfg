SPECIFICATION MCSpec
CONSTANTS
  Gains = {flat, g1}
  Flat = flat
  QueueCap = 1
  Environments = {{}, {"drift", "admin"}, {"ctlFails", "exits", "lingers"}}
  MaxSpawns = 2
  Bins = {"pactl", "hciconfig"}
  SysOrder <- MCSysOrder
  HciEnv = Unset
  Unset = Unset
  Absent = Absent
  Torn = Torn
  HostEnvironments = {{}, {"edit", "mute", "killed"}, {"host", "mute"}, {"host", "refused"}}
  MaxChanges = 1
  Parts = {"routing", "install"}
CHECK_DEADLOCK FALSE
INVARIANT UiTruthful
INVARIANT DriftNoticed
INVARIANT DoctorTruthful
INVARIANT AppliedMeansDone
