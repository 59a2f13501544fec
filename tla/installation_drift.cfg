SPECIFICATION MCSpec
CONSTANTS
  Gains = {flat, g1}
  Flat = flat
  QueueCap = 1
  Environments = {{}}
  MaxSpawns = 2
  Bins = {"pactl", "hciconfig"}
  SysOrder <- MCSysOrder
  HciEnv = Unset
  Unset = Unset
  Absent = Absent
  Torn = Torn
  HostEnvironments = {{"drop"}}
  MaxChanges = 1
  Parts = {"install"}
INVARIANT DriftReported
