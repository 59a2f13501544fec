SPECIFICATION ServiceSpec
CONSTANTS
  Durations = {1, 3}
  QueueCap = 2
  MaxStarts = 2
  Environments = {{"reset"}, {"setterFails"}, {"renames", "refused"}}
  Names = {n1, n2}
  Default = Default
  EnvName = n2
  Empty = Empty
  BtCap = 1
CHECK_DEADLOCK FALSE
INVARIANT LastCommandWins
INVARIANT ClosedIsOff
INVARIANT NameAgrees
PROPERTY NameKept
PROPERTY WindowExpires
