SPECIFICATION FairSpec
CONSTANTS
  Gains = {flat, g1}
  Flat = flat
  QueueCap = 1
  Environments = {{}}
  MaxSpawns = 1
CHECK_DEADLOCK FALSE
PROPERTY RouteReflected
