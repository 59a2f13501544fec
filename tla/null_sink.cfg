SPECIFICATION FairSpec
CONSTANTS
  ModuleIds = {1, 2, 3}
  None = None
  MAX_ATTEMPTS = 2
  Environments = {{"serverRestart", "listFails", "refused", "timedOut", "admin"}, {"serverRestart", "nodeLost", "deadLeft"}, {"nodeLost", "admin"}}
CHECK_DEADLOCK FALSE
INVARIANT OneNullSink
PROPERTY KeepsLiveSink
PROPERTY LossHealed
