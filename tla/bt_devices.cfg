SPECIFICATION FairSpec
CONSTANTS
  Devices = {d1}
  NoDevice = NoDevice
  EventCap = 2
  MaxTold = 2
  Environments = {{"removed"}, {"removed", "overtaken"}, {"unwatched", "burst", "deaf"}}
CHECK_DEADLOCK FALSE
INVARIANT ShownIsTrue
INVARIANT RemovedIsGone
PROPERTY AudioFollows
