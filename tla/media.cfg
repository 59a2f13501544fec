SPECIFICATION MCSpec
CONSTANTS
  Players = {1, 2}
  Tracks = {a, b}
  None = None
  FetchIds = {1, 2}
  THRESHOLD = 2
  Environments = {{"players"}, {"tracks", "art"}, {"stale", "refused", "art"}, {"unbound"}}
CHECK_DEADLOCK FALSE
INVARIANT ArtMatches
PROPERTY StaleIsDropped
PROPERTY Sticky
PROPERTY MediaFollows
