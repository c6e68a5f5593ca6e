\* Three routes, up to two restarts.
SPECIFICATION FairSpec
CONSTANTS
  N = 3
  InitScores <- SomeScores
  MaxScore = 12
  MaxRestarts = 2
INVARIANTS NeverEarly OneEntryPerExpiry NoneFallsBehind
PROPERTIES EveryRouteRuns
CHECK_DEADLOCK FALSE
