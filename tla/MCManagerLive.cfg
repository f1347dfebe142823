\* The manager alone with a worker and a sidekick of two turns on one slot; the sidekick
\* in a session under a host that answers announcements.
SPECIFICATION LiveSpec
CONSTANTS
  j1 = j1
  j2 = j2
  k1 = k1
  Job <- MCJobs
  Sidekick <- MCSidekicks
  LimitValues = {1}
  Capacity = 2
  MaxGen = 2
  MaxTurns = 2
  MayCancelAll = TRUE
  MayReplace = TRUE
PROPERTIES
  ManagerMoves
  SidekickResultsArrive
