\* The manager alone with a worker and a sidekick of two turns and a limit that moves
\* between 1 and 2; in a session, two workers and conversations that come and go, or a
\* sidekick of two turns under a host that answers announcements.
SPECIFICATION ManagerSpec
CONSTANTS
  j1 = j1
  j2 = j2
  k1 = k1
  Job <- MCJobs
  Sidekick <- MCSidekicks
  LimitValues = {0, 1, 2}
  Capacity = 2
  MaxGen = 2
  MaxTurns = 2
  MayCancelAll = TRUE
  MayReplace = TRUE
INVARIANTS
  SlotsExact
  NothingForgotten
  InboxSafe
PROPERTIES
  StartsAllowed
