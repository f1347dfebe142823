\* Processes, the MCP client and the model gate under fairness.
SPECIFICATION Spec
CONSTANTS
  s1 = s1
  s2 = s2
  c1 = c1
  c2 = c2
  PmSpawn <- MCSpawns
  PmMax = 1
  McCall <- MCCalls
  McNoise = 2
  MgRequest <- MCCalls
  MgLimits = {0, 1}
  MgAttempts = 2
  MgDelays = {0, 1}
  MgMaxEdits = 1
INVARIANTS
  PmSafe
  McSafe
  MgSafe
PROPERTIES
  PartsEnd
CHECK_DEADLOCK FALSE
