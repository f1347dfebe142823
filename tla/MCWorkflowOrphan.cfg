\* The same instance, asking for the workers of a run that ended.
SPECIFICATION WfSpec
CONSTANTS
  Stage <- MCStages
  MaxItems = 2
  Cap = 4
  Graphs <- MCGraphs
  MaxRuns = 2
  MaxStages = 4
  MaxUpsets = 1
INVARIANT
  WorkersCancelled
CHECK_DEADLOCK FALSE
