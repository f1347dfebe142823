\* Two submissions of small graphs, one reset or one change of the route.
SPECIFICATION WfSpec
CONSTANTS
  Stage <- MCStages
  MaxItems = 2
  Cap = 4
  Graphs <- MCGraphs
  MaxRuns = 2
  MaxStages = 4
  MaxUpsets = 1
INVARIANTS
  WfSafe
PROPERTIES
  ImplementsContract
  RunsEnd
CHECK_DEADLOCK FALSE
