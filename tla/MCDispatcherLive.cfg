\* Up to three calls on a single permit, under fairness of everything but the tools.
SPECIFICATION FairSpec
CONSTANTS
  a = a
  b = b
  Key <- MCKey
  MaxCalls = 3
  CallId <- MCIds
  EmptyId = ""
  Batches <- MCTriple
  Classes <- MCLiveClasses
  MaxParallel = 1
  HasDeadline = TRUE
  MayPanic = FALSE
  MayDrop = FALSE
PROPERTIES
  DispatchTerminates
