\* Three calls of any class, two permits; tools and hooks may panic, and the
\* host may cancel or drop the run.
SPECIFICATION Spec
CONSTANTS
  a = a
  b = b
  Key <- MCKey
  MaxCalls = 3
  CallId <- MCIds
  EmptyId = ""
  Batches <- MCBatches
  Classes <- MCAllClasses
  MaxParallel = 2
  HasDeadline = FALSE
  MayPanic = TRUE
  MayDrop = TRUE
SYMMETRY MCSymmetry
INVARIANTS
  DispatchInv
  DispatchOrder
  DispatchAccounts
PROPERTIES
  NoStartAfterCancel
  ImplementsToolBatch
