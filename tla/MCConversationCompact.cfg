\* The code's own check on the head of a compaction.
SPECIFICATION MCSpec
CONSTANTS
  f1 = f1
  f2 = f2
  Session <- MCOneFile
  LongSession = TRUE
  MaxSteps = 2
  BareBy = 5
  MinHead = 2
  Deliveries = 0
  Tears = {"half", "bare"}
  MaxMessages = 5
  ErrorsBy = 0
INVARIANT
  FileMirrorsContext
