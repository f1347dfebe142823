\* A crash or write error after a whole line and before its newline.
SPECIFICATION MCSpec
CONSTANTS
  f1 = f1
  f2 = f2
  Session <- MCOneFile
  LongSession = FALSE
  MaxSteps = 1
  BareBy = 4
  MinHead = 2
  Deliveries = 0
  Tears = {"half", "bare"}
  MaxMessages = 4
  ErrorsBy = 0
INVARIANT
  CrashLosesOneLine
