\* Two session files; crashes and errors may cut a line short.
SPECIFICATION MCSpec
CONSTANTS
  f1 = f1
  f2 = f2
  Session <- MCFiles
  LongSession = TRUE
  MaxSteps = 2
  BareBy = 2
  MinHead = 5
  Deliveries = 1
  Tears = {"half", "bare"}
  MaxMessages = 4
  ErrorsBy = 1
SYMMETRY MCSymmetry
INVARIANTS
  ContextSound
  
