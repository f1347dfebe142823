\* Results that a truncation cut and a compaction then takes out.
SPECIFICATION TrSpec
CONSTANTS
  TrId = {1, 2}
  TrSizes = {1, 4, 6}
  TrLimit = 3
  TrElideMin = 2
  TrBudget = 8
  TrPages = {2}
  TrMaxResults = 3
INVARIANT TrFullOriginal
CHECK_DEADLOCK FALSE
