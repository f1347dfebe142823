\* The smaller components, one per behaviour.
SPECIFICATION Spec
CONSTANTS
  ka = ka
  kb = kb
  kc = kc
  s1 = s1
  s2 = s2
  ba = ba
  bb = bb
  t1 = t1
  t2 = t2
  c1 = c1
  c2 = c2
  n1 = n1
  n2 = n2
  pa = pa
  pb = pb
  Key <- MCKeys
  MaxCalls = 4
  ObByte <- MCBytes
  ObCap = 3
  ObNoteCap = 2
  ObTake = 2
  ObNeedle <- MCNeedle
  ObChunk = 2
  ObFeedMax = 5
  ShScript <- MCScripts
  ShPipe = 1
  ShTimeout = TRUE
  EfEmitter <- MCEmitters
  EfCapacity = 2
  EfMaxEvents = 6
  SdCall <- MCCalls
  SdMaxFile = 2
  ApWorkerCalls = {"shell"}
  ApMaxFlips = 2
  ApMaxRequests = 2
  ApMaxGrants = 1
  IpMaxExecs = 3
  IpMaxResets = 1
  FtPath <- MCPaths
  FtSlots <- MCCalls
  FtMaxCalls = 2
  FtMaxOutside = 1
  TxLetter = {"a", "b"}
  TxMaxPat = 3
  TxMaxText = 5
  TuMaxPrompts = 2
  TuMaxWakeups = 1
  TuMaxClears = 1
  StBytes = 6
  StEvents = 4
  StMsgMax = 6
  CaProcess <- MCSpawns
  CaRequest <- MCAuthRequests
  CaOwner <- MCAuthOwner
  CaMaxTime = 2
  CaMaxRounds = 3
  SpCall <- MCAuthRequests
  SpTool <- MCToolOf
  SpMaxLines = 3
  TrId <- MCSpawns
  TrSizes = {1, 4, 7}
  TrLimit = 3
  TrElideMin = 2
  TrBudget = 6
  TrPages = {2}
  TrMaxResults = 3
  ArId <- MCSpawns
  ArKeep = 0
  ArCap = 3
  ArMaxCalls = 2
  ArMaxSays = 2
  SxErrMax = 2
  SxOutMax = 1
  SxChunk = 3
  SxLimit = 2
  PhHooks = 2
  PhInput = 2
  PhPipe = 1
  PhLimit = 1
  MrOrder <- MCServers
  MrLaunch = {1, 2}
  MrPlugin <- MCPlugins
  MrClashes <- MCSameTool
  MrMaxEdits = 2
INVARIANTS
  GroupingRight
  ObExact
  ShSafe
  EfSafe
  SdSafe
  MrSafe
  TxExact
  TuSafe
  StFaithful
  CaSafe
  SpSafe
  TrSafe
  ArShown
  SxSafe
  PhSafe
PROPERTIES
  ApSafe
  
  FtSafe
  CaRenewedForCause
CHECK_DEADLOCK FALSE
