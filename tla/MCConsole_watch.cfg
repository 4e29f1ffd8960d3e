\* continue leaves a breakpoint by a step that touches a watched byte.
CONSTANTS
  Radix = 4
  None = None
  Vectors <- TwoVectors
  RstOpcodes <- OneVector
  RstEntry <- OneRstEntry
  Im1Entry = 6
  NmiEntry = 7
  Program <- Guest
  InitRam <- ZeroRam
  Erratum = FALSE
  Host <- Calls
  Cost <- UnitCost
  HistoryLimit = 0
  BreakAddrs = {1}
  WatchAddrs = {15}
  StepLimits = {}
  TLimits = {}
  SessionSteps = 4
  DevicesBefore = FALSE
  DevicesAfter = TRUE
  OtherSessions = FALSE
  ContinueSteps = 3
  OverSteps = 2
  SetValues = {}
SPECIFICATION ConsoleSpec
INVARIANTS
  ContinueStopsOnWatch
