\* continue, over, reset and set on a recursive routine under interrupts.
CONSTANTS
  Radix = 4
  None = None
  Vectors <- TwoVectors
  RstOpcodes <- OneVector
  RstEntry <- OneRstEntry
  Im1Entry = 6
  NmiEntry = 7
  Program <- Guest
  InitRam <- ZeroRam
  Erratum = FALSE
  Host <- IntCalls
  Cost <- UnitCost
  HistoryLimit = 0
  BreakAddrs = {4}
  WatchAddrs = {}
  StepLimits = {}
  TLimits = {}
  SessionSteps = 4
  DevicesBefore = FALSE
  DevicesAfter = TRUE
  OtherSessions = FALSE
  ContinueSteps = 2
  OverSteps = 3
  SetValues = {4}
SPECIFICATION FairConsole
PROPERTIES
  
  CommandsEnd
