\* Steps and runs over a board whose devices work around the CPU step.
CONSTANTS
  Radix = 3
  None = None
  Vectors <- TwoVectors
  RstOpcodes <- OneRst
  RstEntry <- OneRstEntry
  Im1Entry = 3
  NmiEntry = 4
  Program <- Guest
  InitRam <- ZeroRam
  Erratum = FALSE
  Host <- Calls
  Cost <- ScaledCost
  HistoryLimit = 1
  BreakAddrs = {1}
  WatchAddrs = {8}
  StepLimits = {3}
  TLimits = {2}
  SessionSteps = 3
  DevicesBefore = TRUE
  DevicesAfter = FALSE
  OtherSessions = TRUE
SPECIFICATION FairSession
INVARIANTS
  KindIsWorkDone
  
  WatchedAccessStops
  BusGivenBack
PROPERTIES
  NoInstructionPastBreakpoint
