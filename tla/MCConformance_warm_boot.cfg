\* BDOS returns to 0x0000 and the instruction there is executed.
CONSTANTS
  Radix = 4
  None = None
  Vectors <- Vector1
  RstOpcodes <- OneRst
  RstEntry <- OneRstEntry
  Im1Entry = 8
  NmiEntry = 9
  Program <- TailCallGuest
  InitRam <- ZeroRam
  Erratum = FALSE
  Host <- EventHost
  Initials <- FromOne
  EventLists <- NoEvents
  StopSteps = 4
  OnHalt = TRUE
  AtPc = {}
  CpmMinimal = TRUE
  WarmBoot = 0
  BdosEntry = 5
  Bdos <- GuestBdos
  Dollar = 3
  Every = 2
  OutputBound = 3
CHECK_DEADLOCK FALSE
SPECIFICATION ManifestSpec
PROPERTIES
  WarmBootEnds
