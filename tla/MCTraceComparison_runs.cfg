\* Runs and their checkpoints from any initial state, with and without events, and
\* the comparison of some of their traces.
CONSTANTS
  Radix = 4
  None = None
  Vectors <- Vector1
  RstOpcodes <- OneRst
  RstEntry <- OneRstEntry
  Im1Entry = 8
  NmiEntry = 9
  Program <- Guest
  InitRam <- FilledRam
  Erratum = FALSE
  Host <- EventHost
  Initials <- Manifests
  EventLists <- WithAndWithout
  StopSteps = 6
  OnHalt = TRUE
  AtPc = {7}
  CpmMinimal = TRUE
  WarmBoot = 0
  BdosEntry = 5
  Bdos <- GuestBdos
  Dollar = 3
  Every = 2
  OutputBound = 3
  Compared <- ComparedManifests
CHECK_DEADLOCK FALSE
SPECIFICATION FairTraces
INVARIANTS
  SegmentsReplayRun
  NoEventMissed
  FirstDifferenceReported

  
