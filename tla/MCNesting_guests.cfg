\* Two guests with handlers, hit by INTs and NMIs at any moment.
CONSTANTS
  Radix = 6
  None = None
  Vectors <- OneVector
  RstOpcodes <- OneVector
  RstEntry <- OneRstEntry
  Im1Entry = 0
  NmiEntry = 7
  Program <- Guests
  InitRam <- ZeroRam
  Erratum = FALSE
  Host <- Devices
  MaxInt = 3
  MaxNmi = 3
  Starts = {10, 18}
  Sleeper = 18
  Done = 23
SPECIFICATION FairGuest
INVARIANTS
  HandlersDoNotPileUp
PROPERTIES
  ReturnsToInterrupted
  NmiGivesEnableBack
  EveryRequestServed
  WakeUpNotLost
