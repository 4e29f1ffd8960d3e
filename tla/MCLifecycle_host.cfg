\* Snapshots and decode_and_execute at any boundary of a guest with handlers.
CONSTANTS
  Radix = 2
  None = None
  Vectors <- OneVector
  RstOpcodes <- OneRst
  RstEntry <- OneRstEntry
  Im1Entry = 1
  NmiEntry = 2
  Program <- GuestProgram
  InitRam <- ZeroRam
  Erratum = FALSE
  Host <- DebuggerHost
SPECIFICATION Spec
INVARIANTS
  IffOrdered
  EiWindowHolds
