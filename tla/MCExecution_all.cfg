\* Every instruction of every page behind up to three prefixes, from machines at
\* the edges.  A behaviour is one instruction, so it ends.
CONSTANTS
  OperandBytes = {0, 128, 203, 221}
  MaxPrefixes = 3
  MemoryByte <- MCMemoryByte
  PortByte <- MCPortByte
  Machines <- MCMachines
SPECIFICATION ExecutionSpec
INVARIANTS
  DecodersAgree
  IndexInPlaceOfHl
  DisplacedReachesAddress
  AccessesAsTimed
  QTellsWhoWroteF
  WidthsKept
CHECK_DEADLOCK FALSE
