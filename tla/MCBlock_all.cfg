\* Every block instruction from every start, interrupted anywhere; the
\* model ends with the instruction.
CONSTANTS
  ByteRadix = 3
  Byte <- StoredBytes
  Memories <- BothMemories
  Site = 4
  HandlerEntry = 8
  Accumulators = {"p"}
  Operations <- BlockOps
  Stream <- FromDevice
  MaxInterrupts = 2
SPECIFICATION FairBlock
INVARIANTS
  CopiedExactly
  LeftOnlyWhenDone
  StopsAtFirstMatch
  PortsSeeEachByteOnce
PROPERTY BlockEnds
CHECK_DEADLOCK FALSE
