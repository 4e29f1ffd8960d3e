\* Any program on a machine of four addresses, every host request and cancel.
CONSTANTS
  Radix = 2
  None = None
  Vectors <- TwoVectors
  RstOpcodes <- OneRst
  RstEntry <- OneRstEntry
  Im1Entry = 1
  NmiEntry = 2
  Program <- AnyProgram
  InitRam <- ZeroRam
  Erratum = TRUE
  Host <- AnyHost
SPECIFICATION FairSpec
INVARIANTS
  TypeOK
  EiDelayCoversOneInstruction
PROPERTIES
  RequestsConserved
  StepAsPredicted
  KeepsContract
  HaltWakes
