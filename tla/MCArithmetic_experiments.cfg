\* Every experiment of MCArithmetic; a program ends, so the behaviour does.
CONSTANT Experiments <- AllExperiments
SPECIFICATION ArithmeticSpec
INVARIANTS
  DecimalChains
  FlagsTellRanges
  WideIsTwoNarrow
  RotationsUndone
  ScfCcfSeeLastWriter
CHECK_DEADLOCK FALSE
