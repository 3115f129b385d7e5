CONSTANTS
  AW = 2
  PreambleSamples = 2
  SymbolSamples = 2
  SymbolWords = 1
  DataSymbols = 1
  MaxSymbols = 2
  Prime = 3
  ResetClocks = 1
  Frames = 2
  MaxRuns = 1
  MaxFound = 2
  ShortWaits = FALSE
  Silence = Silence
SPECIFICATION FairSpec
INVARIANTS
  TypeOK
  FifoNeverWrong
  ReadsWhole
PROPERTIES
  BurstKept
  TxEnds
  RxCompletes
CHECK_DEADLOCK FALSE
