CONSTANTS
  AW = 2
  PreambleSamples = 2
  SymbolSamples = 2
  SymbolWords = 1
  DataSymbols = 1
  MaxSymbols = 2
  Prime = 3
  ResetClocks = 1
  Frames = 2
  MaxRuns = 1
  MaxFound = 1
  ShortWaits = TRUE
  Silence = Silence
SPECIFICATION Spec
PROPERTY BusyStartIgnored
CHECK_DEADLOCK FALSE
