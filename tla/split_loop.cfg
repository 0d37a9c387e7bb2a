SPECIFICATION Spec
CONSTANTS
  N = 6
  XLen = 2
  NULL = NULL
INVARIANTS NoFragLost EndsAgree PrevPrecedes SymbolsFollow AssertHolds NoOpenAlignment
PROPERTIES SplitsAsSpecified
