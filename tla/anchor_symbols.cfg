SPECIFICATION Spec
CONSTANTS
  Syms = {a, b}
  NULL = NULL
  DCollect = TRUE
  DSplit = TRUE
  Stmts <- Growing
  MaxFrags = 7
  MaxStmts = 4
  MaxGrow = 0
SYMMETRY Symmetry
INVARIANTS AllSymbolsFollow
