SPECIFICATION Spec
CONSTANTS
  Syms = {a, b}
  NULL = NULL
  DCollect = FALSE
  DSplit = TRUE
  Stmts <- Mixed
  MaxFrags = 7
  MaxStmts = 4
  MaxGrow = 1
SYMMETRY Symmetry
INVARIANTS NoCodeMoved
