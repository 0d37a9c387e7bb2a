SPECIFICATION ReportSpec
CONSTANTS
  Syms = {a, b}
  NULL = NULL
  DCollect = TRUE
  DSplit = TRUE
  Stmts <- Strings
  MaxFrags = 6
  MaxStmts = 4
  MaxGrow = 0
  Modulus = 65536
SYMMETRY Symmetry
INVARIANTS IndirectCounts
