SPECIFICATION ReportSpec
CONSTANTS
  Syms = {a, b}
  NULL = NULL
  DCollect = TRUE
  DSplit = TRUE
  Stmts <- Whole
  MaxFrags = 7
  MaxStmts = 5
  MaxGrow = 0
  Modulus = 65536
SYMMETRY Symmetry
INVARIANTS NoCodeMoved LabelledDataMoved XomSymbolsInXom ReportsWhatMoved
