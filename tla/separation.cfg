SPECIFICATION Spec
CONSTANTS
  Syms = {a, b}
  NULL = NULL
  DCollect = TRUE
  DSplit = TRUE
  Stmts <- Mixed
  MaxFrags = 6
  MaxStmts = 4
  MaxGrow = 2
SYMMETRY Symmetry
INVARIANTS TypeOK NoCodeMoved GluedBytesStay LabelledDataMoved AlignmentFollows CollectMatchesSplit XomSymbolsInXom
