SPECIFICATION Spec
CONSTANTS
  Funcs = {f}
  NULL = NULL
  SecOrder <- MCSecOrder
  Collected = {".text", ".text.unlikely"}
  MaxFrags = 6
  MaxStmts = 5
  MaxGrow = 1
INVARIANTS BBTypeOK SizesAddUp StartsRecorded HandBlocksContiguous FixesOfOwnBlock FixupsSerial
