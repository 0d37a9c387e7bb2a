SPECIFICATION Spec
CONSTANTS
  MAGIC = 7
  Addresses <- LowHalves
  Counts = {0, 1}
  NameLen = 2
  MaxFiles = 2
  MaxEntries = 2
INVARIANTS InStep
PROPERTIES DumpComplete ParseAdvances
