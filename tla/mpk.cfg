SPECIFICATION Spec
CONSTANTS
  Threads = {m, t}
  Main = m
  NULL = NULL
  PageSize = 2
  MaxPage = 4
  Keys = {1, 2}
  Programs <- MCPrograms
  Libraries <- MCLibraries
  MaxObjs = 2
INVARIANTS MpkTypeOK CodeUnreadable OnlyCodeKeyed
PROPERTIES PermissionsKept NoRightsGained InitEnds
