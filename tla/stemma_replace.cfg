SPECIFICATION SpecReplace
CONSTANTS
  A = A  B = B  h = h
  Sigil = {A, B, h}
  Extant = {A, B}
  Name = {m}
  Id = {i1, i2}
  Client = {C}
  Graph <- MCGraph
  Unsaved = Unsaved
  None = None
PROPERTIES ReplaceKeeps
CHECK_DEADLOCK FALSE
