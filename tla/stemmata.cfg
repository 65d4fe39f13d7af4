SPECIFICATION SpecApart
CONSTANTS
  A = A  B = B  h = h
  Sigil = {A, B, h}
  Extant = {A, B}
  Name = {m, n}
  Id = {i1, i2}
  Client = {C, D}
  Graph <- MCGraph
  Unsaved = Unsaved
  None = None
INVARIANTS TypeOK LinksOwned NamesUnique
PROPERTIES StemmaKept TreeRooted
CHECK_DEADLOCK FALSE
SYMMETRY Alike
