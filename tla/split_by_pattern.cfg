SPECIFICATION SpecEdit
CONSTANTS
  x = x  y = y  z = z
  A = A  B = B  ac = ac  tr = tr
  Reading = {S, E, x, y, z, f}
  Start = S
  End = E
  Sigil = {A, B}
  Layer = {ac}
  Type = {}
  Word = {"u", "v", "#START#", "#END#"}
  MaxRank = 4
  MaxBatch = 2
  MaxEdits = 1
  Initial <- MCShared
PROPERTIES SplitKeepsText
CHECK_DEADLOCK FALSE
