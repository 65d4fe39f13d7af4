SPECIFICATION SpecRelation
CONSTANTS
  x = x  y = y  z = z
  A = A  B = B  ac = ac  tr = tr
  Reading = {S, E, x, y, z, f}
  Start = S
  End = E
  Sigil = {A, B}
  Layer = {ac}
  Type = {tr}
  Word = {"u", "v", "#START#", "#END#"}
  MaxRank = 4
  MaxBatch = 1
  MaxEdits = 4
  Initial <- MCTransposed
INVARIANTS RelationsAttached
PROPERTIES RelatedApart
CHECK_DEADLOCK FALSE
