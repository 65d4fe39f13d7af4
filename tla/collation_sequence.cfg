SPECIFICATION SpecSequence
CONSTANTS
  x = x  y = y  z = z
  A = A  B = B  ac = ac  tr = tr
  Reading = {S, E, x, y, z, f, g}
  Start = S
  End = E
  Sigil = {A, B}
  Layer = {ac}
  Type = {}
  Word = {"u", "v", "#START#", "#END#"}
  MaxRank = 4
  MaxBatch = 2
  MaxEdits = 3
  Initial <- MCLayered
INVARIANTS TypeOK
PROPERTIES BaseTextKept LayerTextKept DuplicateSeparates
CHECK_DEADLOCK FALSE
SYMMETRY Fresh
