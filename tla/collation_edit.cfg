SPECIFICATION SpecLemma
CONSTANTS
  x = x  y = y  z = z
  A = A  B = B  ac = ac  tr = tr
  Reading = {S, E, x, y, z, f}
  Start = S
  End = E
  Sigil = {A, B}
  Layer = {ac}
  Type = {}
  Word = {"u", "v", "#START#", "#END#"}
  MaxRank = 4
  MaxBatch = 2
  MaxEdits = 5
  Initial <- MCBoth
INVARIANTS StartComesFirst LemmaTextReadable
PROPERTIES RankOrderKept WitnessesKept MergeKeepsText LemmaPlacesKept
CHECK_DEADLOCK FALSE
