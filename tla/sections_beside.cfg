SPECIFICATION SpecBeside
CONSTANTS
  Section = {a, b, c, d}
  Client = {C, D, E}
  None = None
INVARIANTS TypeOK
PROPERTIES OrderKept
CHECK_DEADLOCK FALSE
SYMMETRY Alike
