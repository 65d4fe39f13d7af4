SPECIFICATION SpecInOrder
CONSTANTS
  Section = {a, b, c, d}
  Client = {C}
  None = None
INVARIANTS InOrder
PROPERTIES ImplementsList
CHECK_DEADLOCK FALSE
