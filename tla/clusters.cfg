SPECIFICATION HSpec
CONSTANTS
  r1 = r1
  r2 = r2
  r3 = r3
  r4 = r4
  s1 = s1
  s2 = s2
  Client = {A, B, C}
  Reading <- MCReading
  Section <- MCSection
  Home <- MCHome
INVARIANTS TypeOK AloneSucceeds
PROPERTIES AnswerIsRecent
SYMMETRY Alike
CHECK_DEADLOCK FALSE
