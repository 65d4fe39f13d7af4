SPECIFICATION SpecApart
CONSTANTS
  note = note
  Name = {note}
  Anno = {a, b, c}
  Read = {r}
  Client = {A, B}
  Linkset <- MCLinkset
  MaxLinks = 3
  MaxWalk = 9
  Reading = Reading
  None = None
INVARIANTS TypeOK LabelsKnown LinkedOnce WalkAgrees
PROPERTIES OnlyDangling NoneLeft
SYMMETRY Alike
CHECK_DEADLOCK FALSE
