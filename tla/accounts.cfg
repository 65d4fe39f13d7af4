SPECIFICATION SpecApart
CONSTANTS
  UserId = {u, v}
  UserNode = {m, n}
  Trad = {s, t}
  FileId = {f}
  Client = {A, B, C}
  Empty = Empty
  Text = Text
  None = None
INVARIANTS TypeOK OneOwner IdsUnique
PROPERTIES OwnerKept OwnedInTheEnd
CHECK_DEADLOCK FALSE
