SPECIFICATION SpecApart
CONSTANTS
  UserId = {u, v}
  UserNode = {m, n}
  Trad = {s, t}
  FileId = {f}
  Client = {A, B, C}
  Empty = Empty
  Text = Text
  None = None

PROPERTIES RefusedIsDeleted
CHECK_DEADLOCK FALSE
