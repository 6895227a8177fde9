\* Two calls at a time, any number after each other, that find no bridge to
\* connect to, and two children at a time.
CONSTANTS
  Call = {c1, c2}
  Conn = {}
  Child = {p1, p2}
  None = None
SPECIFICATION Spec
PROPERTIES EveryCallEnds
