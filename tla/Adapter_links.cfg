\* Two calls at a time, any number after each other; two connections and two
\* children at a time.
CONSTANTS
  Call = {c1, c2}
  Conn = {w1, w2}
  Child = {p1, p2}
  None = None
SYMMETRY Symmetric
SPECIFICATION Spec
INVARIANTS TypeOK LinkIsRead
