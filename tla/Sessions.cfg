SPECIFICATION Spec
CONSTANTS
  c1 = c1
  c2 = c2
  c3 = c3
  g1 = g1
  g2 = g2
  s1 = s1
  s2 = s2
  SessionIds = {s1, s2}
  Connections = {c1, c2, c3}
  Pages = {g1, g2}
  Procs = {p1}
  MaxChunks = 1
  MaxExits = 1
SYMMETRY Symmetry
INVARIANTS PagesAreServed
CHECK_DEADLOCK FALSE
