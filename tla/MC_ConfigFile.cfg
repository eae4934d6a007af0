SPECIFICATION Spec
CONSTANTS
  i1 = i1  i2 = i2  t1 = t1  t2 = t2  c1 = c1  c2 = c2
  ID = {i1, i2}
  Target = {t1, t2}
  DiscoveredID <- OneID
  Command = {c1, c2}
  Elsewhere <- OneEntry
  MaxDbs = 2
SYMMETRY Symmetry
INVARIANTS TypeOK EditsAreKept IDsStayDifferent NothingSilentlyDropped
CHECK_DEADLOCK FALSE
