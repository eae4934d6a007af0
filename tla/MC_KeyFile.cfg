SPECIFICATION Spec
CONSTANTS
  k1 = k1  k2 = k2  k3 = k3  c1 = c1  c2 = c2  a1 = a1  a2 = a2
  KeyValue = {k1, k2, k3}
  Command = {c1, c2}
  Agent = {a1, a2}
  NoKey = NoKey  Torn = Torn
SYMMETRY Symmetry
INVARIANTS TypeOK WorksWithTheKey KeysAreKept
CHECK_DEADLOCK FALSE
