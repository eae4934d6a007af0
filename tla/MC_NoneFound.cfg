SPECIFICATION Spec
CONSTANTS
  d0 = d0  d1 = d1  d2 = d2  d3 = d3
  DB = {d0, d1, d2, d3}
  NameOf <- MixedNames
  Day = 2
  MaxSecond = 2
  RestoreLimit = 3
  VerifyLimit = 1
  Command = {c1}
  None = None
INVARIANTS NoneMeansNone
CHECK_DEADLOCK FALSE
