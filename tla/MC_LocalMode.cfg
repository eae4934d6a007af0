SPECIFICATION Spec
CONSTANTS
  d1 = d1  d2 = d2  j1 = j1  j2 = j2  s1 = s1  s2 = s2  n1 = n1  n2 = n2
  DB = {d1}
  DbName = {n1}
  NameOf <- SameNames
  Job = {j1}
  DbOf <- OneDb
  Slot = {s1, s2}
  MaxRetries = 2
  SweepEvery = 1
  MaxSecond = 1
  IsRoot = TRUE
  Modes = {"s3", "local"}
  Editable = {}
  NoFile = NoFile  Partial = Partial  NoRow = NoRow  Idle = Idle
INVARIANTS LocalModeNeverUploads
CHECK_DEADLOCK FALSE
