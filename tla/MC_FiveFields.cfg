SPECIFICATION LifeSpec
CONSTANTS
  i1 = i1  i2 = i2
  PID = {p1, p2}
  Stopper = {c1}
  NoFile = NoFile
  NoPID = NoPID
  ID = {i1, i2}
  Lists <- SomeLists
  MaxFaults = 1
INVARIANTS SchedulesParse
CHECK_DEADLOCK FALSE
