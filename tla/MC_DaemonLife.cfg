SPECIFICATION LifeSpec
CONSTANTS
  i1 = i1  i2 = i2
  PID = {p1, p2, p3}
  Stopper = {c1}
  NoFile = NoFile
  NoPID = NoPID
  ID = {i1, i2}
  Lists <- SomeLists
  MaxFaults = 3
INVARIANTS LifeTypeOK OneDaemonUnlessRaced FileNamesDaemonUnlessRaced UnracedInv
  RestartInv RestartReplaces EnabledRunOnce ServesWholeSchedule
PROPERTIES ServiceComesBack
CHECK_DEADLOCK FALSE
