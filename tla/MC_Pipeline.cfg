SPECIFICATION Spec
CONSTANTS
  v1 = v1  v2 = v2  t1 = t1  t2 = t2
  Run = {b1, b2}
  Reader = {r1, r2}
  Version = {v1, v2}
  LinesOf <- Dumps
  Mixed = Mixed
  Table = {t1, t2}
  NoTable = NoTable
  KeyValue = {k1, k2}
  NoKey = NoKey
  NoFile = NoFile
  MaxCommands = 4
SYMMETRY Symmetry
INVARIANTS TypeOK ReadsWhatWasDumped HalfRestoredIsKnown VerifiedCanBeRestored
  ReportedCanBeRestored ReportAddsUp CleanupRemovesOld
PROPERTIES CleanupKeepsRecent
CHECK_DEADLOCK FALSE
