CONSTANTS
  t1 = t1
  t2 = t2
  Thread <- MCThread
  NoRecord = NoRecord
  ByteLimit = 8
  Sizes <- MCSizes
  IndexLine = 2
  MaxRecords = 3
  MaxClock = 1
SPECIFICATION Spec
SYMMETRY Symmetry
INVARIANTS
  IndexContract
  RowsPointAtTheirPayload
  CompleteIsDurable
PROPERTY ImplementsEvidenceLog
CHECK_DEADLOCK FALSE
