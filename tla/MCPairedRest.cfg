CONSTANTS
  Rounds = 2
  Warmups = 1
  Cadence = 1
  Duration = 1
  Timeout = 2
  Capacity = 16
  Bodies <- MCBodies
  RowBytes = 1
SPECIFICATION Spec
INVARIANTS
  RequestsStayInTheirRound
  RowsPointAtTheirBodies
  PairIsTogether
  NewConnectionOnlyAtRoundStart
  CompleteIsWhole
PROPERTIES
  ImplementsEvidenceLog
  CaptureEnds
