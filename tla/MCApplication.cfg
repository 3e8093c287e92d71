CONSTANTS
  MaxGiven = 4
  MaxCases = 2
  MaxAttempts = 2
SPECIFICATION Spec
INVARIANTS
  CaptureIsAsConfirmed
  ZeroMeansDone
