CONSTANTS
  MaxGiven = 4
  MaxCases = 1
  MaxAttempts = 1
SPECIFICATION Spec
INVARIANT ConfirmedPrivateIsServed
