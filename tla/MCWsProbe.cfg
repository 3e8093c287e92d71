CONSTANTS
  Timeout = 5
  Attempts = 2
  Second = 2
  MaxMessages = 3
SPECIFICATION Spec
INVARIANTS
  SuccessIsProved
  TimeoutHadItsTime
PROPERTIES
  ProbeReturns
