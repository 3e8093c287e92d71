CONSTANTS
  a = a
  b = b
  Channel <- Pair
  Order <- PairOrder
  Rounds = 1
  Attempts = 3
  Duration = 3
  Timeout = 1
  ReadLimit = 2
  Delay <- OneTick
  Capturable <- Pair
  Subscribing <- Pair
  Heartbeats = TRUE
  CapturePcap = FALSE
SPECIFICATION Spec
INVARIANTS
  SessionsAreReadable
  OutageIsMeasuredWhole
  StatusZeroIsEarned
  BarrierIsUsedOnce
PROPERTIES
  RoundKeepsItsDeadline
  CaptureEnds
