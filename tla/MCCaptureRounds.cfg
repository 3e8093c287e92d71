CONSTANTS
  a = a
  b = b
  Channel <- Pair
  Order <- PairOrder
  Rounds = 2
  Attempts = 1
  Duration = 1
  Timeout = 1
  ReadLimit = 1
  Delay <- OneTick
  Capturable <- Pair
  Subscribing <- OnlyA
  Heartbeats = FALSE
  CapturePcap = TRUE
SPECIFICATION Spec
INVARIANTS
  NobodyStartsEarly
