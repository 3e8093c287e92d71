CONSTANTS
  r1 = r1
  r2 = r2
  t1 = t1
  t2 = t2
  Round = {r1, r2}
  NativeIdentity = {t1, t2}
  PositiveMax = 1
  MaximumPairedEvents = 4
  MaxFrames = 5
SPECIFICATION ReceiptsSpec
INVARIANTS
  SamplesAreExact
  RecordsAreAccounted
  QuantilesAreRanks
SYMMETRY MCSymmetry
