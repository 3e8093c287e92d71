CONSTANTS
  MaxPrice = 3
  MaxLevels = 2
  MaxPublished = 3
  MaxFrames = 3
  FirstBooks <- MCFirstBooks
SPECIFICATION Spec
INVARIANTS
  ReconstructionIsTrue
  UnbrokenBookIsValid
PROPERTIES
  RowsFollowTheBook
