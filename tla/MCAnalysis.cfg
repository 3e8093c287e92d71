CONSTANTS
  Events <- MCEvents
  MaxEvents = 4
  MaxAnalyses = 2
  Window = 1
  MaxCandidates = 2
  MaximumRelations = 4
  Rooms = {3, 5}
SPECIFICATION AnalysisSpec
INVARIANTS
  RelationsAreObservations
  RelationsAreCounted
  FindingsComeLast
