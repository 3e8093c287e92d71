CONSTANT MaxLeft = 3
SPECIFICATION CallSpec
INVARIANTS
  NothingOutlivesTheCall
  OutcomeIsTrue
PROPERTY EveryCallReturns
