CONSTANTS
  MaxRequests = 3
  MaxLeft = 2
SPECIFICATION Spec
INVARIANTS
  AnswerIsToThisRequest
  ReuseIsTrue
  AvailableIsUsable
PROPERTIES
  RequestReturns
  ImplementsConnection
