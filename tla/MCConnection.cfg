SPECIFICATION Spec
CONSTANTS
  Requests <- MCRequests
  NoRequest = NoRequest
  FirstCallId = 100
  MaxSent = 5
  MaxCalls = 2
INVARIANTS
  FreshAnswers
  PoliteCallsAnswered
  NoCrossWait
PROPERTIES
  ThreadEnds
  KeepsPromise
CHECK_DEADLOCK FALSE
