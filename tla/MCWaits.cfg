SPECIFICATION WaitsSpec
\* The services may all have ended, with no consumer left to come; a script may stop, and
\* a call that is Blockable may be stuck.
CHECK_DEADLOCK FALSE
CONSTANTS
  Promise <- MCPromise
  Lists <- MCLists
  Program <- MCProgram
  Capacity = 2
  MaxInput = 3
  Service = {"s", "t", "u"}
  OnUnix = {"s", "t"}
  Consumer = {"c", "d"}
INVARIANTS
  DeliveredOnce
  ResultsInOrder
  ResultIsComplete
  NilIsTheEnd
PROPERTIES
  WaitsReturn
  CallsReturn
  EveryoneTakenIn
