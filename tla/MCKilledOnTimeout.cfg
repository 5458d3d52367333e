SPECIFICATION ProcessSpec
CONSTANTS
  Program <- MCProgram
  Capacity = 2
  MaxInput = 3
INVARIANTS
  KilledOnTimeout
CHECK_DEADLOCK FALSE
