SPECIFICATION Spec
CONSTANTS
  CGB = FALSE
  Starts <- MCStarts
  Batches = {4, 20}
  Requests = {1, 3}
  MaxRequests = 3
INVARIANTS ArithmeticRight InterruptsInvisible
PROPERTIES ImplementsProcessor
CONSTRAINT Bounded
CHECK_DEADLOCK FALSE
