SPECIFICATION AgSpec
CONSTANTS
  Jobs = {j1, j2, j3}
  Null = Null
  MaxDepth = 2
  MaxRequests = 2
INVARIANTS JobListSound OneWakeUp AwaitMatches AnsweredInOrder
PROPERTIES ImplementsFifo RequestsAnswered
CHECK_DEADLOCK FALSE
