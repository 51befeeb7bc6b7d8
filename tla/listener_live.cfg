\* One service and its worker under fairness: a batch over three streams, one token.
CONSTANTS
  w1 = w1
  Workers = {w1}
  Streams = {1, 2, 3}
  MaxLen = 1
  MaxCount = 2
  MaxConcurrent = 1
SPECIFICATION FairBusSpec
INVARIANTS
  StopAwaitsTheWorker
PROPERTIES
  NewMessageAttempted
  CloseTerminates
  StopTerminates
