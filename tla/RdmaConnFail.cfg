CONSTANTS
  MaxWR = 2
  AckWindow = 1
  Op = {"READ"}
  Payload = {p1}
  Zeroed = Zeroed
  NoOutcome = NoOutcome
  Result <- MCResult1
  MaxChunks = 2
  MaxRetries = 0
  DrainMax = 1
SPECIFICATION Spec
INVARIANT CompletionQueueBounded
CHECK_DEADLOCK FALSE
