CONSTANTS
  MaxWR = 2
  AckWindow = 2
  Op = {"WRITE", "SELECT", "SETSOCKOPT"}
  Payload = {p1}
  Zeroed = Zeroed
  NoOutcome = NoOutcome
  Result <- MCResult2
  MaxChunks = 1
  MaxRetries = 1
  DrainMax = 2
SPECIFICATION Spec
INVARIANT DrainDropsNoReply
INVARIANT IInv
PROPERTY ImplementsSafely
CHECK_DEADLOCK FALSE
