CONSTANTS
  MaxWR = 2
  AckWindow = 1
  Op = {"READ", "WRITE"}
  Payload = {p1}
  Zeroed = Zeroed
  NoOutcome = NoOutcome
  Result <- MCResult
  MaxChunks = 1
  MaxRetries = 1
  DrainMax = 2
SPECIFICATION Spec
INVARIANT ReplyIntact
