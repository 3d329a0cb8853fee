CONSTANTS
  MaxWR = 2
  AckWindow = 1
  Op = {"READ", "SOCKET"}
  Payload = {p1}
  Zeroed = Zeroed
  NoOutcome = NoOutcome
  Result <- MCResult
  MaxChunks = 2
  MaxRetries = 1
  DrainMax = 2
SPECIFICATION Spec
INVARIANT ReplyBelongsToCall
