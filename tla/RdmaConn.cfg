CONSTANTS
  MaxWR = 2
  AckWindow = 1
  Op = {"SOCKET", "READ", "WRITE"}
  Payload = {p1}
  Zeroed = Zeroed
  NoOutcome = NoOutcome
  Result <- MCResult
  MaxChunks = 1
  MaxRetries = 1
  DrainMax = 2
SPECIFICATION FairSpec
INVARIANT TypeOK
INVARIANT NoLostWakeup
INVARIANT ReceiveAlwaysPosted
INVARIANT ReplyBelongsToCall
INVARIANT SendQueueNeverFull
INVARIANT SettledInv
PROPERTY ExecutedAtMostOnce
PROPERTY ImplementsSocketCall
PROPERTY CallReturns
