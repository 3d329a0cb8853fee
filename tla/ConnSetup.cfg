CONSTANTS
  Thread = {t1, t2}
  Starter = t1
  NoThread = NoThread
  MaxConn = 4
  MaxFaults = 1
SPECIFICATION FairSpec
INVARIANT TypeOK
INVARIANT MetadataFindsReceive
INVARIANT KeptConnectionIsServed
INVARIANT OrderlyUntilFirstLeaves
INVARIANT OneSetUpAtATime
INVARIANT SetupInv
INVARIANT RequestHasCaller
PROPERTY ImplementsConnService
PROPERTY EveryThreadConnects
CHECK_DEADLOCK FALSE
