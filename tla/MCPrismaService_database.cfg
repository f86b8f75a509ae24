SPECIFICATION FairPrismaSpec
CONSTANTS
  i1 = i1
  i2 = i2
  t1 = t1
  Instances <- TwoInstances
  Categories = 2
  MaxConnects = 2
  FaultPoints <- SeedFaults
  MaxFaults = 2
  Calls <- OneCall
  MaxRetries = 3
  Host <- InTheFirst
CHECK_DEADLOCK FALSE
INVARIANT SeededOnceInTurn
INVARIANT ServedComplete
PROPERTY StartsOrDies
PROPERTY EveryCallEnds
PROPERTY ImplementsAtomicCall
