SPECIFICATION FairSpec
CONSTANTS
  o1 = o1
  o2 = o2
  r1 = r1
  r2 = r2
  NoOrder = NoOrder
  Orders <- OneOrder
  Requests <- TwoSlots
  MaxRequests = 4
  TypeInputs <- Both
  DeliveryInputs <- Pickup
  UpdateInputs <- AnyUpdate
  FaultPoints <- WorkerFaults
  MaxFaults = 2
  MaxCrashes = 0
  JobAttempts = 3
  MaxStalls = 1
CHECK_DEADLOCK FALSE
PROPERTY ReleasedWhenDue
PROPERTY EveryStatusAnnounced
