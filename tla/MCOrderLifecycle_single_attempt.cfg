SPECIFICATION FairSpec
CONSTANTS
  o1 = o1
  o2 = o2
  r1 = r1
  r2 = r2
  NoOrder = NoOrder
  Orders <- OneOrder
  Requests <- OneSlot
  MaxRequests = 1
  TypeInputs <- ScheduledOnly
  DeliveryInputs <- Pickup
  UpdateInputs <- AnyUpdate
  FaultPoints <- WorkerFaults
  MaxFaults = 1
  MaxCrashes = 0
  JobAttempts = 1
  MaxStalls = 1
CHECK_DEADLOCK FALSE
PROPERTY ReleasedWhenDue
