SPECIFICATION Spec
CONSTANTS
  o1 = o1
  o2 = o2
  r1 = r1
  r2 = r2
  NoOrder = NoOrder
  Orders <- TwoOrders
  Requests <- TwoSlots
  MaxRequests = 3
  TypeInputs <- Both
  DeliveryInputs <- Pickup
  UpdateInputs <- AnyUpdate
  FaultPoints <- AllFaults
  MaxFaults = 1
  MaxCrashes = 1
  JobAttempts = 2
  MaxStalls = 1
SYMMETRY Symmetry
CHECK_DEADLOCK FALSE
INVARIANT IInv
INVARIANT HistoryFollowsStatus
INVARIANT NoStrandedOrder
INVARIANT NeverReleasedEarly
INVARIANT ReleasedOncePerDelivery
PROPERTY StatusStepsExplained
PROPERTY ImplementsJournal
