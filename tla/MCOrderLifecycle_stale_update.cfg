SPECIFICATION Spec
CONSTANTS
  o1 = o1
  o2 = o2
  r1 = r1
  r2 = r2
  NoOrder = NoOrder
  Orders <- OneOrder
  Requests <- TwoSlots
  MaxRequests = 4
  TypeInputs <- InstantOnly
  DeliveryInputs <- Pickup
  UpdateInputs <- AnyUpdate
  FaultPoints <- NoFaults
  MaxFaults = 0
  MaxCrashes = 0
  JobAttempts = 1
  MaxStalls = 1
SYMMETRY SlotSymmetry
CHECK_DEADLOCK FALSE
PROPERTY StatusStepsValid
