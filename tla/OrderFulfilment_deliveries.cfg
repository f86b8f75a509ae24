SPECIFICATION FairFulfilSpec
CONSTANTS
  NoOrder = NoOrder
  NoCourier = NoCourier
  Orders = {o1}
  Requests = {r1}
  Desks = {d1, d2}
  Couriers = {c1}
  MaxRequests = 2
  MaxDeskCalls = 4
  Hooks = {h1, h2}
  MaxHookCalls = 2
  HookInputs = {"ACCEPTED", "DELIVERED", "CANCELLED", "OTHER"}
  MaxSyncs = 2
  TypeInputs = {"INSTANT"}
  DeliveryInputs <- DeliveryTypes
  UpdateInputs <- Statuses
  FaultPoints = {"createTask", "assignTask", "assignTaskAnswer", "setTask",
                 "completeOrder", "completeOrderAnswer", "setParcel", "setOrder",
                 "setOrderAnswer", "syncWrite", "updateTx", "updateTxAnswer"}
  MaxFaults = 2
  MaxCrashes = 1
  JobAttempts = 1
  MaxStalls = 1
CHECK_DEADLOCK FALSE
INVARIANT UnrecordedOnlyByCarriers
INVARIANT AnnouncedWasWritten
INVARIANT GlovoFollowed
PROPERTY CourierKept
PROPERTY DoneCompletes
