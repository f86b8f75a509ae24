SPECIFICATION OrderGatewaySpec
CONSTANTS
  s1 = s1
  s2 = s2
  t1 = t1
  t2 = t2
  u1 = u1
  u2 = u2
  o1 = o1
  Sockets <- FourSockets
  Ids <- FourSockets
  Users <- TwoUsers
  Owner <- FourOwners
  MaxConnections = 1
  Patient <- OnePatient
  Limit = 1
  WindowMs = 2
  MaxTime = 3
  MaxCount = 1
  Orders <- OneOrder
  Customer <- OfTheFirst
  Staff <- TheSecond
  Talkers <- TwoTalkers
CHECK_DEADLOCK FALSE
PROPERTY RefusedOnlyAtLimit
