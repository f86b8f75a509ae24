SPECIFICATION OrderGatewaySpec
CONSTANTS
  s1 = s1
  s2 = s2
  t1 = t1
  t2 = t2
  u1 = u1
  u2 = u2
  o1 = o1
  Sockets <- ThreeSockets
  Ids <- ThreeSockets
  Users <- TwoUsers
  Owner <- ThreeOwners
  MaxConnections = 1
  Patient <- OnePatient
  Limit = 2
  WindowMs = 2
  MaxTime = 4
  MaxCount = 2
  Orders <- OneOrder
  Customer <- OfTheFirst
  Staff <- TheSecond
  Talkers <- TwoTalkers
VIEW RecentView
CHECK_DEADLOCK FALSE
INVARIANT RoomsGuarded
INVARIANT WindowsReleased
INVARIANT SlidingBound
INVARIANT ConnectionsBounded
PROPERTY PatientRefusedOnlyAtLimit
PROPERTY RejectionsJustified
