SPECIFICATION AccountsSpec
CONSTANTS
  u1 = u1
  u2 = u2
  u3 = u3
  m1 = m1
  m2 = m2
  e1 = e1
  e2 = e2
  p1 = p1
  p2 = p2
  w1 = w1
  w2 = w2
  a1 = a1
  a2 = a2
  a3 = a3
  r1 = r1
  r2 = r2
  Nothing = Nothing
  NoAddress = NoAddress
  UserIds <- SomeUsers
  StaffIds <- SomeStaff
  Emails <- TwoEmails
  Phones <- TwoPhones
  Passwords <- TwoPasswords
  Owner = u1
  NewStaff <- SomeNewStaff
  Edits <- OneField
  Admin = m1
  Addresses <- SomeAddresses
  OldDefault = a1
  Requests <- TwoSlots
  Slots <- TwoSlots
  FaultPoints <- SomeFaults
  MaxFaults = 1
  MaxCalls = 2
SYMMETRY Symmetry
CHECK_DEADLOCK FALSE
INVARIANT AccountsInv
INVARIANT EntitledOnly
INVARIANT DefaultsBounded
PROPERTY FieldsKept
