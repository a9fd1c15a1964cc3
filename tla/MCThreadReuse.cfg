SPECIFICATION Spec
CONSTANTS
  u1 = u1
  u2 = u2
  a1 = a1
  a2 = a2
  NoSlot = NoSlot
  MaxTasks = 2
  Policies <- Together
  Users <- MCUsers
  Slots <- MCSlots
INVARIANTS
  TidMeansUsed
CHECK_DEADLOCK FALSE
