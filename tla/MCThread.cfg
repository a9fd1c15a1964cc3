SPECIFICATION FairSpec
CONSTANTS
  u1 = u1
  u2 = u2
  a1 = a1
  a2 = a2
  NoSlot = NoSlot
  MaxTasks = 2
  Policies <- Separately
  Users <- MCUsers
  Slots <- MCSlots
INVARIANTS
  StackIsMapped
  TidMeansUsed
  JoinedIsGone
  Reclaimed
PROPERTIES
  JoinReturns
CHECK_DEADLOCK FALSE
