SPECIFICATION FairSpec
CONSTANTS
  Calls = {c1, c2, c3}
  NoToken = NoToken
  LeaseTicks = 3
  WaitTicks = 1
INVARIANTS
  TypeOK
  Exclusive
PROPERTIES
  LeaseIsNotStolen
  Answered
  DeadLockExpires
