SPECIFICATION FairSpec
CONSTANTS
  w1 = w1
  w2 = w2
  d1 = d1
  Withdrawals <- MCWithdrawals
  Deposits = {d1}
  Amount <- MCAmount
  MinWithdraw = 20
  Opening = {0, 20, 40}
  Changes <- MCChanges
  MaxChanges = 1
  MaxCrashes = 1
  TurnedAway = FALSE
CHECK_DEADLOCK FALSE
INVARIANTS
  TypeOK
  Conserved
  SentOrReturned
PROPERTIES
  WithdrawalEnds
  KeepsThePurse
