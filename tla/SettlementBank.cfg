SPECIFICATION FairSpec
CONSTANTS
  deposit = deposit
  balance = balance
  None = None
  Amount = 110
  FeeOf = 10
  Installments <- MCInstallments
  Sequence <- MCSequence
  Price <- MCPrice
  Fee <- MCFee
  AfterService = {}
  Deposit = deposit
  ByBank = {deposit}
  PaidAtFirst = {deposit}
  Percent = 10
  MinCharge = 10
  Amounts = {}
  Balances <- Debts
  MaxReturns = 1
  Disputed = {}
  Withdrawals = TRUE
  AnswersLost = FALSE
  MaxCrashes = 1
CHECK_DEADLOCK FALSE
INVARIANTS
  VendorPaidWhatIsDue
  NeverPaidTwice
PROPERTIES
  PayoutArrives
