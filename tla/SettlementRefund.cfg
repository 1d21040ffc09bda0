SPECIFICATION Spec
CONSTANTS
  deposit = deposit
  balance = balance
  None = None
  Amount = 110
  FeeOf = 10
  Installments <- MCInstallments
  Sequence <- MCSequence
  Price <- MCPrice
  Fee <- MCFee
  AfterService = {}
  Deposit = deposit
  ByBank = {balance}
  PaidAtFirst = {deposit}
  Percent = 10
  MinCharge = 10
  Amounts = {50}
  Balances = {0}
  MaxReturns = 1
  Disputed = {deposit}
  Withdrawals = TRUE
  AnswersLost = FALSE
  MaxCrashes = 0
CHECK_DEADLOCK FALSE
PROPERTIES
  NothingAfterFullRefund
