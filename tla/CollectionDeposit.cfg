SPECIFICATION FairSpec
CONSTANTS
  i1 = i1
  i2 = i2
  i3 = i3
  None = None
  Dud = Dud
  Workers = {w1, w2}
  Intents = {n1}
  Installments <- OneInstallment
  Newest <- OneNewest
  DueKind <- DepositOnly
  Holds <- Nothing
  MaxAmount = 1
  MaxAttempts = 2
  Requesters = {"CUSTOMER"}
  CardSaved = TRUE
  MayBeRental = {FALSE}
  AnswersLost = FALSE
  Redelivery = FALSE
  HoldsExpire = FALSE
  Crashes = FALSE
CHECK_DEADLOCK FALSE
INVARIANTS
  PaidEndsTheWait
  NonPaymentKeepsNothing
PROPERTIES
  NonPaymentSparesThePaid
  AttemptsAnswered
  OverdueEnds
