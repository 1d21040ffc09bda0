SPECIFICATION MCSpec
CONSTANTS
  i1 = i1
  i2 = i2
  None = None
  Dud = Dud
  Workers = {w1}
  Intents = {n1,n2}
  Installments <- MCInstallments
  Newest <- MCNewest
  DueKind <- MCDueKind
  Holds <- MCHolds
  MaxAmount = 2
  MaxAttempts = 2
  Requesters = {"CUSTOMER"}
  CardSaved = TRUE
  MayBeRental = {TRUE,FALSE}
  AnswersLost = FALSE
  Redelivery = FALSE
  HoldsExpire = TRUE
  Crashes = FALSE
  Fees = {0,1,3}
  SettlementBreaks = TRUE
SYMMETRY Symmetric
CHECK_DEADLOCK FALSE
INVARIANTS
  FeesTakenOnce
  
  LateChargeHandedBack
PROPERTIES
  CancelledNeverCaptured
