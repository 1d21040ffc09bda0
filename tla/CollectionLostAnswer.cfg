SPECIFICATION Spec
CONSTANTS
  i1 = i1
  i2 = i2
  i3 = i3
  None = None
  Dud = Dud
  Workers = {w1, w2}
  Intents = {n1, n2}
  Installments <- OneInstallment
  Newest <- OneNewest
  DueKind <- FullPayment
  Holds <- Nothing
  MaxAmount = 1
  MaxAttempts = 2
  Requesters = {"CUSTOMER", "VENDOR"}
  CardSaved = TRUE
  MayBeRental = {FALSE}
  AnswersLost = TRUE
  Redelivery = TRUE
  HoldsExpire = FALSE
  Crashes = FALSE
SYMMETRY Symmetric
CHECK_DEADLOCK FALSE
PROPERTIES
  PaidNeverFails
