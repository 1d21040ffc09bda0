SPECIFICATION TwoPlansSpec
CONSTANTS
  i1 = i1
  i2 = i2
  i3 = i3
  None = None
  Dud = Dud
  Workers = {w1, w2}
  Intents = {n1, n2}
  Installments <- TwoPlans
  Newest <- TwoPlansNewest
  DueKind <- TwoPlansDueKind
  Holds <- TwoPlansHolds
  MaxAmount = 2
  MaxAttempts = 2
  Requesters = {"CUSTOMER", "VENDOR"}
  CardSaved = TRUE
  MayBeRental = {FALSE}
  AnswersLost = FALSE
  Redelivery = TRUE
  HoldsExpire = FALSE
  Crashes = TRUE
SYMMETRY Symmetric
CHECK_DEADLOCK FALSE
INVARIANTS
  TypeOK
  OneCallAtATime
  NeverChargedTwice
  BooksMatchWhileOn
