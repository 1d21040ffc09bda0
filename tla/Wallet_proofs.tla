--------------------------- MODULE Wallet_proofs ---------------------------
(***************************************************************************)
(* The vendor's balance for any set of withdrawals and deposits: its type, *)
(* that a withdrawal is never both sent and put back, and that the wallet  *)
(* implements the purse.  The last two where Stripe turns a second call    *)
(* away only if it made no transfer on the first (TurnedAway = FALSE).     *)
(***************************************************************************)
EXTENDS Wallet, Sums_proofs, TLAPS

----------------------------------------------------------------------------
(* The invariant.                                                          *)

\* How a request's row, its server and its transfer fit together.
Fits(w) ==
  /\ row[w] # "succeeded"
  /\ row[w] = "none" => call[w] \in {"idle", "take", "over"} /\ stripe[w] = "none"
  /\ call[w] \in {"idle", "take"} => row[w] = "none"
  /\ call[w] \in {"send", "resend", "record", "giveBack", "leave"} => row[w] = "pending"
  /\ call[w] \in {"send", "giveBack"} => stripe[w] = "none"
  /\ call[w] = "record" => stripe[w] = "made"
  /\ row[w] = "failed" => stripe[w] = "none"
  /\ row[w] = "completed" => stripe[w] = "made"
  /\ w \in old => call[w] = "over" /\ stripe[w] # "onItsWay"

\* What a review holds of its request: nothing of it is on its way any more, and
\* what Stripe said still stands.
ReviewFits(v) ==
  LET w == review[v].of
  IN w # "none" => /\ row[w] \in {"needs_review", "completed", "failed"}
                   /\ call[w] = "over" /\ stripe[w] # "onItsWay"
                   /\ review[v].looked => review[v].found = (stripe[w] = "made")

AllFit == /\ \A w \in Withdrawals : Fits(w)
          /\ \A v \in Reviewers : ReviewFits(v)

WalletInv == TypeOK /\ AllFit

----------------------------------------------------------------------------
(* Types.                                                                  *)

\* What a review may become has the type of a review.
LEMMA ReviewTypes ==
  ASSUME NEW w \in Withdrawals \cup {"none"}
  PROVE  /\ About(w) \in Reviews /\ NoReview \in Reviews
         /\ Heard(w, stripe[w] = "made") \in Reviews
<1>1. PICK b \in BOOLEAN : b = (stripe[w] = "made")
  OBVIOUS
<1>2. [of |-> w, found |-> b, looked |-> TRUE] \in Reviews
  BY DEF Reviews
<1>3. Heard(w, stripe[w] = "made") \in Reviews
  BY <1>1, <1>2 DEF Heard
<1>4. QED BY <1>3 DEF About, NoReview, Reviews

\* The types hold at the start.
LEMMA InitType == ASSUME Init PROVE TypeOK
  BY WalletAssumption DEF Init, TypeOK, Status, Places, Transfers, Reviewers, NoReview, Reviews, About

\* Every step keeps the types.
LEMMA StepType ==
  ASSUME TypeOK, [Next]_vars
  PROVE  TypeOK'
<1>a. \A r \in Withdrawals \cup Deposits : Amount[r] \in Int
  BY WalletAssumption
<1>1. ASSUME NEW w \in Withdrawals, Request(w) \/ Take(w) PROVE TypeOK'
  BY <1>1, <1>a DEF TypeOK, Request, Take, Goto, Becomes, Places, Status
<1>2. ASSUME NEW w \in Withdrawals, Send(w) \/ Lands(w) PROVE TypeOK'
  BY <1>2 DEF TypeOK, Send, Lands, Goto, Places, Transfers
<1>3. ASSUME NEW w \in Withdrawals, Record(w) \/ GiveBack(w) \/ LeaveForReview(w)
      PROVE TypeOK'
  BY <1>3, <1>a DEF TypeOK, Record, GiveBack, LeaveForReview, Goto, Becomes, Places, Status
<1>4. ASSUME NEW w \in Withdrawals, HourPasses(w) \/ Crash(w) PROVE TypeOK'
  BY <1>4 DEF TypeOK, HourPasses, Crash, Goto, Places
<1>5. ASSUME NEW v \in Reviewers, NEW w \in Withdrawals, Pick(v, w) PROVE TypeOK'
  BY <1>5, ReviewTypes DEF Pick, TypeOK
<1>6. ASSUME NEW v \in Reviewers, Look(v) PROVE TypeOK'
  <2>1. review[v].of \in Withdrawals \cup {"none"}
    BY DEF TypeOK, Reviews
  <2>2. QED BY <1>6, <2>1, ReviewTypes DEF Look, TypeOK
<1>7. ASSUME NEW v \in Reviewers, Settle(v) PROVE TypeOK'
  <2>1. review[v].of \in Withdrawals
    BY <1>7 DEF Settle, TypeOK, Reviews
  <2>2. row' \in [Withdrawals \cup Deposits -> Status] /\ balance' \in Int
    BY <1>7, <1>a, <2>1 DEF Settle, TypeOK, Becomes, Status
  <2>3. QED BY <1>7, <2>2, ReviewTypes DEF Settle, TypeOK
<1>8. ASSUME NEW d \in Deposits, Credit(d) PROVE TypeOK'
  BY <1>8, <1>a DEF TypeOK, Credit, Becomes, Status
<1>9. CASE Change
  BY <1>9, WalletAssumption DEF TypeOK, Change
<1>10. CASE UNCHANGED vars
  BY <1>10 DEF vars, TypeOK
<1>11. QED
  BY <1>1, <1>2, <1>3, <1>4, <1>5, <1>6, <1>7, <1>8, <1>9, <1>10
     DEF Next, RequestStep, ReviewStep

\* The rows, the servers and the balance keep their types, for any withdrawals
\* (processWithdraw, settleWithdrawal, the webhook's deposits).
THEOREM TypeCorrect == Spec => []TypeOK
<1>1. Init => TypeOK
  BY InitType
<1>2. TypeOK /\ [Next]_vars => TypeOK'
  BY StepType
<1>3. QED BY <1>1, <1>2, PTL DEF Spec

----------------------------------------------------------------------------
(* The balance.                                                            *)

\* Where a server is says what its request's row is; this needs nothing of Stripe,
\* and holds whatever Stripe turns away.
RowFits(w) ==
  /\ row[w] # "succeeded"
  /\ call[w] \in {"idle", "take"} => row[w] = "none"
  /\ call[w] \in {"send", "resend", "record", "giveBack", "leave"} => row[w] = "pending"

\* The two sums as sums over functions.
OffOf == [w \in Withdrawals |-> Off(w)]
InOf == [d \in Deposits |-> In(d)]
Balanced ==
  balance = booked + SumFunctionOnSet(InOf, Deposits) - SumFunctionOnSet(OffOf, Withdrawals)

BalanceInv == TypeOK /\ (\A w \in Withdrawals : RowFits(w)) /\ Balanced

\* The sums in Conserved are these.
LEMMA SumsAre ==
  /\ MapThenSumSet(In, Deposits) = SumFunctionOnSet(InOf, Deposits)
  /\ MapThenSumSet(Off, Withdrawals) = SumFunctionOnSet(OffOf, Withdrawals)
<1> DEFINE AddsIn(g) == g = [s \in SUBSET Deposits |->
             IF s = {} THEN 0 ELSE In(First(s)) + g[s \ {First(s)}]]
           AddsOff(g) == g = [s \in SUBSET Withdrawals |->
             IF s = {} THEN 0 ELSE Off(First(s)) + g[s \ {First(s)}]]
<1>1. \A s \in SUBSET Deposits : s # {} => In(First(s)) = InOf[First(s)]
  BY Rest DEF InOf
<1>2. \A s \in SUBSET Withdrawals : s # {} => Off(First(s)) = OffOf[First(s)]
  BY Rest DEF OffOf
<1>3. \A g : AddsIn(g) <=> Adds(InOf, Deposits, g)
  BY <1>1 DEF Adds
<1>4. \A g : AddsOff(g) <=> Adds(OffOf, Withdrawals, g)
  BY <1>2 DEF Adds
<1>5. /\ MapThenSumSet(In, Deposits) = (CHOOSE g : AddsIn(g))[Deposits]
      /\ MapThenSumSet(Off, Withdrawals) = (CHOOSE g : AddsOff(g))[Withdrawals]
  BY DEF MapThenSumSet, MapThenFoldSet, First
<1> HIDE DEF AddsIn, AddsOff
<1>6. (CHOOSE g : AddsIn(g)) = (CHOOSE g : Adds(InOf, Deposits, g))
  BY <1>3, Zenon
<1>7. (CHOOSE g : AddsOff(g)) = (CHOOSE g : Adds(OffOf, Withdrawals, g))
  BY <1>4, Zenon
<1>8. QED BY <1>5, <1>6, <1>7, SumIs

\* What a row counts for is a number.
LEMMA Summands ==
  ASSUME TypeOK
  PROVE  /\ \A w \in Withdrawals : OffOf[w] = Off(w) /\ Off(w) \in Int
         /\ \A d \in Deposits : InOf[d] = In(d) /\ In(d) \in Int
         /\ SumFunctionOnSet(OffOf, Withdrawals) \in Int
         /\ SumFunctionOnSet(InOf, Deposits) \in Int
<1>1. \A w \in Withdrawals : OffOf[w] = Off(w) /\ Off(w) \in Int
  BY WalletAssumption DEF OffOf, Off
<1>2. \A d \in Deposits : InOf[d] = In(d) /\ In(d) \in Int
  BY WalletAssumption DEF InOf, In
<1>3. SumFunctionOnSet(OffOf, Withdrawals) \in Int
  BY <1>1, WalletAssumption, SumType
<1>4. SumFunctionOnSet(InOf, Deposits) \in Int
  BY <1>2, WalletAssumption, SumType
<1>5. QED BY <1>1, <1>2, <1>3, <1>4

\* When one request's row changes, what is off changes by it, and no deposit's part.
LEMMA OneRow ==
  ASSUME TypeOK, TypeOK', NEW w \in Withdrawals,
         \A r \in Withdrawals \cup Deposits : r # w => row'[r] = row[r]
  PROVE  /\ SumFunctionOnSet(OffOf, Withdrawals)'
              = SumFunctionOnSet(OffOf, Withdrawals) + Off(w)' - Off(w)
         /\ SumFunctionOnSet(InOf, Deposits)' = SumFunctionOnSet(InOf, Deposits)
<1>1. /\ \A u \in Withdrawals : OffOf[u] = Off(u) /\ Off(u) \in Int
      /\ \A u \in Withdrawals : OffOf'[u] = Off(u)' /\ Off(u)' \in Int
  BY Summands, WalletAssumption DEF OffOf, Off
<1>2. \A u \in Withdrawals \ {w} : OffOf'[u] = OffOf[u]
  BY <1>1 DEF Off
<1>3. InOf' = InOf
  BY WalletAssumption DEF InOf, In
<1>4. SumFunctionOnSet(OffOf', Withdrawals)
        = SumFunctionOnSet(OffOf, Withdrawals) + OffOf'[w] - OffOf[w]
  BY <1>1, <1>2, WalletAssumption, SumChanges
<1>5. QED BY <1>1, <1>3, <1>4

\* When a deposit's row changes, what came in changes by it.
LEMMA OneDeposit ==
  ASSUME TypeOK, TypeOK', NEW d \in Deposits,
         \A r \in Withdrawals \cup Deposits : r # d => row'[r] = row[r]
  PROVE  /\ SumFunctionOnSet(InOf, Deposits)'
              = SumFunctionOnSet(InOf, Deposits) + In(d)' - In(d)
         /\ SumFunctionOnSet(OffOf, Withdrawals)' = SumFunctionOnSet(OffOf, Withdrawals)
<1>1. /\ \A u \in Deposits : InOf[u] = In(u) /\ In(u) \in Int
      /\ \A u \in Deposits : InOf'[u] = In(u)' /\ In(u)' \in Int
  BY Summands, WalletAssumption DEF InOf, In
<1>2. \A u \in Deposits \ {d} : InOf'[u] = InOf[u]
  BY <1>1 DEF In
<1>3. OffOf' = OffOf
  BY WalletAssumption DEF OffOf, Off
<1>4. SumFunctionOnSet(InOf', Deposits)
        = SumFunctionOnSet(InOf, Deposits) + InOf'[d] - InOf[d]
  BY <1>1, <1>2, WalletAssumption, SumChanges
<1>5. QED BY <1>1, <1>3, <1>4

\* Steps that leave the rows alone leave the sums alone.
LEMMA NoRow ==
  ASSUME UNCHANGED row
  PROVE  /\ SumFunctionOnSet(OffOf, Withdrawals)' = SumFunctionOnSet(OffOf, Withdrawals)
         /\ SumFunctionOnSet(InOf, Deposits)' = SumFunctionOnSet(InOf, Deposits)
<1>1. OffOf' = OffOf /\ InOf' = InOf
  BY DEF OffOf, InOf, Off, In
<1>2. QED BY <1>1

\* Nothing is off or in at the start.
LEMMA InitBalanced == ASSUME Init PROVE BalanceInv
<1>1. TypeOK
  BY InitType
<1>2. \A w \in Withdrawals : RowFits(w)
  BY WalletAssumption DEF Init, RowFits
<1>3. SumFunctionOnSet(OffOf, Withdrawals) = 0
  <2>1. \A w \in Withdrawals : OffOf[w] = 0
    BY WalletAssumption DEF Init, OffOf, Off
  <2>2. QED BY <2>1, WalletAssumption, SumZero
<1>4. SumFunctionOnSet(InOf, Deposits) = 0
  <2>1. \A d \in Deposits : InOf[d] = 0
    BY WalletAssumption DEF Init, InOf, In
  <2>2. QED BY <2>1, WalletAssumption, SumZero
<1>5. QED BY <1>1, <1>2, <1>3, <1>4 DEF BalanceInv, Balanced, Init, TypeOK

\* Where a server goes and what it makes of its row stay in step.
LEMMA StepRows ==
  ASSUME BalanceInv, [Next]_vars
  PROVE  \A w \in Withdrawals : RowFits(w)'
<1> USE DEF BalanceInv
<1>1. ASSUME NEW w \in Withdrawals, Request(w) \/ Take(w) PROVE \A u \in Withdrawals : RowFits(u)'
  BY <1>1 DEF Request, Take, RowFits, TypeOK, Goto, Becomes
<1>2. ASSUME NEW w \in Withdrawals, Send(w) PROVE \A u \in Withdrawals : RowFits(u)'
  BY <1>2 DEF Send, RowFits, TypeOK, Goto
<1>3. ASSUME NEW w \in Withdrawals, Lands(w) \/ HourPasses(w)
      PROVE  \A u \in Withdrawals : RowFits(u)'
  BY <1>3 DEF Lands, HourPasses, RowFits
<1>4. ASSUME NEW w \in Withdrawals, Record(w) \/ GiveBack(w) \/ LeaveForReview(w)
      PROVE  \A u \in Withdrawals : RowFits(u)'
  BY <1>4 DEF Record, GiveBack, LeaveForReview, RowFits, TypeOK, Goto, Becomes
<1>5. ASSUME NEW w \in Withdrawals, Crash(w) PROVE \A u \in Withdrawals : RowFits(u)'
  BY <1>5 DEF Crash, RowFits, TypeOK, Goto
<1>6. ASSUME NEW v \in Reviewers, Look(v) \/ \E w \in Withdrawals : Pick(v, w)
      PROVE  \A u \in Withdrawals : RowFits(u)'
  BY <1>6 DEF Look, Pick, RowFits
<1>7. ASSUME NEW v \in Reviewers, Settle(v) PROVE \A u \in Withdrawals : RowFits(u)'
  <2>1. review[v].of \in Withdrawals
    BY <1>7 DEF Settle, TypeOK, Reviews
  <2>2. QED BY <1>7, <2>1 DEF Settle, RowFits, TypeOK, Becomes
<1>8. ASSUME NEW d \in Deposits, Credit(d) PROVE \A u \in Withdrawals : RowFits(u)'
  BY <1>8, WalletAssumption DEF Credit, RowFits, TypeOK, Becomes
<1>9. CASE Change \/ UNCHANGED vars
  BY <1>9 DEF Change, vars, RowFits
<1>10. QED
  BY <1>1, <1>2, <1>3, <1>4, <1>5, <1>6, <1>7, <1>8, <1>9 DEF Next, RequestStep, ReviewStep

\* A step moves the balance by what it moves the sums.
LEMMA StepBalanced ==
  ASSUME BalanceInv, TypeOK', [Next]_vars
  PROVE  Balanced'
<1> DEFINE off == SumFunctionOnSet(OffOf, Withdrawals)
           in == SumFunctionOnSet(InOf, Deposits)
<1>1. /\ off \in Int /\ in \in Int /\ balance = booked + in - off
      /\ balance \in Int /\ booked \in Int
      /\ \A r \in Withdrawals \cup Deposits : Amount[r] \in Int
  BY Summands, WalletAssumption DEF BalanceInv, Balanced, TypeOK
<1>2. ASSUME UNCHANGED <<row, balance, booked>> PROVE Balanced'
  BY <1>1, <1>2, NoRow DEF Balanced
<1>3. ASSUME NEW w \in Withdrawals, NEW s \in Status, Becomes(w, s), booked' = booked,
             balance' = balance - Off(w)' + Off(w)
      PROVE  Balanced'
  <2>1. \A r \in Withdrawals \cup Deposits : r # w => row'[r] = row[r]
    BY <1>3 DEF Becomes, BalanceInv, TypeOK
  <2>2. off' = off + Off(w)' - Off(w) /\ in' = in
    BY <2>1, OneRow DEF BalanceInv
  <2>3. Off(w) \in Int /\ Off(w)' \in Int
    BY <1>1 DEF Off
  <2> HIDE DEF off, in
  <2>4. balance' = booked + in - off - Off(w)' + Off(w)
    BY <1>1, <1>3, <2>3
  <2>5. balance' = booked' + in' - off'
    BY <1>1, <1>3, <2>2, <2>3, <2>4
  <2>6. QED BY <2>5 DEF Balanced, off, in
<1>4. ASSUME NEW w \in Withdrawals, Take(w) PROVE Balanced'
  <2>1. CASE balance >= Amount[w]
    <3>1. row[w] = "none" /\ row'[w] = "pending"
      BY <1>4, <2>1 DEF Take, BalanceInv, RowFits, Becomes, TypeOK
    <3>2. Off(w) = 0 /\ Off(w)' = Amount[w]
      BY <3>1 DEF Off
    <3>3. QED BY <1>1, <1>3, <1>4, <2>1, <3>2 DEF Take, Status
  <2>2. CASE ~ (balance >= Amount[w])
    BY <1>2, <1>4, <2>2 DEF Take
  <2>3. QED BY <2>1, <2>2
<1>5. ASSUME NEW w \in Withdrawals, NEW s \in {"completed", "needs_review"}, Becomes(w, s),
             row[w] \in {"pending", "needs_review"}, UNCHANGED <<balance, booked>>
      PROVE  Balanced'
  <2>1. row'[w] = s
    BY <1>5 DEF BalanceInv, TypeOK, Becomes
  <2>2. Off(w) = Amount[w] /\ Off(w)' = Amount[w]
    BY <1>5, <2>1 DEF Off
  <2>3. QED BY <1>1, <1>3, <1>5, <2>2 DEF Status
<1>6. ASSUME NEW w \in Withdrawals, Becomes(w, "failed"), booked' = booked,
             row[w] \in {"pending", "needs_review"}, balance' = balance + Amount[w]
      PROVE  Balanced'
  <2>1. row'[w] = "failed"
    BY <1>6 DEF BalanceInv, TypeOK, Becomes
  <2>2. Off(w) = Amount[w] /\ Off(w)' = 0
    BY <1>6, <2>1 DEF Off
  <2>3. QED BY <1>1, <1>3, <1>6, <2>2 DEF Status
<1>7. ASSUME NEW w \in Withdrawals, Record(w) \/ GiveBack(w) \/ LeaveForReview(w)
      PROVE  Balanced'
  <2>1. row[w] = "pending"
    BY <1>7 DEF Record, GiveBack, LeaveForReview, BalanceInv, RowFits
  <2>2. QED BY <1>5, <1>6, <1>7, <2>1 DEF Record, GiveBack, LeaveForReview
<1>8. ASSUME NEW v \in Reviewers, Settle(v) PROVE Balanced'
  <2>1. review[v].of \in Withdrawals
    BY <1>8 DEF Settle, BalanceInv, TypeOK, Reviews
  <2>2. QED BY <1>2, <1>5, <1>6, <1>8, <2>1 DEF Settle
<1>9. ASSUME NEW d \in Deposits, Credit(d) PROVE Balanced'
  <2>1. CASE row[d] = "succeeded"
    BY <1>2, <1>9, <2>1 DEF Credit
  <2>2. CASE row[d] # "succeeded"
    <3>1. \A r \in Withdrawals \cup Deposits : r # d => row'[r] = row[r]
      BY <1>9, <2>2 DEF Credit, Becomes, BalanceInv, TypeOK
    <3>2. in' = in + In(d)' - In(d) /\ off' = off
      BY <3>1, OneDeposit DEF BalanceInv
    <3>3. In(d) = 0 /\ In(d)' = Amount[d]
      BY <1>9, <2>2 DEF In, Credit, Becomes, BalanceInv, TypeOK
    <3>4. balance' = balance + Amount[d] /\ booked' = booked
      BY <1>9, <2>2 DEF Credit
    <3> HIDE DEF off, in
    <3>5. balance' = booked' + in' - off'
      BY <1>1, <3>2, <3>3, <3>4
    <3>6. QED BY <3>5 DEF Balanced, off, in
  <2>3. QED BY <2>1, <2>2
<1>10. CASE Change
  <2>1. PICK c \in Changes : balance' = balance + c /\ booked' = booked + c
    BY <1>10 DEF Change
  <2>2. c \in Int
    BY WalletAssumption
  <2>3. off' = off /\ in' = in
    BY <1>10, NoRow DEF Change
  <2> HIDE DEF off, in
  <2>4. balance' = booked' + in' - off'
    BY <1>1, <2>1, <2>2, <2>3
  <2>5. QED BY <2>4 DEF Balanced, off, in
<1>11. ASSUME NEW w \in Withdrawals,
              Request(w) \/ Send(w) \/ Lands(w) \/ HourPasses(w) \/ Crash(w)
       PROVE  Balanced'
  BY <1>2, <1>11 DEF Request, Send, Lands, HourPasses, Crash
<1>12. ASSUME NEW v \in Reviewers, Look(v) \/ \E w \in Withdrawals : Pick(v, w)
       PROVE  Balanced'
  BY <1>2, <1>12 DEF Look, Pick
<1>13. CASE UNCHANGED vars
  BY <1>2, <1>13 DEF vars
<1>14. QED
  BY <1>4, <1>7, <1>8, <1>9, <1>10, <1>11, <1>12, <1>13 DEF Next, RequestStep, ReviewStep

\* No money appears on the balance or vanishes from it, for any withdrawals and
\* deposits of any amounts, whatever overlaps or stops, and whatever Stripe turns away
\* (processWithdraw, settleWithdrawal, the webhook's deposits).
THEOREM MoneyConserved == Spec => []Conserved
<1>1. Init => BalanceInv
  BY InitBalanced
<1>2. BalanceInv /\ [Next]_vars => BalanceInv'
  BY StepType, StepRows, StepBalanced DEF BalanceInv
<1>3. BalanceInv => Conserved
  BY SumsAre DEF BalanceInv, Balanced, Conserved
<1>4. QED BY <1>1, <1>2, <1>3, PTL DEF Spec

----------------------------------------------------------------------------
(* Sent or returned.                                                       *)

\* Nothing is asked yet.
LEMMA InitFits == ASSUME Init PROVE AllFit
  BY WalletAssumption DEF Init, AllFit, Fits, ReviewFits, NoReview, About, Reviewers

\* A step of one request that leaves it fitting, and changes nothing a review of it
\* holds on to, leaves all fitting.
LEMMA OneRequest ==
  ASSUME WalletInv, NEW w \in Withdrawals, UNCHANGED review,
         \A u \in Withdrawals : u # w => /\ row'[u] = row[u] /\ call'[u] = call[u]
                                        /\ stripe'[u] = stripe[u] /\ (u \in old' <=> u \in old),
         Fits(w)',
         row[w] \in {"none", "pending"} \/ stripe[w] = "onItsWay"
           \/ (row'[w] = row[w] /\ call'[w] = call[w] /\ stripe'[w] = stripe[w])
  PROVE  AllFit'
<1>1. \A u \in Withdrawals : Fits(u)'
  BY DEF WalletInv, AllFit, Fits
<1>2. ASSUME NEW v \in Reviewers, review[v].of # "none"
      PROVE  ReviewFits(v)'
  <2>1. review[v].of \in Withdrawals
    BY <1>2 DEF WalletInv, TypeOK, Reviews
  <2>2. ReviewFits(v)
    BY DEF WalletInv, AllFit
  <2>3. CASE review[v].of = w
    BY <1>2, <2>2, <2>3 DEF ReviewFits
  <2>4. CASE review[v].of # w
    BY <1>2, <2>1, <2>2, <2>4 DEF ReviewFits
  <2>5. QED BY <2>3, <2>4
<1>3. QED BY <1>1, <1>2 DEF AllFit, ReviewFits

\* Every step keeps them fitting, where a second call is turned away only if the
\* first made no transfer.
LEMMA StepFits ==
  ASSUME WalletInv, [Next]_vars, TurnedAway = FALSE
  PROVE  AllFit'
<1> USE DEF WalletInv
<1>1. ASSUME NEW w \in Withdrawals, Request(w) \/ Take(w) PROVE AllFit'
  <2>1. Fits(w)' /\ row[w] = "none"
    BY <1>1 DEF Request, Take, AllFit, Fits, TypeOK, Goto, Becomes
  <2>2. QED BY <1>1, <2>1, OneRequest DEF Request, Take, TypeOK, Goto, Becomes
<1>2. ASSUME NEW w \in Withdrawals, Send(w) PROVE AllFit'
  <2>1. Fits(w)' /\ row[w] = "pending"
    BY <1>2 DEF Send, AllFit, Fits, TypeOK, Goto
  <2>2. \A u \in Withdrawals : u # w => call'[u] = call[u] /\ stripe'[u] = stripe[u]
    BY <1>2 DEF Send, TypeOK, Goto
  <2>3. UNCHANGED <<row, old, review>>
    BY <1>2 DEF Send
  <2>4. QED BY <2>1, <2>2, <2>3, OneRequest
<1>3. ASSUME NEW w \in Withdrawals, Lands(w) PROVE AllFit'
  <2>1. Fits(w)' /\ stripe[w] = "onItsWay"
    BY <1>3 DEF Lands, AllFit, Fits, TypeOK
  <2>2. \A u \in Withdrawals : u # w => stripe'[u] = stripe[u]
    BY <1>3 DEF Lands, TypeOK
  <2>3. UNCHANGED <<row, call, old, review>>
    BY <1>3 DEF Lands
  <2>4. QED BY <2>1, <2>2, <2>3, OneRequest
<1>4. ASSUME NEW w \in Withdrawals, Record(w) \/ GiveBack(w) \/ LeaveForReview(w)
      PROVE AllFit'
  <2>1. Fits(w)' /\ row[w] = "pending"
    BY <1>4 DEF Record, GiveBack, LeaveForReview, AllFit, Fits, TypeOK, Goto, Becomes
  <2>2. \A u \in Withdrawals : u # w => call'[u] = call[u] /\ row'[u] = row[u]
    BY <1>4 DEF Record, GiveBack, LeaveForReview, TypeOK, Goto, Becomes
  <2>3. UNCHANGED <<stripe, old, review>>
    BY <1>4 DEF Record, GiveBack, LeaveForReview
  <2>4. QED BY <2>1, <2>2, <2>3, OneRequest
<1>5. ASSUME NEW w \in Withdrawals, HourPasses(w) PROVE AllFit'
  BY <1>5, OneRequest DEF HourPasses, AllFit, Fits, TypeOK
<1>6. ASSUME NEW w \in Withdrawals, Crash(w) PROVE AllFit'
  <2>1. Fits(w)' /\ row[w] \in {"none", "pending"}
    BY <1>6 DEF Crash, AllFit, Fits, TypeOK, Goto, Places
  <2>2. \A u \in Withdrawals : u # w => call'[u] = call[u]
    BY <1>6 DEF Crash, TypeOK, Goto
  <2>3. UNCHANGED <<row, stripe, old, review>>
    BY <1>6 DEF Crash
  <2>4. QED BY <2>1, <2>2, <2>3, OneRequest
<1>7. ASSUME NEW v \in Reviewers, NEW w \in Withdrawals, Pick(v, w) PROVE AllFit'
  <2>1. \A u \in Withdrawals : Fits(u)'
    BY <1>7 DEF Pick, AllFit, Fits
  <2>2. row[w] = "needs_review" /\ call[w] = "over" /\ stripe[w] # "onItsWay"
    BY <1>7 DEF Pick, AllFit, Fits, TypeOK, Places
  <2>3. \A u \in Reviewers : review'[u] = IF u = v THEN About(w) ELSE review[u]
    BY <1>7 DEF Pick, TypeOK
  <2>4. UNCHANGED <<row, call, stripe>>
    BY <1>7 DEF Pick
  <2>5. \A u \in Reviewers : ReviewFits(u)'
    BY <2>2, <2>3, <2>4 DEF AllFit, ReviewFits, About
  <2>6. QED BY <2>1, <2>5 DEF AllFit
<1>8. ASSUME NEW v \in Reviewers, Look(v) PROVE AllFit'
  BY <1>8 DEF Look, AllFit, Fits, ReviewFits, TypeOK, About, NoReview, Heard
<1>9. ASSUME NEW v \in Reviewers, Settle(v) PROVE AllFit'
  <2> DEFINE w == review[v].of
  <2>1. w \in Withdrawals /\ ReviewFits(v) /\ Fits(w)
    BY <1>9 DEF Settle, TypeOK, Reviews, AllFit
  <2>2. UNCHANGED <<call, stripe, old>>
    BY <1>9 DEF Settle
  <2>3. \A u \in Reviewers : review'[u] = IF u = v THEN NoReview ELSE review[u]
    BY <1>9 DEF Settle, TypeOK
  <2>4. \/ UNCHANGED row
        \/ /\ row[w] = "needs_review" /\ stripe[w] = "made"
           /\ row' = [row EXCEPT ![w] = "completed"]
        \/ /\ row[w] = "needs_review" /\ stripe[w] # "made"
           /\ row' = [row EXCEPT ![w] = "failed"]
    BY <1>9, <2>1 DEF Settle, ReviewFits, Becomes
  <2>5. stripe[w] \in {"none", "made"}
    BY <1>9, <2>1 DEF Settle, ReviewFits, TypeOK, Transfers
  <2>6. \A u \in Withdrawals : Fits(u)'
    BY <2>1, <2>2, <2>4, <2>5 DEF AllFit, Fits, ReviewFits, TypeOK
  <2>7. ASSUME NEW u \in Reviewers PROVE ReviewFits(u)'
    <3>1. CASE u = v
      BY <2>3, <3>1 DEF ReviewFits, NoReview, About
    <3>2. CASE u # v
      <4>1. review[u].of \in Withdrawals \cup {"none"} /\ ReviewFits(u)
        BY DEF TypeOK, Reviews, AllFit
      <4>2. \A x \in Withdrawals :
              row[x] \in {"needs_review", "completed", "failed"}
                => row'[x] \in {"needs_review", "completed", "failed"}
        BY <2>1, <2>4 DEF TypeOK
      <4>3. QED BY <2>2, <2>3, <3>2, <4>1, <4>2 DEF ReviewFits
    <3>3. QED BY <3>1, <3>2
  <2>8. QED BY <2>6, <2>7 DEF AllFit
<1>10. ASSUME NEW d \in Deposits, Credit(d) PROVE AllFit'
  BY <1>10, WalletAssumption DEF Credit, AllFit, Fits, ReviewFits, TypeOK, Becomes, Reviews
<1>11. CASE Change
  BY <1>11 DEF Change, AllFit, Fits, ReviewFits
<1>12. CASE UNCHANGED vars
  BY <1>12 DEF vars, AllFit, Fits, ReviewFits
<1>13. QED
  BY <1>1, <1>2, <1>3, <1>4, <1>5, <1>6, <1>7, <1>8, <1>9, <1>10, <1>11, <1>12
     DEF Next, RequestStep, ReviewStep

\* The invariant holds of the specification.
LEMMA WalletInvHolds == ASSUME TurnedAway = FALSE PROVE Spec => []WalletInv
<1>1. Init => WalletInv
  BY InitType, InitFits DEF WalletInv
<1>2. WalletInv /\ [Next]_vars => WalletInv'
  BY StepType, StepFits DEF WalletInv
<1>3. QED BY <1>1, <1>2, PTL DEF Spec

\* No withdrawal is both sent and put back, or shown as sent when it was not, whatever
\* answers are lost and however the server, the hourly job, an admin and crashes fall
\* together (processWithdraw, reviewWithdrawals, settleWithdrawal).
THEOREM NeverSentAndReturned ==
  ASSUME TurnedAway = FALSE PROVE Spec => []SentOrReturned
<1>1. WalletInv => SentOrReturned
  BY DEF WalletInv, AllFit, Fits, SentOrReturned
<1>2. QED BY <1>1, WalletInvHolds, PTL

----------------------------------------------------------------------------
(* The wallet implements the purse.                                        *)

\* The wallet starts as a purse starts.
LEMMA InitPurse == ASSUME Init PROVE P!Init
  BY WalletAssumption DEF Init, P!Init, Where, Credited

\* Every step of the wallet is a step of the purse, or none.
LEMMA StepPurse ==
  ASSUME WalletInv, [Next]_vars, TurnedAway = FALSE
  PROVE  [P!Next]_(P!purse)
<1> DEFINE place == [w \in Withdrawals |-> Where(w)]
<1> USE DEF WalletInv
<1>1. ASSUME NEW w \in Withdrawals, NEW from, NEW to, Where(w) = from, Where(w)' = to,
             \A u \in Withdrawals : u # w => Where(u)' = Where(u)
      PROVE  P!Moves(w, from, to)
  BY <1>1 DEF P!Moves
<1>2. ASSUME \A w \in Withdrawals : Where(w)' = Where(w), UNCHANGED <<balance, booked, Credited>>
      PROVE  UNCHANGED P!purse
  BY <1>2 DEF P!purse
<1>3. ASSUME NEW w \in Withdrawals, row' = row \/ \E s \in Status : Becomes(w, s)
      PROVE  Credited' = Credited
  BY <1>3, WalletAssumption DEF Credited, Becomes, TypeOK
<1>4. ASSUME NEW w \in Withdrawals, Take(w) PROVE P!Next \/ UNCHANGED P!purse
  <2>1. CASE balance >= Amount[w]
    <3>1. Credited' = Credited
      BY <1>3, <1>4, <2>1 DEF Take, Status
    <3>2. P!Moves(w, "balance", "onTheWay")
      BY <1>1, <1>4, <2>1 DEF Take, Where, Becomes, TypeOK, AllFit, Fits
    <3>3. P!Leaves(w)
      BY <1>4, <2>1, <3>1, <3>2 DEF Take, P!Leaves
    <3>4. QED BY <3>3 DEF P!Next
  <2>2. CASE ~ (balance >= Amount[w])
    BY <1>2, <1>4, <2>2 DEF Take, Where, Credited
  <2>3. QED BY <2>1, <2>2
<1>5. ASSUME NEW w \in Withdrawals, Send(w) \/ Lands(w) PROVE P!Next \/ UNCHANGED P!purse
  <2>1. Credited' = Credited /\ UNCHANGED <<balance, booked, row>>
    BY <1>3, <1>5 DEF Send, Lands
  <2>2. \A u \in Withdrawals : u # w => Where(u)' = Where(u)
    BY <1>5 DEF Send, Lands, Where, TypeOK
  <2>3. CASE stripe[w] # "made" /\ stripe'[w] = "made"
    <3>1. row[w] \notin {"none", "failed"}
      BY <1>5, <2>3 DEF Send, Lands, AllFit, Fits
    <3>2. P!Moves(w, "onTheWay", "bank")
      BY <1>1, <2>1, <2>2, <2>3, <3>1 DEF Where
    <3>3. QED BY <2>1, <3>2 DEF P!Arrives, P!Next
  <2>4. CASE (stripe'[w] = "made") <=> (stripe[w] = "made")
    <3>1. Where(w)' = Where(w)
      BY <2>1, <2>4 DEF Where
    <3>2. QED BY <1>2, <2>1, <2>2, <3>1
  <2>5. stripe[w] = "made" => stripe'[w] = "made"
    BY <1>5 DEF Send, Lands, TypeOK
  <2>6. QED BY <2>3, <2>4, <2>5
<1>6. ASSUME NEW w \in Withdrawals, Record(w) \/ LeaveForReview(w)
      PROVE  UNCHANGED P!purse
  <2>1. Credited' = Credited
    BY <1>3, <1>6 DEF Record, LeaveForReview, Status
  <2>2. \A u \in Withdrawals : Where(u)' = Where(u)
    BY <1>6 DEF Record, LeaveForReview, Where, Becomes, TypeOK, AllFit, Fits
  <2>3. QED BY <1>2, <1>6, <2>1, <2>2 DEF Record, LeaveForReview
<1>7. ASSUME NEW w \in Withdrawals, row[w] \in {"pending", "needs_review"}, stripe[w] # "made",
             Becomes(w, "failed"), balance' = balance + Amount[w], UNCHANGED <<booked, stripe>>
      PROVE  P!Next
  <2>1. Credited' = Credited
    BY <1>3, <1>7 DEF Status
  <2>2. P!Moves(w, "onTheWay", "back")
    BY <1>1, <1>7 DEF Where, Becomes, TypeOK
  <2>3. QED BY <1>7, <2>1, <2>2 DEF P!Returns, P!Next
<1>8. ASSUME NEW w \in Withdrawals, GiveBack(w) PROVE P!Next
  BY <1>7, <1>8 DEF GiveBack, AllFit, Fits
<1>9. ASSUME NEW w \in Withdrawals,
             Request(w) \/ HourPasses(w) \/ Crash(w) \/ \E v \in Reviewers : Pick(v, w)
      PROVE  UNCHANGED P!purse
  BY <1>2, <1>9 DEF Request, HourPasses, Crash, Pick, Where, Credited
<1>10. ASSUME NEW v \in Reviewers, Look(v) PROVE UNCHANGED P!purse
  BY <1>2, <1>10 DEF Look, Where, Credited
<1>11. ASSUME NEW v \in Reviewers, Settle(v) PROVE P!Next \/ UNCHANGED P!purse
  <2> DEFINE w == review[v].of
  <2>1. w \in Withdrawals /\ ReviewFits(v)
    BY <1>11 DEF Settle, TypeOK, Reviews, AllFit
  <2>2. CASE row[w] # "needs_review"
    BY <1>2, <1>11, <2>2 DEF Settle, Where, Credited
  <2>3. CASE row[w] = "needs_review" /\ review[v].found
    <3>1. Credited' = Credited
      BY <1>3, <1>11, <2>1, <2>3 DEF Settle, Status
    <3>2. stripe[w] = "made"
      BY <1>11, <2>1, <2>3 DEF Settle, ReviewFits
    <3>3. \A u \in Withdrawals : Where(u)' = Where(u)
      BY <1>11, <2>1, <2>3, <3>2 DEF Settle, Where, Becomes, TypeOK
    <3>4. QED BY <1>2, <1>11, <2>3, <3>1, <3>3 DEF Settle
  <2>4. CASE row[w] = "needs_review" /\ ~ review[v].found
    <3>1. stripe[w] # "made"
      BY <1>11, <2>1, <2>4 DEF Settle, ReviewFits
    <3>2. QED BY <1>7, <1>11, <2>1, <2>4, <3>1 DEF Settle
  <2>5. QED BY <2>2, <2>3, <2>4
<1>12. ASSUME NEW d \in Deposits, Credit(d) PROVE P!Next \/ UNCHANGED P!purse
  <2>1. \A w \in Withdrawals : Where(w)' = Where(w)
    BY <1>12, WalletAssumption DEF Credit, Where, Becomes, TypeOK
  <2>2. CASE row[d] = "succeeded"
    BY <1>2, <1>12, <2>1, <2>2 DEF Credit, Credited
  <2>3. CASE row[d] # "succeeded"
    <3>1. Credited' = Credited \cup {d} /\ d \notin Credited
      BY <1>12, <2>3 DEF Credit, Credited, Becomes, TypeOK
    <3>2. P!Deposit(d)
      BY <1>12, <2>1, <2>3, <3>1 DEF Credit, P!Deposit
    <3>3. QED BY <3>2 DEF P!Next
  <2>4. QED BY <2>2, <2>3
<1>13. CASE Change
  BY <1>13 DEF Change, P!Booked, P!Next, Where, Credited
<1>14. CASE UNCHANGED vars
  BY <1>2, <1>14 DEF vars, Where, Credited
<1>15. QED
  BY <1>4, <1>5, <1>6, <1>8, <1>9, <1>10, <1>11, <1>12, <1>13, <1>14
     DEF Next, RequestStep, ReviewStep

\* The wallet keeps what a purse promises: a withdrawal's money is in one place, leaves
\* the balance only while it is there, and ends at the bank or back, once.
THEOREM ImplementsPurse ==
  ASSUME TurnedAway = FALSE PROVE Spec => KeepsThePurse
<1>1. Init => P!Init
  BY InitPurse
<1>2. WalletInv /\ [Next]_vars => [P!Next]_(P!purse)
  BY StepPurse
<1>3. QED BY <1>1, <1>2, WalletInvHolds, PTL DEF Spec, KeepsThePurse, P!Spec
=============================================================================
