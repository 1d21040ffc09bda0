------------------------------- MODULE Wallet -------------------------------
(***************************************************************************)
(* A vendor's Vendly balance: withdrawals to their Stripe account          *)
(* (withdraw.service.ts), the hourly review of those Stripe did not        *)
(* confirm, and deposits credited by Stripe's events                       *)
(* (stripe.controller.ts).  The bookings' payouts and recoveries           *)
(* (Settlement) change the balance meanwhile.                              *)
(***************************************************************************)
EXTENDS Integers, FiniteSets, FiniteSetsExt

CONSTANTS
  Withdrawals,   \* the requests to withdraw
  Deposits,      \* the deposits the customer paid for
  Amount,        \* of each, in dollars
  MinWithdraw,   \* MIN_WITHDRAW
  Opening,       \* the balances to begin with
  Changes,       \* what a booking may add to the balance, or take
  MaxChanges,    \* bound on such changes
  MaxCrashes,    \* bound on servers that stop in the middle of a request
  TurnedAway     \* TRUE: the second call may be turned away (429) whatever the first did

ASSUME WalletAssumption ==
  /\ Amount \in [Withdrawals \cup Deposits -> Nat \ {0}]
  /\ IsFiniteSet(Withdrawals) /\ IsFiniteSet(Deposits)
  /\ Withdrawals \cap Deposits = {} /\ "none" \notin Withdrawals
  /\ MinWithdraw \in Nat \ {0} /\ Opening \subseteq Int /\ Changes \subseteq Int
  /\ MaxChanges \in Nat /\ MaxCrashes \in Nat /\ TurnedAway \in BOOLEAN

VARIABLES
  balance,   \* User.balance
  booked,    \* what it was to begin with, and all that bookings changed it by
  changes,   \* the changes so far
  row,       \* the status of each request's row in the transactions
  call,      \* where the server is with each request
  stripe,    \* Stripe: what became of each transfer
  old,       \* the requests made more than an hour ago
  review,    \* the review of a request that Stripe did not confirm
  crashed    \* the requests whose server stopped in the middle

vars == <<balance, booked, changes, row, call, stripe, old, review, crashed>>

----------------------------------------------------------------------------
(* State.                                                                  *)

Status == {"none", "pending", "needs_review", "completed", "failed", "succeeded"}
Places == {"idle", "take", "send", "resend", "record", "giveBack", "leave", "over"}

\* onItsWay: a request Stripe has not handled yet though nobody waits for it.
Transfers == {"none", "onItsWay", "made"}

\* who: whether the hourly job or an admin looks, at which request; found: what
\* Stripe said.
Reviewers == {"job", "admin"}
Reviews == [of : Withdrawals \cup {"none"}, found : BOOLEAN, looked : BOOLEAN]
About(w) == [of |-> w, found |-> FALSE, looked |-> FALSE]
Heard(w, found) == [of |-> w, found |-> found, looked |-> TRUE]
NoReview == About("none")

TypeOK ==
  /\ balance \in Int /\ booked \in Int /\ changes \in 0..MaxChanges
  /\ row \in [Withdrawals \cup Deposits -> Status]
  /\ call \in [Withdrawals -> Places]
  /\ stripe \in [Withdrawals -> Transfers]
  /\ old \subseteq Withdrawals
  /\ review \in [Reviewers -> Reviews]
  /\ crashed \subseteq Withdrawals

Init ==
  /\ balance \in Opening /\ booked = balance /\ changes = 0
  /\ row = [r \in Withdrawals \cup Deposits |-> IF r \in Deposits THEN "pending" ELSE "none"]
  /\ call = [w \in Withdrawals |-> "idle"]
  /\ stripe = [w \in Withdrawals |-> "none"]
  /\ old = {} /\ review = [v \in Reviewers |-> NoReview] /\ crashed = {}

Goto(w, place) == call' = [call EXCEPT ![w] = place]
Becomes(r, status) == row' = [row EXCEPT ![r] = status]

----------------------------------------------------------------------------
(* A request to withdraw (processWithdraw).                                *)

\* The checks, on the user's row as read here.
Request(w) ==
  /\ call[w] = "idle" /\ row[w] = "none"
  /\ Amount[w] >= MinWithdraw /\ Amount[w] <= balance
  /\ Goto(w, "take")
  /\ UNCHANGED <<balance, booked, changes, row, stripe, old, review, crashed>>

\* One transaction: the money comes off only if it is still there.
Take(w) ==
  /\ call[w] = "take"
  /\ IF balance >= Amount[w]
     THEN /\ balance' = balance - Amount[w]
          /\ Becomes(w, "pending")
          /\ Goto(w, "send")
     ELSE Goto(w, "over") /\ UNCHANGED <<balance, row>>
  /\ UNCHANGED <<booked, changes, stripe, old, review, crashed>>

\* The withdrawal's id keys the transfer: made once, however often it is asked for.
Send(w) ==
  /\ call[w] \in {"send", "resend"}
  /\ \/ stripe' = [stripe EXCEPT ![w] = "made"] /\ Goto(w, "record")
     \/ \* a 4xx, but for 409 (stripeRefused)
        /\ stripe[w] = "none" \/ (TurnedAway /\ call[w] = "resend")
        /\ Goto(w, "giveBack") /\ UNCHANGED stripe
     \/ \* no answer: asked again once, then left for review
        /\ \E s \in {stripe[w], "made", IF stripe[w] = "none" THEN "onItsWay" ELSE stripe[w]} :
             stripe' = [stripe EXCEPT ![w] = s]
        /\ Goto(w, IF call[w] = "send" THEN "resend" ELSE "leave")
  /\ UNCHANGED <<balance, booked, changes, row, old, review, crashed>>

\* A request on its way is handled by Stripe, or lost.
Lands(w) ==
  /\ stripe[w] = "onItsWay"
  /\ \E s \in {"none", "made"} : stripe' = [stripe EXCEPT ![w] = s]
  /\ UNCHANGED <<balance, booked, changes, row, call, old, review, crashed>>

Record(w) ==
  /\ call[w] = "record"
  /\ Becomes(w, "completed")
  /\ Goto(w, "over")
  /\ UNCHANGED <<balance, booked, changes, stripe, old, review, crashed>>

\* Mutant: without an answer the money goes back too.
GiveBackUnknown(w) ==
  /\ call[w] \in {"giveBack", "leave"}
  /\ balance' = balance + Amount[w]
  /\ Becomes(w, "failed")
  /\ Goto(w, "over")
  /\ UNCHANGED <<booked, changes, stripe, old, review, crashed>>

\* Stripe turned it down.
GiveBack(w) ==
  /\ call[w] = "giveBack"
  /\ balance' = balance + Amount[w]
  /\ Becomes(w, "failed")
  /\ Goto(w, "over")
  /\ UNCHANGED <<booked, changes, stripe, old, review, crashed>>

\* Mutant: the row says what the transfer came to, which no review looks for.
LeaveAsUnknown(w) ==
  /\ call[w] = "leave"
  /\ Becomes(w, "unknown")
  /\ Goto(w, "over")
  /\ UNCHANGED <<balance, booked, changes, stripe, old, review, crashed>>

LeaveForReview(w) ==
  /\ call[w] = "leave"
  /\ Becomes(w, "needs_review")
  /\ Goto(w, "over")
  /\ UNCHANGED <<balance, booked, changes, stripe, old, review, crashed>>

----------------------------------------------------------------------------
(* The review (reviewWithdrawals, adminSettle, settleWithdrawal).          *)

\* REVIEW_AFTER_MS: by then nothing of the request is on its way any more.
HourPasses(w) ==
  /\ row[w] # "none" /\ stripe[w] # "onItsWay" /\ call[w] = "over" /\ w \notin old
  /\ old' = old \cup {w}
  /\ UNCHANGED <<balance, booked, changes, row, call, stripe, review, crashed>>

\* The job takes those an hour old; an admin any, once Stripe shows nothing on its way.
Pick(v, w) ==
  /\ review[v].of = "none" /\ row[w] = "needs_review"
  /\ w \in old \/ (v = "admin" /\ stripe[w] # "onItsWay")
  /\ review' = [review EXCEPT ![v] = About(w)]
  /\ UNCHANGED <<balance, booked, changes, row, call, stripe, old, crashed>>

\* findTransfer, by its group; Stripe may not answer, and the next hour tries again.
Look(v) ==
  /\ review[v].of # "none" /\ ~ review[v].looked
  /\ \E seen \in {Heard(review[v].of, stripe[review[v].of] = "made"), NoReview} :
       review' = [review EXCEPT ![v] = seen]
  /\ UNCHANGED <<balance, booked, changes, row, call, stripe, old, crashed>>

\* Mutant: the status is not claimed.
SettleUnclaimed(v) ==
  LET w == review[v].of
  IN /\ w # "none" /\ review[v].looked
     /\ IF review[v].found THEN Becomes(w, "completed") /\ UNCHANGED balance
        ELSE Becomes(w, "failed") /\ balance' = balance + Amount[w]
     /\ review' = [review EXCEPT ![v] = NoReview]
     /\ UNCHANGED <<booked, changes, call, stripe, old, crashed>>

\* One transaction; only one of job and admin claims the status.
Settle(v) ==
  LET w == review[v].of
  IN /\ w # "none" /\ review[v].looked
     /\ \/ /\ row[w] = "needs_review" /\ review[v].found
           /\ Becomes(w, "completed") /\ UNCHANGED balance
        \/ /\ row[w] = "needs_review" /\ ~ review[v].found
           /\ Becomes(w, "failed") /\ balance' = balance + Amount[w]
        \/ row[w] # "needs_review" /\ UNCHANGED <<row, balance>>
     /\ review' = [review EXCEPT ![v] = NoReview]
     /\ UNCHANGED <<booked, changes, call, stripe, old, crashed>>

----------------------------------------------------------------------------
(* Deposits and the rest.                                                  *)

\* Mutant: each delivery credits it.
CreditEveryTime(d) ==
  /\ Becomes(d, "succeeded") /\ balance' = balance + Amount[d]
  /\ UNCHANGED <<booked, changes, call, stripe, old, review, crashed>>

\* payment_intent.succeeded, delivered once or more: one transaction.
Credit(d) ==
  /\ IF row[d] # "succeeded"
     THEN Becomes(d, "succeeded") /\ balance' = balance + Amount[d]
     ELSE UNCHANGED <<row, balance>>
  /\ UNCHANGED <<booked, changes, call, stripe, old, review, crashed>>

\* A booking's payout, or its recovery, which may leave a debt.
Change ==
  /\ changes < MaxChanges
  /\ \E c \in Changes : balance' = balance + c /\ booked' = booked + c
  /\ changes' = changes + 1
  /\ UNCHANGED <<row, call, stripe, old, review, crashed>>

\* The server stops; what it asked of Stripe stands.
Crash(w) ==
  /\ call[w] \notin {"idle", "over"} /\ Cardinality(crashed) < MaxCrashes
  /\ Goto(w, "over")
  /\ crashed' = crashed \cup {w}
  /\ UNCHANGED <<balance, booked, changes, row, stripe, old, review>>

----------------------------------------------------------------------------
RequestStep(w) == \/ Take(w) \/ Send(w) \/ Record(w) \/ GiveBack(w) \/ LeaveForReview(w)
ReviewStep(v) == Look(v) \/ Settle(v)

Next ==
  \/ \E w \in Withdrawals : Request(w) \/ RequestStep(w) \/ Lands(w) \/ HourPasses(w)
                              \/ Crash(w)
  \/ \E v \in Reviewers : ReviewStep(v) \/ \E w \in Withdrawals : Pick(v, w)
  \/ \E d \in Deposits : Credit(d)
  \/ Change

Spec == Init /\ [][Next]_vars

\* Requests run on, hours pass, the hourly job looks at each row it finds, and
\* Stripe does not fail to answer it for ever.
FairSpec ==
  /\ Spec
  /\ \A w \in Withdrawals : /\ WF_vars(RequestStep(w)) /\ WF_vars(Lands(w))
                            /\ WF_vars(HourPasses(w)) /\ SF_vars(Pick("job", w))
  /\ WF_vars(ReviewStep("job"))
  /\ SF_vars(Look("job") /\ review'["job"].looked)

----------------------------------------------------------------------------
(* Properties.                                                             *)

\* No money appears or vanishes: the balance is what bookings and deposits made it,
\* less the withdrawals that are not known to have failed.
Off(w) == IF row[w] \in {"pending", "needs_review", "completed"} THEN Amount[w] ELSE 0
In(d) == IF row[d] = "succeeded" THEN Amount[d] ELSE 0
Conserved == balance = booked + MapThenSumSet(In, Deposits) - MapThenSumSet(Off, Withdrawals)

\* A withdrawal is never both sent and put back, and never shown as sent when it
\* was not (the two sends, the review an hour later and the admin).
SentOrReturned ==
  \A w \in Withdrawals : /\ row[w] = "failed" => stripe[w] # "made"
                         /\ row[w] = "completed" => stripe[w] = "made"

\* What the wallet promises (Purse): each withdrawal's money is in one place, leaves
\* the balance only while it is there (two requests at once never withdraw the same
\* money), and moves over the way to the bank, or back, once.  It is at the bank
\* from the moment Stripe makes the transfer, whatever the row still says.
Where(w) ==
  CASE row[w] = "none"                           -> "balance"
    [] row[w] # "none" /\ stripe[w] = "made"     -> "bank"
    [] row[w] = "failed" /\ stripe[w] # "made"   -> "back"
    [] OTHER                                     -> "onTheWay"
Credited == {d \in Deposits : row[d] = "succeeded"}
P == INSTANCE Purse WITH place <- [w \in Withdrawals |-> Where(w)], credited <- Credited
KeepsThePurse == P!Spec

\* Unless its server stopped, a withdrawal ends: sent, or back on the balance.
WithdrawalEnds ==
  \A w \in Withdrawals :
    row[w] = "pending" ~> row[w] \in {"completed", "failed"} \/ w \in crashed

=============================================================================
