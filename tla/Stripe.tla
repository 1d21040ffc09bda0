------------------------------- MODULE Stripe -------------------------------
(***************************************************************************)
(* Stripe as the backend sees it: the payment intents of one booking and   *)
(* the events about them that its webhook is sent.  External: modelled     *)
(* from the calls and events in common/lib/Payment/stripe/StripePayment.ts *)
(* and payment/stripe/stripe.controller.ts.                                *)
(*                                                                         *)
(* An intent that never took or held money (a declined charge) is a Dud:   *)
(* nothing can be captured or refunded on it, and the backend ignores its  *)
(* payment_failed event.                                                   *)
(***************************************************************************)
EXTENDS Integers

CONSTANTS
  Installments,  \* the installments of the booking
  Intents,       \* identities for the payment intents (bounds their number)
  Dud,           \* an intent that never took or held money
  None           \* "no installment", "no intent"

VARIABLE intent

IntentStatus == {"succeeded", "requires_capture", "canceled"}

\* of     the installment in the intent's metadata
\* state  its status now ("unused": not created yet)
\* taken  money captured, or held while requires_capture
\* back   money refunded so far
\* undone money refunded under the key ended-<installment> (0: key unused)
\* told   the events sent about it; news: those no handler has received
IntentRecords(Amounts) ==
  [of : Installments \cup {None}, state : IntentStatus \cup {"unused"},
   taken : Amounts, back : Amounts, undone : Amounts,
   told : SUBSET IntentStatus, news : SUBSET IntentStatus]

Unused == [of |-> None, state |-> "unused", taken |-> 0, back |-> 0,
           undone |-> 0, told |-> {}, news |-> {}]

StripeInit == intent = [n \in Intents |-> Unused]

\* Every change of status is reported by an event.
Becomes(record, status) ==
  [record EXCEPT !.state = status, !.told = @ \cup {status},
                 !.news = @ \cup {status}]

\* paymentIntents.create with confirm: the money is taken, or held on the card
\* when capture_method is manual.
Created(i, amount, status) ==
  Becomes([Unused EXCEPT !.of = i, !.taken = amount], status)

\* paymentIntents.capture for an amount up to the hold; the rest is let go.
\* Repeated under its key, it answers as the first time.
CanCapture(n) == n \in Intents /\ intent[n].state \in {"requires_capture", "succeeded"}
Capture(n, amount) ==
  intent' = IF intent[n].state = "succeeded" THEN intent
            ELSE [intent EXCEPT ![n] = Becomes([@ EXCEPT !.taken = amount], "succeeded")]

\* paymentIntents.cancel: refused for an intent already captured or canceled.
CanCancel(n) == n = Dud \/ (n \in Intents /\ intent[n].state = "requires_capture")
Cancel(n) ==
  intent' = IF n \in Intents /\ intent[n].state = "requires_capture"
            THEN [intent EXCEPT ![n] = Becomes(@, "canceled")] ELSE intent

\* refunds.create: refused once it would give back more than was taken.
CanRefund(n, amount) ==
  /\ n \in Intents
  /\ intent[n].state = "succeeded"
  /\ intent[n].back + amount <= intent[n].taken

\* The customer's money Vendly has of intent n; a hold takes none of it yet.
Kept(n) == IF intent[n].state = "succeeded"
           THEN intent[n].taken - intent[n].back ELSE 0

\* The intent still ties up the customer's money: kept, or held on the card.
Live(n) == Kept(n) > 0 \/ intent[n].state = "requires_capture"
=============================================================================
