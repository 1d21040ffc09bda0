----------------------------- MODULE MoneyLock -----------------------------
(***************************************************************************)
(* withBookingLock (common/helper/job-lock.ts): the lock that refunds,     *)
(* payouts and captures on one booking take.  It is a lease: a value in    *)
(* the booking's row (money_lock_until, money_lock_token) that a call      *)
(* claims with one conditional UPDATE, that runs out by itself, and that   *)
(* only the call whose token it still holds may clear.                     *)
(*                                                                         *)
(* Time is counted in ticks.  The row keeps the ticks its lease has left   *)
(* (0: money_lock_until is null or in the past).  Every call of            *)
(* withBookingLock is one member of Calls and is its own token, as every   *)
(* call draws a fresh UUID.                                                *)
(***************************************************************************)
EXTENDS Naturals

CONSTANTS
  Calls,       \* the calls of withBookingLock on one booking
  NoToken,     \* money_lock_token is null
  LeaseTicks,  \* MONEY_LOCK_MS, in ticks
  WaitTicks    \* MONEY_LOCK_WAIT_MS, in ticks

ASSUME NoTokenAssumption == NoToken \notin Calls
ASSUME TicksAssumption == LeaseTicks \in Nat \ {0} /\ WaitTicks \in Nat

VARIABLES
  row,   \* the booking's row: does it exist, whose token it holds, ticks left
  call   \* each call: where it is, how long it has waited, its own lease

vars == <<row, call>>

\* new      not called yet            working   runs `work` under its claim
\* trying   about to claim            unlocked  runs `work` with no booking
\* missed   its claim matched no row  done, refused, dead   ended
Places == {"new", "trying", "missed", "working", "unlocked",
           "done", "refused", "dead"}

Rows == [exists : BOOLEAN, token : Calls \cup {NoToken}, left : 0..LeaseTicks]

TypeOK ==
  /\ row \in Rows
  /\ call \in [Calls -> [at : Places, waited : 0..(WaitTicks + 1),
                         lease : 0..LeaseTicks]]

Init ==
  /\ row = [exists |-> TRUE, token |-> NoToken, left |-> 0]
  /\ call = [c \in Calls |-> [at |-> "new", waited |-> 0, lease |-> 0]]

Goto(c, place) == call' = [call EXCEPT ![c].at = place]

----------------------------------------------------------------------------
(* Slips a change of this code could make, used to show that the           *)
(* properties see them.                                                    *)

\* The claim ignores that the lease is still running.
ClaimableAlways == row.exists

\* The loop never looks at its deadline.
PollForever(c) ==
  /\ call[c].at = "missed"
  /\ row.exists
  /\ Goto(c, "trying")
  /\ UNCHANGED row

\* The finally block without money_lock_token in its WHERE.
ReleaseAnyToken(c) ==
  /\ call[c].at = "working"
  /\ call' = [call EXCEPT ![c].at = "done", ![c].lease = 0]
  /\ row' = IF row.exists THEN [row EXCEPT !.token = NoToken, !.left = 0]
            ELSE row

\* The claim writes the token but no time at which it ends.
TickKeepsLease ==
  /\ call' = [c \in Calls |->
       [call[c] EXCEPT
          !.waited = IF call[c].at \in {"trying", "missed"} /\ @ <= WaitTicks
                     THEN @ + 1 ELSE @]]
  /\ UNCHANGED row

----------------------------------------------------------------------------
(* The call.                                                               *)

Begin(c) ==
  /\ call[c].at = "new"
  /\ Goto(c, "trying")
  /\ UNCHANGED row

\* The WHERE of the claim: money_lock_until null or before now.
Claimable == row.exists /\ row.left = 0

\* A lease written a tick longer than the call counts on.
ClaimTickLonger(c) ==
  /\ call[c].at = "trying"
  /\ Claimable
  /\ row' = [row EXCEPT !.token = c, !.left = LeaseTicks + 1]
  /\ call' = [call EXCEPT ![c].at = "working", ![c].lease = LeaseTicks]

Claim(c) ==
  /\ call[c].at = "trying"
  /\ Claimable
  /\ row' = [row EXCEPT !.token = c, !.left = LeaseTicks]
  /\ call' = [call EXCEPT ![c].at = "working", ![c].lease = LeaseTicks]

\* claimed.count is 0.
Miss(c) ==
  /\ call[c].at = "trying"
  /\ ~ Claimable
  /\ Goto(c, "missed")
  /\ UNCHANGED row

\* The booking is looked up after the miss: none, so `work` runs unlocked.
FindNoBooking(c) ==
  /\ call[c].at = "missed"
  /\ ~ row.exists
  /\ Goto(c, "unlocked")
  /\ UNCHANGED row

\* 503, also when the lock was freed since the claim missed it.
GiveUp(c) ==
  /\ call[c].at = "missed"
  /\ row.exists
  /\ call[c].waited > WaitTicks
  /\ Goto(c, "refused")
  /\ UNCHANGED row

PollAgain(c) ==
  /\ call[c].at = "missed"
  /\ row.exists
  /\ call[c].waited <= WaitTicks
  /\ Goto(c, "trying")
  /\ UNCHANGED row

\* `work` ends, normally or by a throw; the finally block clears the row
\* only where the token is still this call's.
Release(c) ==
  /\ call[c].at = "working"
  /\ call' = [call EXCEPT ![c].at = "done", ![c].lease = 0]
  /\ row' = IF row.exists /\ row.token = c
            THEN [row EXCEPT !.token = NoToken, !.left = 0]
            ELSE row

EndUnlocked(c) ==
  /\ call[c].at = "unlocked"
  /\ Goto(c, "done")
  /\ UNCHANGED row

----------------------------------------------------------------------------
(* The environment.                                                        *)

\* The server dies: nothing runs its finally block.
Crash(c) ==
  /\ call[c].at \in {"trying", "missed", "working", "unlocked"}
  /\ call' = [call EXCEPT ![c].at = "dead", ![c].lease = 0]
  /\ UNCHANGED row

\* The booking's row is deleted (removal of an account's or test data).
DeleteBooking ==
  /\ row.exists
  /\ row' = [exists |-> FALSE, token |-> NoToken, left |-> 0]
  /\ UNCHANGED call

\* Bound: a call that polls every 250 ms is not overtaken by a whole tick
\* after its deadline, so time waits for it to poll once more.
Overdue(c) == call[c].at \in {"trying", "missed"} /\ call[c].waited > WaitTicks

Less(n) == IF n = 0 THEN 0 ELSE n - 1

Tick ==
  /\ \A c \in Calls : ~ Overdue(c)
  /\ row' = [row EXCEPT !.left = Less(@)]
  /\ call' = [c \in Calls |->
       [call[c] EXCEPT
          !.lease = Less(@),
          !.waited = IF call[c].at \in {"trying", "missed"} THEN @ + 1 ELSE @]]

CallStep(c) ==
  \/ Begin(c) \/ Claim(c) \/ Miss(c) \/ FindNoBooking(c) \/ GiveUp(c)
  \/ PollAgain(c) \/ Release(c) \/ EndUnlocked(c)

Next ==
  \/ \E c \in Calls : CallStep(c) \/ Crash(c)
  \/ DeleteBooking
  \/ Tick

Spec == Init /\ [][Next]_vars

\* The event loop keeps running a live call's continuations and the clock
\* advances; nothing forces a crash, a deletion, a new call or the end of
\* `work` (a Stripe call inside it has retries of its own).
FairSpec ==
  /\ Spec
  /\ WF_vars(Tick)
  /\ \A c \in Calls : WF_vars(Claim(c) \/ Miss(c) \/ FindNoBooking(c)
                              \/ GiveUp(c) \/ PollAgain(c))

----------------------------------------------------------------------------
(* Properties.                                                             *)

\* `work` of c is protected: it claimed the row, the booking is still there
\* and its five minutes are not over.
Protected(c) == call[c].at = "working" /\ call[c].lease > 0 /\ row.exists

\* Two calls never both run their `work` inside their lease, whatever the
\* order of claims, expiries, late releases and crashes.
Exclusive ==
  \A c, d \in Calls : Protected(c) /\ Protected(d) => c = d

\* The ground of Exclusive: the row holds the token of the protected call and
\* exactly the time that call has left.
RowHoldsTheLease ==
  \A c \in Calls : Protected(c) => row.token = c /\ row.left = call[c].lease

IInv == TypeOK /\ RowHoldsTheLease

\* No step takes a running lease from its call except its own end, its
\* server's crash or the end of the booking: in particular the late release
\* of a call whose lease ran out leaves the next holder's lock alone.
LeaseIsNotStolen ==
  [][\A c \in Calls :
       Protected(c) /\ call'[c].at = "working" /\ row'.exists
         => row'.token = c]_vars

\* Every call that waits is let in or refused, although the holder may have
\* died with the lock or may never end.
Answered ==
  \A c \in Calls :
    call[c].at = "trying" ~> call[c].at \notin {"trying", "missed"}

\* A lock whose holder died is free again some time later, without help.
DeadLockExpires ==
  \A c \in Calls :
    call[c].at = "dead" ~> (row.token # c \/ row.left = 0)

=============================================================================
