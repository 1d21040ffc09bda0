------------------------- MODULE MoneyLock_proofs -------------------------
(***************************************************************************)
(* The money lock for any set of calls and any lease and wait: its type,   *)
(* exclusion inside the lease, and that no step takes a running lease away *)
(* from the call that holds it.                                            *)
(***************************************************************************)
EXTENDS MoneyLock, TLAPS

\* What every step of the specification may be.
LEMMA NextCases ==
  ASSUME Next
  PROVE  \/ \E c \in Calls : Begin(c)
         \/ \E c \in Calls : Claim(c)
         \/ \E c \in Calls : Miss(c) \/ FindNoBooking(c) \/ GiveUp(c)
                               \/ PollAgain(c) \/ EndUnlocked(c)
         \/ \E c \in Calls : Release(c)
         \/ \E c \in Calls : Crash(c)
         \/ DeleteBooking
         \/ Tick
  BY Zenon DEF Next, CallStep

\* A countdown stays in its range.
LEMMA LessType ==
  ASSUME NEW n \in Nat, NEW k \in 0..n
  PROVE  /\ Less(k) \in 0..n
         /\ k > 0 => Less(k) = k - 1
         /\ Less(k) > 0 => k > 0
  BY DEF Less

\* Moving one call to a place, with a lease, keeps the calls' type.
LEMMA MoveType ==
  ASSUME TypeOK, NEW c \in Calls, NEW p \in Places, NEW l \in 0..LeaseTicks
  PROVE  [call EXCEPT ![c].at = p, ![c].lease = l] \in
           [Calls -> [at : Places, waited : 0..(WaitTicks + 1),
                      lease : 0..LeaseTicks]]
<1>1. [call[c] EXCEPT !.at = p, !.lease = l] \in
        [at : Places, waited : 0..(WaitTicks + 1), lease : 0..LeaseTicks]
  BY DEF TypeOK
<1>2. [call EXCEPT ![c].at = p, ![c].lease = l]
        = [call EXCEPT ![c] = [call[c] EXCEPT !.at = p, !.lease = l]]
  BY DEF TypeOK
<1>3. QED BY <1>1, <1>2 DEF TypeOK

\* At the start nothing is held.
LEMMA InitIInv == ASSUME Init PROVE IInv
  BY NoTokenAssumption, TicksAssumption
     DEF Init, IInv, TypeOK, Rows, Places, RowHoldsTheLease, Protected

\* Every step keeps the types and the agreement of the row with its holder.
LEMMA StepIInv ==
  ASSUME IInv, [Next]_vars
  PROVE  IInv'
<1> USE NoTokenAssumption, TicksAssumption DEF IInv, TypeOK, Rows, Places,
        RowHoldsTheLease, Protected, Goto
<1>1. ASSUME NEW c \in Calls, Begin(c) PROVE IInv'
  BY <1>1 DEF Begin
<1>2. ASSUME NEW c \in Calls, Claim(c) PROVE IInv'
  <2>1. TypeOK'
    <3>1. LeaseTicks \in 0..LeaseTicks
      OBVIOUS
    <3>2. row' \in Rows
      BY <1>2, <3>1 DEF Claim
    <3>3. QED BY <1>2, <3>1, <3>2, MoveType DEF Claim
  <2>2. \A d \in Calls : d # c => ~ Protected(d)
    BY <1>2 DEF Claim, Claimable
  <2>3. ASSUME NEW d \in Calls, Protected(d)'
        PROVE  (row.token = d /\ row.left = call[d].lease)'
    <3>1. CASE d = c
      BY <1>2, <3>1 DEF Claim
    <3>2. CASE d # c
      BY <1>2, <2>2, <2>3, <3>2 DEF Claim
    <3>3. QED BY <3>1, <3>2
  <2>4. QED BY <2>1, <2>3
<1>3. ASSUME NEW c \in Calls,
             Miss(c) \/ FindNoBooking(c) \/ GiveUp(c) \/ PollAgain(c)
               \/ EndUnlocked(c)
      PROVE IInv'
  BY <1>3 DEF Miss, FindNoBooking, GiveUp, PollAgain, EndUnlocked
<1>4. ASSUME NEW c \in Calls, Release(c) PROVE IInv'
  <2>1. TypeOK'
    <3>1. "done" \in Places /\ 0 \in 0..LeaseTicks
      OBVIOUS
    <3>2. row' \in Rows
      BY <1>4, <3>1 DEF Release
    <3>3. call' = [call EXCEPT ![c].at = "done", ![c].lease = 0]
      BY <1>4 DEF Release
    <3>4. QED BY <3>1, <3>2, <3>3, MoveType
  <2>2. ASSUME NEW d \in Calls, Protected(d)'
        PROVE  (row.token = d /\ row.left = call[d].lease)'
    BY <1>4, <2>2 DEF Release
  <2>3. QED BY <2>1, <2>2
<1>5. ASSUME NEW c \in Calls, Crash(c) PROVE IInv'
  <2>1. TypeOK'
    <3>1. "dead" \in Places /\ 0 \in 0..LeaseTicks
      OBVIOUS
    <3>2. row' \in Rows
      BY <1>5, <3>1 DEF Crash
    <3>3. call' = [call EXCEPT ![c].at = "dead", ![c].lease = 0]
      BY <1>5 DEF Crash
    <3>4. QED BY <3>1, <3>2, <3>3, MoveType
  <2>2. ASSUME NEW d \in Calls, Protected(d)'
        PROVE  (row.token = d /\ row.left = call[d].lease)'
    BY <1>5, <2>2 DEF Crash
  <2>3. QED BY <2>1, <2>2
<1>6. CASE DeleteBooking
  BY <1>6 DEF DeleteBooking
<1>7. CASE Tick
  <2>1. row' \in Rows
    BY <1>7, LessType DEF Tick
  <2>2. ASSUME NEW c \in Calls
        PROVE  call'[c] \in [at : Places, waited : 0..(WaitTicks + 1),
                             lease : 0..LeaseTicks]
    <3>1. Less(call[c].lease) \in 0..LeaseTicks
      BY LessType
    <3>2. ASSUME call[c].at \in {"trying", "missed"}
          PROVE  call[c].waited + 1 \in 0..(WaitTicks + 1)
      <4>1. ~ (call[c].waited > WaitTicks)
        BY <1>7, <3>2 DEF Tick, Overdue
      <4>2. QED BY <4>1
    <3>3. QED BY <1>7, <3>1, <3>2 DEF Tick
  <2>3. call' \in [Calls -> [at : Places, waited : 0..(WaitTicks + 1),
                             lease : 0..LeaseTicks]]
    <3>1. call' = [c \in Calls |-> call'[c]]
      BY <1>7 DEF Tick
    <3>2. QED BY <2>2, <3>1
  <2>4. ASSUME NEW d \in Calls, Protected(d)'
        PROVE  (row.token = d /\ row.left = call[d].lease)'
    <3>1. /\ call'[d].at = call[d].at
          /\ call'[d].lease = Less(call[d].lease)
          /\ row'.exists = row.exists
          /\ row'.token = row.token
          /\ row'.left = Less(row.left)
      BY <1>7 DEF Tick
    <3>2. Protected(d)
      BY <2>4, <3>1, LessType
    <3>3. QED BY <3>1, <3>2
  <2>5. QED BY <2>1, <2>3, <2>4
<1>8. CASE UNCHANGED vars
  BY <1>8 DEF vars
<1>9. QED
  BY <1>1, <1>2, <1>3, <1>4, <1>5, <1>6, <1>7, <1>8, NextCases

\* The agreement leaves room for one protected call only.
LEMMA IInvExclusive == ASSUME IInv PROVE Exclusive
  BY DEF IInv, RowHoldsTheLease, Exclusive

\* The row and the calls keep their types, for any number of calls.
THEOREM TypeCorrect == Spec => []TypeOK
<1>1. Init => IInv
  BY InitIInv
<1>2. IInv /\ [Next]_vars => IInv'
  BY StepIInv
<1>3. IInv => TypeOK
  BY DEF IInv
<1>4. QED BY <1>1, <1>2, <1>3, PTL DEF Spec

\* Two refunds, payouts or captures of one booking never both run inside
\* their lease.
THEOREM MutualExclusion == Spec => []Exclusive
<1>1. Init => IInv
  BY InitIInv
<1>2. IInv /\ [Next]_vars => IInv'
  BY StepIInv
<1>3. IInv => Exclusive
  BY IInvExclusive
<1>4. QED BY <1>1, <1>2, <1>3, PTL DEF Spec

\* No step of another call, a late release included, and no tick takes a
\* running lease from its call.
THEOREM LeaseKept == Spec => LeaseIsNotStolen
<1>1. Init => IInv
  BY InitIInv
<1>2. IInv /\ [Next]_vars => IInv'
  BY StepIInv
<1>3. ASSUME IInv, [Next]_vars
      PROVE  [\A c \in Calls :
                Protected(c) /\ call'[c].at = "working" /\ row'.exists
                  => row'.token = c]_vars
  <2> SUFFICES ASSUME NEW d \in Calls,
                      Protected(d), call'[d].at = "working", row'.exists
               PROVE  row'.token = d
    OBVIOUS
  <2> USE NoTokenAssumption, TicksAssumption DEF IInv, TypeOK, Rows,
          RowHoldsTheLease, Protected, Goto
  <2>1. ASSUME NEW c \in Calls, Begin(c) PROVE row'.token = d
    BY <1>3, <2>1 DEF Begin
  <2>2. ASSUME NEW c \in Calls, Claim(c) PROVE row'.token = d
    BY <1>3, <2>2 DEF Claim, Claimable
  <2>3. ASSUME NEW c \in Calls,
               Miss(c) \/ FindNoBooking(c) \/ GiveUp(c) \/ PollAgain(c)
                 \/ EndUnlocked(c)
        PROVE row'.token = d
    BY <1>3, <2>3 DEF Miss, FindNoBooking, GiveUp, PollAgain, EndUnlocked
  <2>4. ASSUME NEW c \in Calls, Release(c) PROVE row'.token = d
    BY <1>3, <2>4 DEF Release
  <2>5. ASSUME NEW c \in Calls, Crash(c) PROVE row'.token = d
    BY <1>3, <2>5 DEF Crash
  <2>6. CASE DeleteBooking
    BY <2>6 DEF DeleteBooking
  <2>7. CASE Tick
    BY <1>3, <2>7 DEF Tick
  <2>8. CASE UNCHANGED vars
    BY <1>3, <2>8 DEF vars
  <2>9. QED
    BY <1>3, <2>1, <2>2, <2>3, <2>4, <2>5, <2>6, <2>7, <2>8, NextCases
<1>4. QED BY <1>1, <1>2, <1>3, PTL DEF Spec, LeaseIsNotStolen
=============================================================================
