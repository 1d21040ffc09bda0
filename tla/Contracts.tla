------------------------------ MODULE Contracts ------------------------------
(***************************************************************************)
(* One booking's contracts: the request signed by the customer (and by a   *)
(* planner's client), the vendor's suggested changes to it, Accept & Sign, *)
(* and the amendments and payment plans agreed afterwards                  *)
(* (contracts/booking-contracts.service.ts, request-changes.service.ts,    *)
(* payment-plans.service.ts), with the calls that end a request or a       *)
(* booking (booking.service.ts, booking-reminders.service.ts).             *)
(*                                                                         *)
(* A call reads and checks, spends a while on the signature image and the  *)
(* executed PDF, and only then writes, in one transaction.  A session has  *)
(* one call under way; calls of different sessions interleave between      *)
(* these steps.  Postgres runs each transaction as one step here: its      *)
(* guards are conditional updates of the rows it then holds.               *)
(***************************************************************************)
EXTENDS Naturals, Sequences, FiniteSets

CONSTANTS Vendors,        \* the vendor's sessions
          Changes,        \* what an amendment may change
          RacingDeclines, \* a decline may overlap a signature of the same amendment
          MaxVersions     \* bound: the contract versions of the booking

ASSUME ContractsAssumption ==
    /\ RacingDeclines \in BOOLEAN
    /\ MaxVersions \in Nat \ {0}
    /\ Vendors \cap {"customer", "client", "job"} = {}
    /\ Changes \subseteq {{"date"}, {"amount"}, {"date", "amount"}}

VARIABLES booking, \* the booking's status
          booked,  \* the booking row's terms: for each, the version that set it
          charged, \* a charge of the booking has been taken or started
          con,     \* the booking's contracts, by version
          call     \* for each session, the call it has under way

vars == <<booking, booked, charged, con, call>>
-----------------------------------------------------------------------------
Customer == "customer"
Client == "client"
Job == "job"                       \* the hourly housekeeping job
Sessions == Vendors \cup {Customer, Client, Job}
Role(s) == IF s \in Vendors THEN "vendor" ELSE s

Terms == {"date", "amount", "plan"}
Pending == {"AWAITING_CUSTOMER", "AWAITING_CLIENT", "AWAITING_VENDOR"}
Statuses == Pending \cup {"EXECUTED", "SUPERSEDED", "VOID"}

Versions == DOMAIN con
Latest(S) == CHOOSE v \in S : \A w \in S : w <= v
InForce == {v \in Versions : con[v].status = "EXECUTED"}
IsAmendment(v) == con[v].kind \in {"amendment", "plan"}

\* request-changes.service.ts waiting(): the suggestion with the customer
Suggested == {v \in Versions : con[v].kind = "suggestion" /\ con[v].status = "AWAITING_CUSTOMER"}
\* the contract Accept & Sign would execute: the request's or an approved suggestion
Acceptable == {v \in Versions : con[v].status = "AWAITING_VENDOR" /\ ~IsAmendment(v)}
AwaitingClient == {v \in Versions : con[v].status = "AWAITING_CLIENT"}
PendingAmendments == {v \in Versions : IsAmendment(v) /\ con[v].status \in Pending}

NoDraft == [kind |-> "none"]
Idle == [op |-> "idle", at |-> "", v |-> 0, seen |-> "", draft |-> NoDraft, left |-> {}]
Start(s, op, at, v) == call' = [call EXCEPT ![s] = [Idle EXCEPT !.op = op, !.at = at, !.v = v]]
StartDraft(s, op, draft) ==
    call' = [call EXCEPT ![s] = [Idle EXCEPT !.op = op, !.at = "commit", !.v = Len(con) + 1, !.draft = draft]]
Return(s) == call' = [call EXCEPT ![s] = Idle]
Refused(s) == Return(s) /\ UNCHANGED <<booking, booked, charged, con>>
Under(s, op, at) == call[s].op = op /\ call[s].at = at

\* the unique (contract, role) signature and the unique (booking, version) contract
CanSign(s, v) == Role(s) \notin con[v].signed
\* Mutant: versions are not unique.
CanCreateAgain(s) == call[s].v <= MaxVersions
CanCreate(s) == call[s].v = Len(con) + 1 /\ call[s].v <= MaxVersions
-----------------------------------------------------------------------------
(* The request.                                                             *)

\* createSignedBooking: the booking, its contract and the customer's signature;
\* an event's client co-signs first.
Init ==
    /\ booking = "PENDING"
    /\ booked = [t \in Terms |-> 1]
    /\ charged = FALSE
    /\ \E client \in BOOLEAN :
         con = <<[kind |-> "request",
                  status |-> IF client THEN "AWAITING_CLIENT" ELSE "AWAITING_VENDOR",
                  supersedes |-> 0, changes |-> Terms, terms |-> booked, paid |-> FALSE,
                  client |-> client, signed |-> {"customer"}]>>
    /\ call = [s \in Sessions |-> Idle]

\* clientSign: the guard of its update repeats what it checked.
ClientSign(s) ==
    /\ s = Client /\ call[s] = Idle
    /\ \E v \in AwaitingClient :
         /\ CanSign(s, v)
         /\ con' = [con EXCEPT ![v].status = "AWAITING_VENDOR", ![v].signed = @ \cup {"client"}]
    /\ UNCHANGED <<booking, booked, charged, call>>

\* confirm, then countersignForBooking, up to the vendor's signature image
BeginAccept(s) ==
    /\ s \in Vendors /\ call[s] = Idle
    /\ booking = "PENDING" /\ Suggested = {} /\ Acceptable # {}
    /\ Start(s, "accept", "read", Latest(Acceptable))
    /\ UNCHANGED <<booking, booked, charged, con>>

\* execute reads the contract again, whatever its status is by now, before
\* it renders the PDF
ReadToSign(s) ==
    /\ call[s].op \in {"accept", "sign"} /\ call[s].at = "read"
    /\ call' = [call EXCEPT ![s].at = "commit", ![s].seen = con[call[s].v].status]
    /\ UNCHANGED <<booking, booked, charged, con>>

\* execute's transaction may write: the contract is as it was read, and this
\* party has not signed it
Unchanged(s) == con[call[s].v].status = call[s].seen /\ CanSign(s, call[s].v)

\* The executed contract, and with it the suggestions still with the customer voided.
Accepted(s) ==
    [v \in Versions |->
        IF v = call[s].v
        THEN [con[v] EXCEPT !.status = "EXECUTED", !.signed = @ \cup {"vendor"}]
        ELSE IF con[v].status = "AWAITING_CUSTOMER" /\ con[v].supersedes # 0
             THEN [con[v] EXCEPT !.status = "VOID"]
             ELSE con[v]]

CommitAccept(s) ==
    /\ Under(s, "accept", "commit")
    /\ IF Unchanged(s) /\ booking = "PENDING"
       THEN /\ con' = Accepted(s)
            /\ booking' = "CONFIRMED"
            /\ Return(s)
            /\ UNCHANGED <<booked, charged>>
       ELSE Refused(s)
-----------------------------------------------------------------------------
(* Suggested changes to a request.                                          *)

Suggestion(base) ==
    LET v == Len(con) + 1 IN
    [kind |-> "suggestion", status |-> "AWAITING_CUSTOMER", supersedes |-> base,
     changes |-> Terms, terms |-> [t \in Terms |-> v], paid |-> FALSE,
     client |-> con[base].client, signed |-> {}]

\* prepare and cannotSuggest
BeginSuggest(s) ==
    /\ s \in Vendors /\ call[s] = Idle
    /\ booking = "PENDING" /\ Suggested = {} /\ AwaitingClient = {} /\ Acceptable # {}
    /\ Len(con) < MaxVersions
    /\ StartDraft(s, "suggest", Suggestion(Latest(Acceptable)))
    /\ UNCHANGED <<booking, booked, charged, con>>

\* send's transaction: the request is open and nothing else waits for the customer
CommitSuggest(s) ==
    /\ Under(s, "suggest", "commit")
    /\ IF booking = "PENDING" /\ CanCreate(s)
          /\ \A v \in Versions : con[v].status # "AWAITING_CUSTOMER"
       THEN /\ con' = Append(con, call[s].draft)
            /\ Return(s)
            /\ UNCHANGED <<booking, booked, charged>>
       ELSE Refused(s)

BeginApprove(s) ==
    /\ s = Customer /\ call[s] = Idle
    /\ booking = "PENDING" /\ Suggested # {}
    /\ Start(s, "approve", "commit", Latest(Suggested))
    /\ UNCHANGED <<booking, booked, charged, con>>

\* Mutant: approve does not check that the suggestion is still there.
StillSuggestedLate(s) ==
    LET v == call[s].v IN
    /\ con[con[v].supersedes].status = "AWAITING_VENDOR"
    /\ CanSign(s, v)
    /\ booking = "PENDING"

\* approve's guards: the suggestion is still with the customer, its base with the vendor
StillSuggested(s) ==
    LET v == call[s].v IN
    /\ con[v].status = "AWAITING_CUSTOMER"
    /\ con[con[v].supersedes].status = "AWAITING_VENDOR"
    /\ CanSign(s, v)
    /\ booking = "PENDING"

\* Mutant: approved changes skip the client.
NextSignerVendor(c) == IF c.kind = "suggestion" THEN "AWAITING_VENDOR" ELSE "AWAITING_CLIENT"

\* who signs an approved suggestion next: the client who co-signed the request, then the vendor
NextSigner(c) == IF c.client THEN "AWAITING_CLIENT" ELSE "AWAITING_VENDOR"

CommitApprove(s) ==
    /\ Under(s, "approve", "commit")
    /\ IF StillSuggested(s)
       THEN LET v == call[s].v IN
            /\ con' = [con EXCEPT ![v].status = NextSigner(con[v]),
                                  ![v].signed = @ \cup {"customer"},
                                  ![con[v].supersedes].status = "SUPERSEDED"]
            /\ booked' = con[v].terms
            /\ Return(s)
            /\ UNCHANGED <<booking, charged>>
       ELSE Refused(s)

\* withdraw and decline: close() voids it only while it waits, as they checked
CloseSuggestion(s) ==
    /\ s \in Vendors \cup {Customer} /\ call[s] = Idle
    /\ \E v \in Suggested : con' = [con EXCEPT ![v].status = "VOID"]
    /\ UNCHANGED <<booking, booked, charged, call>>
-----------------------------------------------------------------------------
(* Amendments and payment plans.                                            *)

Draft(s, kind, fields) ==
    LET v == Len(con) + 1 IN
    [kind |-> kind,
     status |-> IF s = Customer THEN "AWAITING_VENDOR" ELSE "AWAITING_CUSTOMER",
     supersedes |-> Latest(InForce), changes |-> fields,
     terms |-> [t \in Terms |-> IF t \in fields THEN v ELSE booked[t]],
     paid |-> charged, client |-> FALSE, signed |-> {Role(s)}]

\* amendmentContext, for requestAmendment
BeginAmend(s) ==
    /\ s \in Vendors \cup {Customer} /\ call[s] = Idle
    /\ booking \notin {"CANCELLED", "REJECTED"}
    /\ InForce # {} /\ PendingAmendments = {}
    /\ Len(con) < MaxVersions
    /\ \E fields \in Changes :
         /\ "amount" \in fields => s \in Vendors /\ ~charged
         /\ StartDraft(s, "amend", Draft(s, "amendment", fields))
    /\ UNCHANGED <<booking, booked, charged, con>>

\* requestAmendment's transaction checks nothing again: only the version is unique
CommitAmend(s) ==
    /\ Under(s, "amend", "commit")
    /\ IF CanCreate(s)
       THEN /\ con' = Append(con, call[s].draft)
            /\ Return(s)
            /\ UNCHANGED <<booking, booked, charged>>
       ELSE Refused(s)

\* payment-plans.service.ts cannotPropose, then propose's transaction
BeginPlan(s) ==
    /\ s \in Vendors /\ call[s] = Idle
    /\ booking = "CONFIRMED"
    /\ InForce # {} /\ PendingAmendments = {}
    /\ Len(con) < MaxVersions
    /\ StartDraft(s, "plan", Draft(s, "plan", {"plan"}))
    /\ UNCHANGED <<booking, booked, charged, con>>

CommitPlan(s) ==
    /\ Under(s, "plan", "commit")
    /\ IF booking = "CONFIRMED" /\ CanCreate(s)
          /\ \A v \in Versions : con[v].status \in Pending => con[v].supersedes = 0
       THEN /\ con' = Append(con, call[s].draft)
            /\ Return(s)
            /\ UNCHANGED <<booking, booked, charged>>
       ELSE Refused(s)

Declining(v) == \E s \in Sessions : call[s].op = "decline" /\ call[s].v = v
Signing(v) == \E s \in Sessions : call[s].op = "sign" /\ call[s].v = v

\* signAmendment's checks
BeginSign(s, v) ==
    /\ call[s] = Idle /\ IsAmendment(v)
    /\ \/ s = Customer /\ con[v].status = "AWAITING_CUSTOMER"
       \/ s \in Vendors /\ con[v].status = "AWAITING_VENDOR"
    /\ con[v].kind = "plan" => booking = "CONFIRMED"
    /\ "amount" \in con[v].changes => ~charged
    /\ RacingDeclines \/ ~Declining(v)
    /\ Start(s, "sign", "read", v)
    /\ UNCHANGED <<booking, booked, charged, con>>

\* Mutant: the price is checked before the transaction only.
ChargesAllowPlansOnly(c) == c.kind = "plan" => charged = c.paid

\* what the transaction checks again of the charges: assertPriceChangeable and
\* applyAmendmentToCharges for a price, replaceUnpaidCharges for a plan
ChargesAllow(c) ==
    /\ "amount" \in c.changes => ~charged
    /\ c.kind = "plan" => charged = c.paid

\* the amendment executed and the contract it replaces superseded
Amended(s) ==
    LET v == call[s].v IN
    [con EXCEPT ![v].status = "EXECUTED", ![v].signed = @ \cup {Role(s)},
                ![con[v].supersedes].status = "SUPERSEDED"]

CommitSign(s) ==
    /\ Under(s, "sign", "commit")
    /\ LET c == con[call[s].v] IN
       IF Unchanged(s) /\ ChargesAllow(c)
       THEN /\ con' = Amended(s)
            /\ booked' = [t \in Terms |-> IF t \in c.changes THEN c.terms[t] ELSE booked[t]]
            /\ Return(s)
            /\ UNCHANGED <<booking, charged>>
       ELSE Refused(s)

\* declineAmendment: either party, the proposer to withdraw it
BeginDecline(s, v) ==
    /\ s \in Vendors \cup {Customer} /\ call[s] = Idle
    /\ v \in PendingAmendments
    /\ RacingDeclines \/ ~Signing(v)
    /\ Start(s, "decline", "commit", v)
    /\ UNCHANGED <<booking, booked, charged, con>>

CommitDecline(s) ==
    /\ Under(s, "decline", "commit")
    /\ con' = [con EXCEPT ![call[s].v].status = "VOID"]
    /\ Return(s)
    /\ UNCHANGED <<booking, booked, charged>>
-----------------------------------------------------------------------------
(* The end of a request or a booking.                                       *)

\* cancelAs' claim
Cancel(s) ==
    /\ s \in Vendors \cup {Customer} /\ call[s] = Idle
    /\ booking \in {"PENDING", "CONFIRMED"}
    /\ booking' = "CANCELLED"
    /\ Start(s, "end", "find", 0)
    /\ UNCHANGED <<booked, charged, con>>

\* reject's claim
Reject(s) ==
    /\ s \in Vendors /\ call[s] = Idle
    /\ booking = "PENDING"
    /\ booking' = "REJECTED"
    /\ Start(s, "end", "find", 0)
    /\ UNCHANGED <<booked, charged, con>>

\* Mutant: requests waiting for the client are not looked for.
CandidatesAnswerable ==
    IF booking # "PENDING" THEN {}
    ELSE (IF AwaitingClient = {} /\ Suggested = {} THEN {0} ELSE {}) \cup Suggested

\* expireBatch's candidates, in its three kinds: with the vendor, with the
\* client, and with the customer (the suggestion's version)
Candidates ==
    IF booking # "PENDING" THEN {}
    ELSE (IF AwaitingClient = {} /\ Suggested = {} THEN {0} ELSE {})
         \cup (IF AwaitingClient # {} THEN {0} ELSE {})
         \cup Suggested

BeginExpire(s) ==
    /\ s = Job /\ call[s] = Idle
    /\ \E v \in Candidates : Start(s, "expire", "commit", v)
    /\ UNCHANGED <<booking, booked, charged, con>>

CommitExpire(s) ==
    /\ Under(s, "expire", "commit")
    /\ IF booking = "PENDING" /\ (call[s].v # 0 => con[call[s].v].status = "AWAITING_CUSTOMER")
       THEN /\ booking' = "REJECTED"
            /\ Start(s, "end", "find", 0)
            /\ UNCHANGED <<booked, charged, con>>
       ELSE Refused(s)

\* Mutant: only contracts with the vendor are voided.
VoidableWithVendor == {v \in Versions : con[v].status = "AWAITING_VENDOR"}

\* voidPendingForBooking: the contracts found pending, each voided in its own
\* transaction whatever it has become
Voidable == {v \in Versions : con[v].status \in Pending}

FindPending(s) ==
    /\ Under(s, "end", "find")
    /\ call' = [call EXCEPT ![s].at = "void", ![s].left = Voidable]
    /\ UNCHANGED <<booking, booked, charged, con>>

VoidOne(s) ==
    /\ Under(s, "end", "void")
    /\ IF call[s].left = {}
       THEN Refused(s)
       ELSE /\ \E v \in call[s].left :
                 /\ con' = [con EXCEPT ![v].status = "VOID"]
                 /\ call' = [call EXCEPT ![s].left = @ \ {v}]
            /\ UNCHANGED <<booking, booked, charged>>

\* confirm charges what is due now; the daily job later charges
ChargeStarts ==
    /\ booking = "CONFIRMED" /\ ~charged
    /\ charged' = TRUE
    /\ UNCHANGED <<booking, booked, con, call>>
-----------------------------------------------------------------------------
\* what a party or the job may begin
Begin(s) ==
    \/ BeginAccept(s) \/ BeginSuggest(s) \/ BeginApprove(s) \/ BeginAmend(s)
    \/ BeginPlan(s) \/ ClientSign(s) \/ CloseSuggestion(s) \/ Cancel(s) \/ Reject(s)
    \/ \E v \in Versions : BeginSign(s, v) \/ BeginDecline(s, v)

\* the next step of a call under way
Continue(s) ==
    \/ ReadToSign(s) \/ CommitAccept(s) \/ CommitSuggest(s) \/ CommitApprove(s)
    \/ CommitAmend(s) \/ CommitPlan(s) \/ CommitSign(s) \/ CommitDecline(s)
    \/ CommitExpire(s) \/ FindPending(s) \/ VoidOne(s)

Next == ChargeStarts \/ \E s \in Sessions : Begin(s) \/ BeginExpire(s) \/ Continue(s)

Spec == Init /\ [][Next]_vars

\* A call under way is carried on, and the hourly job comes by a request whose
\* time is up.  Nobody has to answer anything.
FairSpec ==
    /\ Spec
    /\ \A s \in Sessions : WF_vars(Continue(s))
    /\ WF_vars(BeginExpire(Job))
-----------------------------------------------------------------------------
Contract == [kind : {"request", "suggestion", "amendment", "plan"}, status : Statuses,
             supersedes : Nat, changes : SUBSET Terms, terms : [Terms -> Nat],
             paid : BOOLEAN, client : BOOLEAN, signed : SUBSET {"customer", "client", "vendor"}]

\* The rows are what the schema allows, a later version only replaces an
\* earlier one, and a call refers to a contract that exists.
TypeOK ==
    /\ booking \in {"PENDING", "CONFIRMED", "REJECTED", "CANCELLED"}
    /\ booked \in [Terms -> Versions] /\ charged \in BOOLEAN
    /\ Len(con) <= MaxVersions
    /\ \A v \in Versions : con[v] \in Contract /\ con[v].supersedes < v
    /\ \A s \in Sessions : /\ call[s].left \subseteq Versions
                           /\ call[s].draft = NoDraft => call[s].v \in Versions \cup {0}

\* The contract people signed says what the booking does.  A request has one
\* contract that can still be accepted and states the booking's terms; a
\* confirmed booking has exactly one contract in force and it states them
\* (Accept & Sign, approve and signAmendment each move both).
OneContractInForce ==
    /\ booking = "PENDING" =>
         /\ InForce = {}
         /\ \E v \in Acceptable \cup AwaitingClient : con[v].terms = booked
    /\ booking = "CONFIRMED" =>
         \E v \in Versions : InForce = {v} /\ con[v].terms = booked

\* Nothing comes into force that one of its parties never signed: the customer,
\* the vendor, and the client who was asked to co-sign the request, also when
\* the terms were changed and approved in between.
SignedByAll ==
    \A v \in InForce :
       /\ {"customer", "vendor"} \subseteq con[v].signed
       /\ con[v].client => "client" \in con[v].signed

\* What was voided or replaced stays so while the booking goes on: no late
\* signature brings it back.
AnsweredOnce ==
    [][booking' \in {"PENDING", "CONFIRMED"} =>
         \A v \in Versions : con[v].status \in {"VOID", "SUPERSEDED"} => con'[v].status = con[v].status]_vars

\* Once a charge was taken or started the booking's price is not amended, even
\* when it started after both parties' checks (assertPriceChangeable).
PaidPriceStays == [][charged => booked'["amount"] = booked["amount"]]_vars

\* Every request ends: answered, cancelled, or closed by the hourly job,
\* whoever of the three it was waiting for.
RequestEnds == <>(booking # "PENDING")

\* A request that ended unaccepted is left with nothing to sign, for good: what
\* was sent while it was being closed is voided too.
ClosedRequestIsQuiet ==
    []((booking \in {"REJECTED", "CANCELLED"} /\ InForce = {})
          => <>[](\A v \in Versions : con[v].status \notin Pending))

\* "Only a pending amendment can be declined or withdrawn."
\* (booking-contracts.service.ts:1602, declineAmendment)
OnlyPendingDeclined ==
    [][booking = "CONFIRMED" =>
         \A v \in Versions : con'[v].status = "VOID" => con[v].status \in Pending \cup {"VOID"}]_vars
=============================================================================
