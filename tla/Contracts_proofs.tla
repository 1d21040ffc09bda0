--------------------------- MODULE Contracts_proofs ---------------------------
(***************************************************************************)
(* One booking's contracts, for any number of versions and any amendments: *)
(* what is in force is signed by all, a charged price stays; and with one  *)
(* vendor session one contract is in force and answers stay answered.      *)
(***************************************************************************)
EXTENDS Contracts, FiniteSetTheorems, WellFoundedInduction, SequenceTheorems, TLAPS

Ops == {"idle", "accept", "approve", "suggest", "amend", "plan", "sign", "decline", "expire", "end"}
Ats == {"", "read", "commit", "find", "void"}
Drafting == {"suggest", "amend", "plan"}
Parties == {"customer", "client", "vendor"}
Calls == [op : Ops, at : Ats, v : Nat, seen : Statuses \cup {""},
          draft : Contract \cup {NoDraft}, left : SUBSET Nat]

Types ==
    /\ booking \in {"PENDING", "CONFIRMED", "REJECTED", "CANCELLED"}
    /\ booked \in [Terms -> Nat]
    /\ charged \in BOOLEAN
    /\ con \in Seq(Contract)
    /\ call \in [Sessions -> Calls]

\* Whoever had to sign before the vendor did.
Complete(c) == "customer" \in c.signed /\ (c.client => "client" \in c.signed)
Amends(c) == c.kind \in {"amendment", "plan"}

\* A version replaces an earlier one, which was complete, and its terms were
\* set by versions up to it.
BaseFits(c, v) ==
    /\ c.supersedes < v
    /\ c.kind # "request" => c.supersedes # 0
    /\ c.supersedes # 0 => Complete(con[c.supersedes])
    /\ \A t \in Terms : c.terms[t] \in 1..v

\* What a contract's status says of who signed it.
SignaturesFit(c) ==
    /\ Amends(c) => /\ ~c.client /\ c.signed # {} /\ c.signed \subseteq {"customer", "vendor"}
                    /\ c.status # "AWAITING_CLIENT"
    /\ ~Amends(c) /\ c.status = "AWAITING_CLIENT" => "customer" \in c.signed
    /\ ~Amends(c) /\ c.status \in {"AWAITING_VENDOR", "SUPERSEDED"} => Complete(c)
    /\ c.status = "EXECUTED" => Complete(c) /\ "vendor" \in c.signed

VersionFits(v) == BaseFits(con[v], v) /\ SignaturesFit(con[v])

\* What a call under way relies on, whatever the other sessions do meanwhile.
DraftFits(k) ==
    /\ k.v \in 1..(Len(con) + 1)
    /\ k.draft \in Contract
    /\ BaseFits(k.draft, k.v)
    /\ SignaturesFit(k.draft)
    /\ k.op = "suggest" => k.draft.kind = "suggestion" /\ k.draft.status = "AWAITING_CUSTOMER"
    /\ k.op # "suggest" => Amends(k.draft) /\ k.draft.status \in {"AWAITING_CUSTOMER", "AWAITING_VENDOR"}

CallFits(s) ==
    LET k == call[s] IN
    /\ k.op \notin Drafting => k.draft = NoDraft /\ k.v \in Versions \cup {0}
    /\ k.op = "accept" => s \in Vendors /\ k.v \in Versions /\ ~Amends(con[k.v]) /\ Complete(con[k.v])
    /\ k.op = "approve" => s = Customer /\ k.v \in Versions /\ con[k.v].kind = "suggestion"
    /\ k.op = "sign" => s \in Vendors \cup {Customer} /\ k.v \in Versions /\ Amends(con[k.v])
    /\ k.op = "decline" => s \in Vendors \cup {Customer} /\ k.v \in Versions /\ Amends(con[k.v])
    /\ k.op \in Drafting => DraftFits(k)
    /\ k.left \subseteq Versions

\* The inductive invariant that needs nothing of the sessions.
PaperInv ==
    /\ Types
    /\ Len(con) \in 1..MaxVersions
    /\ booked \in [Terms -> Versions]
    /\ \A v \in Versions : VersionFits(v)
    /\ \A s \in Sessions : CallFits(s)
    /\ charged => booking # "PENDING"
-----------------------------------------------------------------------------
(* The operators.                                                           *)

\* A nonempty set of versions has a latest one.
LEMMA LatestIsIn ==
    ASSUME NEW n \in Nat, NEW S, S \subseteq 1..n, S # {}
    PROVE  Latest(S) \in S /\ \A w \in S : w <= Latest(S)
<1> DEFINE Above(v) == {w \in S : v < w}
<1> DEFINE T == {Above(v) : v \in S}
<1>1. IsFiniteSet(S) /\ S \subseteq Nat
    <2>1. S \in SUBSET Nat /\ \A v \in S : v <= n
        OBVIOUS
    <2>2. QED BY <2>1, FS_BoundedSetOfNaturals
<1>2. IsWellFoundedOn(StrictSubsetOrdering(S), SUBSET S)
    BY <1>1, FS_StrictSubsetOrderingWellFounded, FS_FiniteSubsetsOfFinite
<1>3. T \subseteq SUBSET S /\ T # {}
    OBVIOUS
<1>4. PICK x \in T : \A y \in T : ~ (<<y, x>> \in StrictSubsetOrdering(S))
    BY <1>2, <1>3, WFMin
<1>5. PICK m \in S : x = Above(m)
    BY <1>4
<1>6. \A w \in S : w <= m
    <2> SUFFICES ASSUME NEW w \in S, m < w
                 PROVE  FALSE
        OBVIOUS
    <2>1. w \in Above(m) /\ w \notin Above(w)
        OBVIOUS
    <2>2. \A v \in S : w < v => m < v
        BY <1>1
    <2>3. <<Above(w), x>> \in StrictSubsetOrdering(S)
        BY <1>5, <2>1, <2>2 DEF StrictSubsetOrdering
    <2>4. QED BY <1>4, <2>3
<1>7. Latest(S) = CHOOSE v \in S : \A w \in S : w <= v
    BY DEF Latest
<1>8. QED BY <1>6, <1>7, Zenon

\* A contract given a status and more signatures.
Marked(c, st, p) == [c EXCEPT !.status = st, !.signed = @ \cup p]

\* A contract's later self: only its status changes, and signatures are added.
Evolves(c, d) ==
    /\ d.kind = c.kind /\ d.supersedes = c.supersedes /\ d.changes = c.changes
    /\ d.terms = c.terms /\ d.paid = c.paid /\ d.client = c.client
    /\ c.signed \subseteq d.signed

LEMMA MarkedRow ==
    ASSUME NEW c \in Contract, NEW st \in Statuses, NEW p \in SUBSET Parties
    PROVE  /\ Marked(c, st, p) \in Contract
           /\ Marked(c, st, p).status = st
           /\ Marked(c, st, p).signed = c.signed \cup p
           /\ Evolves(c, Marked(c, st, p))
<1>1. Marked(c, st, p) \in Contract
    BY DEF Marked, Contract, Parties
<1>2. Marked(c, st, p).status = st /\ Marked(c, st, p).signed = c.signed \cup p
    BY DEF Marked, Contract
<1>3. Evolves(c, Marked(c, st, p))
    BY DEF Marked, Contract, Evolves
<1>4. QED BY <1>1, <1>2, <1>3

LEMMA OnlyStatus ==
    ASSUME NEW c \in Contract, NEW st \in Statuses
    PROVE  /\ [c EXCEPT !.status = st] = Marked(c, st, {})
           /\ Marked(c, st, {}) \in Contract
           /\ Marked(c, st, {}).status = st
           /\ Marked(c, st, {}).signed = c.signed
           /\ Evolves(c, Marked(c, st, {}))
<1>1. PICK p \in SUBSET Parties : p = {}
    OBVIOUS
<1>2. [c EXCEPT !.status = st] = Marked(c, st, p)
    BY <1>1 DEF Marked, Contract
<1>3. Marked(c, st, p).signed = c.signed
    <2>1. Marked(c, st, p).signed = c.signed \cup p
        BY MarkedRow
    <2>2. QED BY <1>1, <2>1
<1>4. QED BY <1>1, <1>2, <1>3, MarkedRow

LEMMA OneRow ==
    ASSUME NEW t \in Seq(Contract), NEW v \in 1..Len(t), NEW x \in Contract
    PROVE  /\ [t EXCEPT ![v] = x] \in Seq(Contract)
           /\ Len([t EXCEPT ![v] = x]) = Len(t)
           /\ \A w \in 1..Len(t) : [t EXCEPT ![v] = x][w] = IF w = v THEN x ELSE t[w]
BY ExceptSeq

LEMMA TwoRows ==
    ASSUME NEW t \in Seq(Contract), NEW v \in 1..Len(t), NEW x \in Contract,
           NEW u \in 1..Len(t), NEW y \in Contract, u # v
    PROVE  LET q == [t EXCEPT ![v] = x, ![u] = y] IN
           /\ q \in Seq(Contract) /\ Len(q) = Len(t)
           /\ \A w \in 1..Len(t) : q[w] = IF w = v THEN x ELSE IF w = u THEN y ELSE t[w]
<1>1. [t EXCEPT ![v] = x, ![u] = y] = [[t EXCEPT ![v] = x] EXCEPT ![u] = y]
    OBVIOUS
<1>2. QED BY <1>1, OneRow

LEMMA VersionsAre ==
    ASSUME Types
    PROVE  Len(con) \in Nat /\ Versions = 1..Len(con) /\ \A v \in Versions : con[v] \in Contract
BY DEF Types, Versions

LEMMA SessionKinds ==
    /\ \A s \in Vendors : s \notin {"customer", "client", "job"} /\ Role(s) = "vendor"
    /\ Role(Customer) = "customer" /\ Role(Client) = "client" /\ Customer \notin Vendors
    /\ Vendors \subseteq Sessions /\ {Customer, Client, Job} \subseteq Sessions
    /\ MaxVersions \in Nat
BY ContractsAssumption DEF Role, Customer, Client, Job, Sessions

LEMMA IdleCall ==
    /\ Idle \in Calls
    /\ Idle.op = "idle" /\ Idle.at = "" /\ Idle.v = 0 /\ Idle.seen = "" /\ Idle.draft = NoDraft /\ Idle.left = {}
<1>1. Idle \in Calls
    BY DEF Idle, Calls, Ops, Ats
<1>2. QED BY <1>1 DEF Idle

LEMMA StartSays ==
    ASSUME Types, NEW s \in Sessions, NEW op \in Ops, NEW at \in Ats,
           NEW v \in Nat, Start(s, op, at, v)
    PROVE  /\ call' \in [Sessions -> Calls]
           /\ \A r \in Sessions \ {s} : call'[r] = call[r]
           /\ call'[s].op = op /\ call'[s].at = at /\ call'[s].v = v /\ call'[s].seen = ""
           /\ call'[s].draft = NoDraft /\ call'[s].left = {}
<1> DEFINE k == [Idle EXCEPT !.op = op, !.at = at, !.v = v]
<1>1. k.op = op /\ k.at = at /\ k.v = v /\ k.seen = "" /\ k.draft = NoDraft /\ k.left = {}
    BY DEF Idle
<1>2. k \in Calls
    BY IdleCall DEF Calls
<1>3. call' = [call EXCEPT ![s] = k]
    BY DEF Start
<1> HIDE DEF k
<1>4. QED BY <1>1, <1>2, <1>3 DEF Types

LEMMA StartDraftSays ==
    ASSUME Types, NEW s \in Sessions, NEW op \in Ops, NEW d \in Contract, StartDraft(s, op, d)
    PROVE  /\ call' \in [Sessions -> Calls]
           /\ \A r \in Sessions \ {s} : call'[r] = call[r]
           /\ call'[s].op = op /\ call'[s].at = "commit" /\ call'[s].v = Len(con) + 1 /\ call'[s].seen = ""
           /\ call'[s].draft = d /\ call'[s].left = {}
<1>1. PICK n \in Nat : n = Len(con) + 1
    BY DEF Types
<1> DEFINE k == [Idle EXCEPT !.op = op, !.at = "commit", !.v = n, !.draft = d]
<1>2. k.op = op /\ k.at = "commit" /\ k.v = n /\ k.seen = "" /\ k.draft = d /\ k.left = {}
    BY DEF Idle
<1>3. k \in Calls
    BY IdleCall DEF Calls, Ats
<1>4. call' = [call EXCEPT ![s] = k]
    BY <1>1 DEF StartDraft
<1> HIDE DEF k
<1>5. QED BY <1>1, <1>2, <1>3, <1>4 DEF Types

LEMMA ReturnSays ==
    ASSUME Types, NEW s \in Sessions, Return(s)
    PROVE  /\ call' \in [Sessions -> Calls]
           /\ \A r \in Sessions \ {s} : call'[r] = call[r]
           /\ call'[s] = Idle
BY IdleCall DEF Return, Types
-----------------------------------------------------------------------------
(* What the actions write.                                                  *)

MarkedAs(v, st, p) ==
    con'[v].status = st /\ con'[v].signed = con[v].signed \cup p /\ Evolves(con[v], con'[v])

\* One contract changes.
Marks(v, st, p) ==
    /\ con' \in Seq(Contract) /\ Len(con') = Len(con)
    /\ MarkedAs(v, st, p)
    /\ \A w \in Versions \ {v} : con'[w] = con[w]

\* One contract changes, and the one it replaces is superseded.
Replaces(v, st, p) ==
    LET u == con[v].supersedes IN
    /\ con' \in Seq(Contract) /\ Len(con') = Len(con)
    /\ u \in Versions /\ u < v
    /\ MarkedAs(v, st, p) /\ MarkedAs(u, "SUPERSEDED", {})
    /\ \A w \in Versions \ {u, v} : con'[w] = con[w]

\* Accept & Sign: the contract in force, and no suggestion left with the customer.
Accepts(v) ==
    /\ con' \in Seq(Contract) /\ Len(con') = Len(con)
    /\ MarkedAs(v, "EXECUTED", {"vendor"})
    /\ \A w \in Versions \ {v} :
         IF con[w].status = "AWAITING_CUSTOMER" /\ con[w].supersedes # 0
         THEN MarkedAs(w, "VOID", {})
         ELSE con'[w] = con[w]

\* A version is added.
Adds(d) ==
    /\ con' \in Seq(Contract) /\ Len(con') = Len(con) + 1
    /\ \A w \in Versions : con'[w] = con[w]
    /\ con'[Len(con) + 1] = d

LEMMA MarksOne ==
    ASSUME Types, NEW v \in Versions, NEW st \in Statuses, NEW p \in SUBSET Parties,
           con' = [con EXCEPT ![v] = Marked(con[v], st, p)]
    PROVE  Marks(v, st, p)
<1>1. con[v] \in Contract /\ v \in 1..Len(con)
    BY DEF Types, Versions
<1>2. PICK x \in Contract : x = Marked(con[v], st, p)
    BY <1>1, MarkedRow
<1>3. con' = [con EXCEPT ![v] = x]
    BY <1>2
<1>4. con' \in Seq(Contract) /\ Len(con') = Len(con) /\ con'[v] = x
      /\ \A w \in Versions \ {v} : con'[w] = con[w]
    BY <1>1, <1>3, OneRow DEF Types, Versions
<1>5. MarkedAs(v, st, p)
    BY <1>1, <1>2, <1>4, MarkedRow DEF MarkedAs
<1>6. QED BY <1>4, <1>5 DEF Marks

LEMMA MarksTwo ==
    ASSUME Types, NEW v \in Versions, NEW st \in Statuses, NEW p \in SUBSET Parties,
           con[v].supersedes < v, con[v].supersedes # 0,
           con' = [con EXCEPT ![v] = Marked(con[v], st, p),
                              ![con[v].supersedes] = Marked(con[con[v].supersedes], "SUPERSEDED", {})]
    PROVE  Replaces(v, st, p)
<1> DEFINE u == con[v].supersedes
<1>1. con[v] \in Contract /\ v \in 1..Len(con)
    BY DEF Types, Versions
<1>2. u \in 1..Len(con) /\ u # v /\ u < v
    BY <1>1 DEF Contract
<1>3. con[u] \in Contract
    BY <1>2 DEF Types
<1>4. PICK x \in Contract : x = Marked(con[v], st, p)
    BY <1>1, MarkedRow
<1>5. PICK y \in Contract : y = Marked(con[u], "SUPERSEDED", {})
    BY <1>3, OnlyStatus DEF Statuses
<1>6. con' = [con EXCEPT ![v] = x, ![u] = y]
    BY <1>4, <1>5
<1>7. con' \in Seq(Contract) /\ Len(con') = Len(con)
      /\ \A w \in 1..Len(con) : con'[w] = IF w = v THEN x ELSE IF w = u THEN y ELSE con[w]
    BY <1>1, <1>2, <1>6, TwoRows DEF Types
<1>8. MarkedAs(v, st, p)
    BY <1>1, <1>4, <1>7, MarkedRow DEF MarkedAs
<1>9. MarkedAs(u, "SUPERSEDED", {})
    <2>1. con'[u] = y
        BY <1>2, <1>7
    <2>2. QED BY <1>3, <1>5, <2>1, OnlyStatus DEF MarkedAs, Statuses
<1>10. QED BY <1>2, <1>7, <1>8, <1>9 DEF Replaces, Versions, Types

LEMMA AddsOne ==
    ASSUME Types, NEW d \in Contract, con' = Append(con, d)
    PROVE  Adds(d)
BY AppendProperties DEF Adds, Types, Versions

LEMMA ClientSignSays ==
    ASSUME Types, NEW s \in Sessions, ClientSign(s)
    PROVE  /\ s = Client
           /\ \E v \in AwaitingClient : Marks(v, "AWAITING_VENDOR", {"client"})
           /\ UNCHANGED <<booking, booked, charged, call>>
<1>1. PICK v \in AwaitingClient :
          con' = [con EXCEPT ![v].status = "AWAITING_VENDOR", ![v].signed = @ \cup {"client"}]
    BY DEF ClientSign
<1>2. con' = [con EXCEPT ![v] = Marked(con[v], "AWAITING_VENDOR", {"client"})]
    BY <1>1 DEF Marked, AwaitingClient, Versions, Types, Contract
<1>3. QED BY <1>2, MarksOne DEF ClientSign, AwaitingClient, Statuses, Pending, Parties

\* The voiding actions
LEMMA Voids ==
    ASSUME Types, NEW v \in Versions, con' = [con EXCEPT ![v].status = "VOID"]
    PROVE  Marks(v, "VOID", {})
<1>1. con[v] \in Contract /\ "VOID" \in Statuses
    BY DEF Types, Versions, Statuses
<1>2. con' = [con EXCEPT ![v] = [con[v] EXCEPT !.status = "VOID"]]
    OBVIOUS
<1>3. con' = [con EXCEPT ![v] = Marked(con[v], "VOID", {})]
    BY <1>1, <1>2, OnlyStatus
<1>4. QED BY <1>1, <1>3, MarksOne

LEMMA CommitAcceptSays ==
    ASSUME Types, NEW s \in Sessions, call[s].v \in Versions, CommitAccept(s)
    PROVE  /\ Return(s) /\ UNCHANGED <<booked, charged>>
           /\ \/ UNCHANGED <<booking, con>>
              \/ /\ Unchanged(s) /\ booking = "PENDING" /\ booking' = "CONFIRMED"
                 /\ Accepts(call[s].v)
<1> DEFINE v == call[s].v
<1> SUFFICES ASSUME Unchanged(s), booking = "PENDING", con' = Accepted(s)
             PROVE  Accepts(v)
    BY DEF CommitAccept, Refused
<1> USE DEF Versions
<1>1. \A w \in Versions : con[w] \in Contract
    BY DEF Types
<1>2. /\ con' = [w \in 1..Len(con) |-> con'[w]]
      /\ \A w \in Versions :
            con'[w] = IF w = v THEN Marked(con[w], "EXECUTED", {"vendor"})
                      ELSE IF con[w].status = "AWAITING_CUSTOMER" /\ con[w].supersedes # 0
                           THEN Marked(con[w], "VOID", {})
                           ELSE con[w]
    <2>1. \A w \in Versions : [con[w] EXCEPT !.status = "VOID"] = Marked(con[w], "VOID", {})
        BY <1>1, OnlyStatus DEF Statuses
    <2>2. DOMAIN con = 1..Len(con)
        BY DEF Types
    <2>3. con' = [w \in 1..Len(con) |-> con'[w]]
        BY <2>2 DEF Accepted
    <2>4. \A w \in Versions : con'[w] = IF w = v
             THEN [con[w] EXCEPT !.status = "EXECUTED", !.signed = @ \cup {"vendor"}]
             ELSE IF con[w].status = "AWAITING_CUSTOMER" /\ con[w].supersedes # 0
                  THEN [con[w] EXCEPT !.status = "VOID"]
                  ELSE con[w]
        BY <2>2 DEF Accepted
    <2>5. QED BY <2>1, <2>3, <2>4 DEF Marked
<1>3. \A w \in Versions : /\ Marked(con[w], "EXECUTED", {"vendor"}) \in Contract
                          /\ Marked(con[w], "VOID", {}) \in Contract
    BY <1>1, MarkedRow, OnlyStatus DEF Statuses, Parties
<1>4. con' \in [1..Len(con) -> Contract] /\ Len(con) \in Nat
    BY <1>1, <1>2, <1>3 DEF Types
<1>5. con' \in Seq(Contract) /\ Len(con') = Len(con)
    BY <1>4
<1>6. MarkedAs(v, "EXECUTED", {"vendor"})
    <2>1. con'[v] = Marked(con[v], "EXECUTED", {"vendor"})
        BY <1>2 DEF Types
    <2>2. QED BY <2>1, <1>1, MarkedRow DEF MarkedAs, Statuses, Parties
<1>7. ASSUME NEW w \in Versions \ {v}
      PROVE  IF con[w].status = "AWAITING_CUSTOMER" /\ con[w].supersedes # 0
             THEN MarkedAs(w, "VOID", {})
             ELSE con'[w] = con[w]
    <2>1. con'[w] = IF con[w].status = "AWAITING_CUSTOMER" /\ con[w].supersedes # 0
                    THEN Marked(con[w], "VOID", {}) ELSE con[w]
        BY <1>2, <1>7 DEF Types
    <2>2. QED BY <2>1, <1>1, OnlyStatus DEF MarkedAs, Statuses
<1>8. QED BY <1>5, <1>6, <1>7 DEF Accepts

LEMMA CommitApproveSays ==
    ASSUME Types, NEW s \in Sessions, CommitApprove(s),
           call[s].v \in Versions, con[call[s].v].supersedes < call[s].v, con[call[s].v].supersedes # 0
    PROVE  /\ Return(s) /\ UNCHANGED <<booking, charged>>
           /\ \/ UNCHANGED <<booked, con>>
              \/ /\ StillSuggested(s) /\ booked' = con[call[s].v].terms
                 /\ Replaces(call[s].v, NextSigner(con[call[s].v]), {"customer"})
<1> DEFINE v == call[s].v
<1> DEFINE u == con[v].supersedes
<1>1. con[v] \in Contract /\ v \in 1..Len(con)
    BY DEF Types, Versions
<1>2. u \in 1..Len(con) /\ u # v
    BY <1>1 DEF Contract
<1> SUFFICES ASSUME StillSuggested(s),
                    con' = [con EXCEPT ![v].status = NextSigner(con[v]),
                                       ![v].signed = @ \cup {"customer"},
                                       ![u].status = "SUPERSEDED"]
             PROVE  Replaces(v, NextSigner(con[v]), {"customer"})
    BY DEF CommitApprove, Refused
<1>3. con[u] \in Contract
    BY <1>2 DEF Types
<1>4. PICK st \in Statuses : st = NextSigner(con[v])
    BY DEF NextSigner, Statuses, Pending
<1>5. con' = [con EXCEPT ![v] = [con[v] EXCEPT !.status = st, !.signed = @ \cup {"customer"}],
                         ![u] = [con[u] EXCEPT !.status = "SUPERSEDED"]]
    BY <1>1, <1>2, <1>4 DEF Types
<1>6. con' = [con EXCEPT ![v] = Marked(con[v], st, {"customer"}),
                         ![u] = Marked(con[u], "SUPERSEDED", {})]
    BY <1>3, <1>5, OnlyStatus DEF Marked, Statuses
<1>7. QED BY <1>4, <1>6, MarksTwo DEF Parties

LEMMA CommitSignSays ==
    ASSUME Types, NEW s \in Sessions, CommitSign(s), Role(s) \in Parties,
           call[s].v \in Versions, con[call[s].v].supersedes < call[s].v, con[call[s].v].supersedes # 0
    PROVE  LET v == call[s].v IN
           /\ Return(s) /\ UNCHANGED <<booking, charged>>
           /\ \/ UNCHANGED <<booked, con>>
              \/ /\ Unchanged(s) /\ ChargesAllow(con[v])
                 /\ booked' = [t \in Terms |-> IF t \in con[v].changes THEN con[v].terms[t] ELSE booked[t]]
                 /\ Replaces(v, "EXECUTED", {Role(s)})
<1> DEFINE v == call[s].v
<1> DEFINE u == con[v].supersedes
<1>1. con[v] \in Contract /\ v \in 1..Len(con)
    BY DEF Types, Versions
<1>2. u \in 1..Len(con) /\ u # v
    BY <1>1 DEF Contract
<1> SUFFICES ASSUME Unchanged(s), ChargesAllow(con[v]), con' = Amended(s)
             PROVE  Replaces(v, "EXECUTED", {Role(s)})
    BY DEF CommitSign, Refused
<1>3. con[u] \in Contract
    BY <1>2 DEF Types
<1>5. con' = [con EXCEPT ![v] = [con[v] EXCEPT !.status = "EXECUTED", !.signed = @ \cup {Role(s)}],
                         ![u] = [con[u] EXCEPT !.status = "SUPERSEDED"]]
    BY <1>1, <1>2 DEF Types, Amended
<1>6. con' = [con EXCEPT ![v] = Marked(con[v], "EXECUTED", {Role(s)}),
                         ![u] = Marked(con[u], "SUPERSEDED", {})]
    BY <1>3, <1>5, OnlyStatus DEF Marked, Statuses
<1>7. QED BY <1>6, MarksTwo DEF Statuses
-----------------------------------------------------------------------------
(* What survives a step.                                                    *)

\* No version disappears or changes but in its status and its signatures.
Grown ==
    /\ con' \in Seq(Contract) /\ Len(con) <= Len(con')
    /\ \A v \in Versions : v \in Versions' /\ Evolves(con[v], con'[v])

LEMMA EvolvesSelf == \A c : Evolves(c, c)
BY DEF Evolves

LEMMA GrownBy ==
    ASSUME Types
    PROVE  /\ con' = con => Grown
           /\ \A v \in Versions : \A st, p : Marks(v, st, p) \/ Replaces(v, st, p) => Grown
           /\ \A v \in Versions : Accepts(v) => Grown
           /\ \A d : Adds(d) => Grown
<1> USE EvolvesSelf DEF Versions, MarkedAs
<1>0. Len(con) \in Nat /\ DOMAIN con = 1..Len(con)
    BY DEF Types
<1>1. con' = con => Grown
    BY <1>0 DEF Grown, Types
<1>2. ASSUME NEW v \in Versions, NEW st, NEW p, Marks(v, st, p)
      PROVE  Grown
    BY <1>0, <1>2 DEF Marks, Grown
<1>3. ASSUME NEW v \in Versions, NEW st, NEW p, Replaces(v, st, p)
      PROVE  Grown
    BY <1>0, <1>3 DEF Replaces, Grown
<1>4. ASSUME NEW v \in Versions, Accepts(v)
      PROVE  Grown
    BY <1>0, <1>4 DEF Accepts, Grown
<1>5. ASSUME NEW d, Adds(d)
      PROVE  Grown
    BY <1>0, <1>5 DEF Adds, Grown
<1>6. QED BY <1>1, <1>2, <1>3, <1>4, <1>5

LEMMA BaseStays ==
    ASSUME Types, Grown, NEW c \in Contract, NEW v \in 1..(Len(con) + 1), BaseFits(c, v)
    PROVE  BaseFits(c, v)'
<1>1. c.supersedes # 0 => c.supersedes \in Versions
    BY DEF Types, BaseFits, Contract, Versions
<1>2. c.supersedes # 0 => Complete(con'[c.supersedes])
    BY <1>1 DEF BaseFits, Complete, Grown, Evolves
<1>3. QED BY <1>2 DEF BaseFits

LEMMA VersionStays ==
    ASSUME Types, Grown, NEW v \in Versions, VersionFits(v), SignaturesFit(con'[v])
    PROVE  VersionFits(v)'
<1>1. con[v] \in Contract /\ v \in 1..(Len(con) + 1)
    BY DEF Types, Versions
<1>2. PICK c \in Contract : c = con[v]
    BY <1>1
<1>3. BaseFits(c, v)'
    BY <1>1, <1>2, BaseStays DEF VersionFits
<1>4. Evolves(c, con'[v])
    BY <1>2 DEF Grown
<1>5. BaseFits(con[v], v)'
    BY <1>3, <1>4 DEF BaseFits, Evolves
<1>6. QED BY <1>5 DEF VersionFits

LEMMA CallStays ==
    ASSUME Types, Grown, NEW s \in Sessions, CallFits(s), call'[s] = call[s]
    PROVE  CallFits(s)'
<1>1. call[s] \in Calls
    BY DEF Types
<1>2. \A v \in Versions : /\ v \in Versions'
                          /\ Amends(con'[v]) <=> Amends(con[v])
                          /\ con'[v].kind = con[v].kind
                          /\ Complete(con[v]) => Complete(con'[v])
    BY DEF Grown, Evolves, Amends, Complete
<1>3. call[s].op \in Drafting => DraftFits(call[s])'
    <2> SUFFICES ASSUME call[s].op \in Drafting
                 PROVE  DraftFits(call[s])'
        OBVIOUS
    <2>1. DraftFits(call[s])
        BY DEF CallFits
    <2>2. PICK k \in Calls : k = call[s]
        BY <1>1
    <2>3. BaseFits(k.draft, k.v)'
        BY <2>1, <2>2, BaseStays DEF DraftFits
    <2>4. k.v \in 1..(Len(con') + 1)
        BY <2>1, <2>2 DEF DraftFits, Grown, Types
    <2>5. DraftFits(k)'
        BY <2>1, <2>2, <2>3, <2>4 DEF DraftFits
    <2>6. QED BY <2>2, <2>5
<1>4. QED BY <1>2, <1>3 DEF CallFits

LEMMA IdleFits ==
    ASSUME NEW s \in Sessions, call'[s] = Idle
    PROVE  CallFits(s)'
<1>1. call'[s].op = "idle" /\ call'[s].draft = NoDraft /\ call'[s].v = 0 /\ call'[s].left = {}
    BY IdleCall
<1>2. QED BY <1>1 DEF CallFits, Drafting

\* A step that leaves the contracts alone.
LEMMA Quiet ==
    ASSUME PaperInv, NEW s \in Sessions, UNCHANGED <<booked, charged, con>>,
           booking' \in {"PENDING", "CONFIRMED", "REJECTED", "CANCELLED"},
           booking' = "PENDING" => booking = "PENDING",
           call' \in [Sessions -> Calls], \A r \in Sessions \ {s} : call'[r] = call[r], CallFits(s)'
    PROVE  PaperInv'
<1>1. Types /\ Types'
    BY DEF PaperInv, Types
<1>2. Grown
    BY <1>1, GrownBy
<1>3. \A r \in Sessions : CallFits(r)'
    BY <1>1, <1>2, CallStays DEF PaperInv
<1>4. \A v \in Versions : VersionFits(v)'
    BY <1>1, <1>2, VersionStays DEF PaperInv, VersionFits
<1>5. QED BY <1>1, <1>3, <1>4 DEF PaperInv, Versions

\* A step that writes contracts for a session.
LEMMA Writes ==
    ASSUME PaperInv, NEW s \in Sessions, Grown, charged' = charged,
           booking' \in {"PENDING", "CONFIRMED", "REJECTED", "CANCELLED"},
           booking' = "PENDING" => booking = "PENDING",
           call' \in [Sessions -> Calls], \A r \in Sessions \ {s} : call'[r] = call[r], CallFits(s)',
           Len(con') <= MaxVersions, booked' \in [Terms -> Versions'],
           \A v \in Versions' : VersionFits(v)'
    PROVE  PaperInv'
<1>0. Versions' \subseteq Nat /\ Len(con) \in Nat /\ Len(con') \in Nat /\ MaxVersions \in Nat
    BY SessionKinds DEF PaperInv, Types, Grown, Versions
<1>1. Types /\ Types'
    BY <1>0 DEF PaperInv, Types, Grown
<1>3. \A r \in Sessions : CallFits(r)'
    BY <1>1, CallStays DEF PaperInv
<1>4. Len(con') \in 1..MaxVersions
    BY <1>0 DEF PaperInv, Grown
<1>5. QED BY <1>1, <1>3, <1>4 DEF PaperInv

LEMMA PaperInit == Init => PaperInv
<1> SUFFICES ASSUME Init
             PROVE  PaperInv
    OBVIOUS
<1> DEFINE row(b) == [kind |-> "request",
                  status |-> IF b THEN "AWAITING_CLIENT" ELSE "AWAITING_VENDOR",
                  supersedes |-> 0, changes |-> Terms, terms |-> booked, paid |-> FALSE,
                  client |-> b, signed |-> {"customer"}]
<1>1. PICK client \in BOOLEAN : con = <<row(client)>>
    BY DEF Init
<1>2. PICK st \in {"AWAITING_CLIENT", "AWAITING_VENDOR"} :
         st = (IF client THEN "AWAITING_CLIENT" ELSE "AWAITING_VENDOR")
         /\ (client => st = "AWAITING_CLIENT")
    OBVIOUS
<1>3. booked \in [Terms -> 1..1] /\ booked \in [Terms -> Nat]
    BY DEF Init
<1>4. PICK c : c = row(client)
    OBVIOUS
<1>5. c = [kind |-> "request", status |-> st, supersedes |-> 0, changes |-> Terms, terms |-> booked,
           paid |-> FALSE, client |-> client, signed |-> {"customer"}]
    BY <1>2, <1>4
<1>6. c \in Contract
    BY <1>3, <1>5 DEF Contract, Statuses, Pending
<1> HIDE DEF row
<1>7. con = <<c>>
    BY <1>1, <1>4
<1>8. con \in Seq(Contract) /\ Len(con) = 1 /\ con[1] = c /\ Versions = {1}
    BY <1>6, <1>7 DEF Versions
<1>9. c.kind = "request" /\ c.status = st /\ c.supersedes = 0 /\ c.terms = booked /\ c.client = client
      /\ c.signed = {"customer"}
    BY <1>5
<1>10. VersionFits(1)
    <2>1. BaseFits(c, 1)
        BY <1>3, <1>9 DEF BaseFits
    <2>2. SignaturesFit(c)
        BY <1>2, <1>9 DEF SignaturesFit, Complete, Amends
    <2>3. QED BY <1>8, <2>1, <2>2 DEF VersionFits
<1>11. call \in [Sessions -> Calls] /\ \A s \in Sessions : call[s] = Idle
    BY IdleCall DEF Init
<1>12. \A s \in Sessions : CallFits(s)
    BY <1>11, IdleCall DEF CallFits, Drafting
<1>13. Types
    BY <1>3, <1>8, <1>11 DEF Types, Init
<1>14. booked \in [Terms -> Versions]
    BY <1>3, <1>8
<1>15. MaxVersions \in Nat \ {0}
    BY ContractsAssumption
<1>16. QED BY <1>8, <1>10, <1>12, <1>13, <1>14, <1>15 DEF PaperInv, Init
-----------------------------------------------------------------------------
(* The calls begin.                                                         *)

\* A call that carries no draft.
PlainFits(s, op, v) ==
    /\ op \notin Drafting /\ v \in Versions \cup {0}
    /\ op = "accept" => s \in Vendors /\ v \in Versions /\ ~Amends(con[v]) /\ Complete(con[v])
    /\ op = "approve" => s = Customer /\ v \in Versions /\ con[v].kind = "suggestion"
    /\ op = "sign" => s \in Vendors \cup {Customer} /\ v \in Versions /\ Amends(con[v])
    /\ op = "decline" => s \in Vendors \cup {Customer} /\ v \in Versions /\ Amends(con[v])

LEMMA StartsPlain ==
    ASSUME PaperInv, NEW s \in Sessions, NEW op \in Ops,
           NEW at \in Ats,
           NEW v \in Nat, Start(s, op, at, v), UNCHANGED <<booked, charged, con>>,
           booking' \in {"PENDING", "CONFIRMED", "REJECTED", "CANCELLED"},
           booking' = "PENDING" => booking = "PENDING",
           PlainFits(s, op, v)
    PROVE  PaperInv'
<1>1. Types
    BY DEF PaperInv
<1>2. /\ call' \in [Sessions -> Calls] /\ \A r \in Sessions \ {s} : call'[r] = call[r]
      /\ call'[s].op = op /\ call'[s].v = v /\ call'[s].draft = NoDraft /\ call'[s].left = {}
    BY <1>1, StartSays
<1>3. Versions' = Versions
    BY DEF Versions
<1>4. CallFits(s)'
    BY <1>2, <1>3 DEF CallFits, Amends, Complete, PlainFits
<1>5. QED BY <1>2, <1>4, Quiet

LEMMA StepBeginAccept ==
    ASSUME PaperInv, NEW s \in Sessions, BeginAccept(s)
    PROVE  /\ PaperInv'
           /\ Latest(Acceptable) \in Acceptable
<1>1. Len(con) \in Nat /\ Versions = 1..Len(con)
    BY DEF PaperInv, Types, Versions
<1>2. Acceptable \subseteq 1..Len(con) /\ Acceptable # {}
    BY <1>1 DEF Acceptable, BeginAccept
<1>3. PICK v \in Acceptable : v = Latest(Acceptable)
    BY <1>1, <1>2, LatestIsIn
<1>4. v \in Versions /\ con[v].status = "AWAITING_VENDOR" /\ ~Amends(con[v])
    BY <1>3 DEF Acceptable, IsAmendment, Amends
<1>5. Complete(con[v])
    BY <1>4 DEF PaperInv, VersionFits, SignaturesFit
<1>6. s \in Vendors /\ Start(s, "accept", "read", v) /\ UNCHANGED <<booking, booked, charged, con>>
    BY <1>3 DEF BeginAccept
<1>7. booking \in {"PENDING", "CONFIRMED", "REJECTED", "CANCELLED"}
    BY DEF PaperInv, Types
<1>8. PlainFits(s, "accept", v) /\ v \in Nat /\ "accept" \in Ops /\ "read" \in Ats
    BY <1>1, <1>4, <1>5, <1>6 DEF PlainFits, Drafting, Ops, Ats
<1>10. PaperInv'
    BY <1>6, <1>7, <1>8, StartsPlain
<1>11. QED BY <1>3, <1>10

LEMMA StepBeginApprove ==
    ASSUME PaperInv, NEW s \in Sessions, BeginApprove(s)
    PROVE  /\ PaperInv'
           /\ Latest(Suggested) \in Suggested
<1>1. Len(con) \in Nat /\ Versions = 1..Len(con)
    BY DEF PaperInv, Types, Versions
<1>2. Suggested \subseteq 1..Len(con) /\ Suggested # {}
    BY <1>1 DEF Suggested, BeginApprove
<1>3. PICK v \in Suggested : v = Latest(Suggested)
    BY <1>1, <1>2, LatestIsIn
<1>4. v \in Versions /\ con[v].kind = "suggestion"
    BY <1>3 DEF Suggested
<1>5. s = Customer /\ Start(s, "approve", "commit", v) /\ UNCHANGED <<booking, booked, charged, con>>
    BY <1>3 DEF BeginApprove
<1>6. booking \in {"PENDING", "CONFIRMED", "REJECTED", "CANCELLED"}
    BY DEF PaperInv, Types
<1>7. PlainFits(s, "approve", v) /\ v \in Nat /\ "approve" \in Ops /\ "commit" \in Ats
    BY <1>1, <1>4, <1>5 DEF PlainFits, Drafting, Ops, Ats
<1>8. PaperInv'
    BY <1>5, <1>6, <1>7, StartsPlain
<1>9. QED BY <1>3, <1>8

LEMMA StepBeginSign ==
    ASSUME PaperInv, NEW s \in Sessions, NEW v \in Versions, BeginSign(s, v) \/ BeginDecline(s, v)
    PROVE  PaperInv'
<1>1. booking \in {"PENDING", "CONFIRMED", "REJECTED", "CANCELLED"}
    BY DEF PaperInv, Types
<1>0. v \in Nat
    BY VersionsAre DEF PaperInv
<1>2. CASE BeginSign(s, v)
    <2>1. s \in Vendors \cup {Customer} /\ Start(s, "sign", "read", v) /\ Amends(con[v])
          /\ UNCHANGED <<booking, booked, charged, con>>
        BY <1>2 DEF BeginSign, IsAmendment, Amends
    <2>2. PlainFits(s, "sign", v) /\ "sign" \in Ops /\ "read" \in Ats
        BY <2>1 DEF PlainFits, Drafting, Ops, Ats
    <2>3. QED BY <1>0, <1>1, <2>1, <2>2, StartsPlain
<1>3. CASE BeginDecline(s, v)
    <2>1. s \in Vendors \cup {Customer} /\ Start(s, "decline", "commit", v) /\ Amends(con[v])
          /\ UNCHANGED <<booking, booked, charged, con>>
        BY <1>3 DEF BeginDecline, PendingAmendments, IsAmendment, Amends
    <2>2. PlainFits(s, "decline", v) /\ "decline" \in Ops /\ "commit" \in Ats
        BY <2>1 DEF PlainFits, Drafting, Ops, Ats
    <2>3. QED BY <1>0, <1>1, <2>1, <2>2, StartsPlain
<1>4. QED BY <1>2, <1>3

\* The calls that end a request or a booking
LEMMA StepEnds ==
    ASSUME PaperInv, NEW s \in Sessions,
           Cancel(s) \/ Reject(s) \/ (CommitExpire(s) /\ ~Refused(s))
    PROVE  /\ PaperInv'
           /\ booking' \in {"REJECTED", "CANCELLED"}
<1>1. Start(s, "end", "find", 0) /\ booking' \in {"REJECTED", "CANCELLED"} /\ UNCHANGED <<booked, charged, con>>
    BY DEF Cancel, Reject, CommitExpire
<1>2. PlainFits(s, "end", 0) /\ "end" \in Ops /\ "find" \in Ats
    BY DEF PlainFits, Drafting, Ops, Ats
<1>3. QED BY <1>1, <1>2, StartsPlain

LEMMA StepBeginExpire ==
    ASSUME PaperInv, NEW s \in Sessions, BeginExpire(s)
    PROVE  PaperInv'
<1>1. PICK v \in Candidates : Start(s, "expire", "commit", v)
    BY DEF BeginExpire
<1>2. v \in Versions \cup {0} /\ v \in Nat
    BY VersionsAre DEF Candidates, Suggested, PaperInv
<1>3. booking' \in {"PENDING", "CONFIRMED", "REJECTED", "CANCELLED"} /\ UNCHANGED <<booking, booked, charged, con>>
    BY DEF PaperInv, Types, BeginExpire
<1>4. PlainFits(s, "expire", v) /\ "expire" \in Ops /\ "commit" \in Ats
    BY <1>2 DEF PlainFits, Drafting, Ops, Ats
<1>5. QED BY <1>1, <1>2, <1>3, <1>4, StartsPlain

LEMMA StepRefused ==
    ASSUME PaperInv, NEW s \in Sessions, Refused(s)
    PROVE  PaperInv'
<1>1. Return(s) /\ UNCHANGED <<booking, booked, charged, con>> /\ Types
    BY DEF Refused, PaperInv
<1>2. QED BY <1>1, ReturnSays, IdleFits, Quiet DEF Types

\* execute's read, and the search for what is left to void
LEMMA StepReadToSign ==
    ASSUME PaperInv, NEW s \in Sessions, ReadToSign(s)
    PROVE  /\ PaperInv'
           /\ \A r \in Sessions \ {s} : call'[r] = call[r]
           /\ call'[s].op = call[s].op /\ call'[s].v = call[s].v /\ call'[s].draft = call[s].draft
           /\ call'[s].at = "commit" /\ call'[s].seen = con[call[s].v].status
<1>1. Types /\ call[s] \in Calls /\ CallFits(s)
    BY DEF PaperInv, Types
<1>2. call[s].v \in Versions
    BY <1>1 DEF CallFits, ReadToSign
<1>3. con[call[s].v] \in Contract
    BY <1>1, <1>2, VersionsAre
<1>4. PICK seen \in Statuses : seen = con[call[s].v].status
    BY <1>3 DEF Contract
<1>5. PICK c \in Calls : c = call[s]
    BY <1>1
<1> DEFINE k == [c EXCEPT !.at = "commit", !.seen = seen]
<1>6. k \in Calls /\ k.op = c.op /\ k.v = c.v /\ k.draft = c.draft /\ k.left = c.left /\ k.at = "commit" /\ k.seen = seen
    BY DEF Calls, Ats
<1>7. call' = [call EXCEPT ![s] = k]
    BY <1>1, <1>4, <1>5 DEF ReadToSign, Types
<1> HIDE DEF k
<1>8. call' \in [Sessions -> Calls] /\ call'[s] = k /\ \A r \in Sessions \ {s} : call'[r] = call[r]
    BY <1>1, <1>6, <1>7 DEF Types
<1>9. UNCHANGED <<booking, booked, charged, con>>
    BY DEF ReadToSign
<1>10. call[s].op \notin Drafting
    BY DEF ReadToSign, Drafting
<1>11. CallFits(s)'
    BY <1>1, <1>5, <1>6, <1>8, <1>9, <1>10 DEF CallFits, Versions, Amends, Complete
<1>12. PaperInv'
    BY <1>1, <1>8, <1>9, <1>11, Quiet DEF Types
<1>13. QED BY <1>4, <1>5, <1>6, <1>8, <1>12

LEMMA LeftChanges ==
    ASSUME PaperInv, NEW s \in Sessions, NEW at \in Ats, NEW left \in SUBSET Versions,
           call[s].op \notin Drafting, Grown,
           call' = [call EXCEPT ![s] = [call[s] EXCEPT !.at = at, !.left = left]]
    PROVE  /\ call' \in [Sessions -> Calls]
           /\ \A r \in Sessions \ {s} : call'[r] = call[r]
           /\ call'[s].op = call[s].op /\ call'[s].v = call[s].v /\ call'[s].draft = call[s].draft
           /\ call'[s].left = left
           /\ CallFits(s)'
<1>1. Types /\ call[s] \in Calls /\ CallFits(s)
    BY DEF PaperInv, Types
<1>2. left \in SUBSET Nat
    BY <1>1, VersionsAre
<1>3. PICK c \in Calls : c = call[s]
    BY <1>1
<1> DEFINE k == [c EXCEPT !.at = at, !.left = left]
<1>4. k \in Calls /\ k.op = c.op /\ k.v = c.v /\ k.draft = c.draft /\ k.left = left
    BY <1>2 DEF Calls
<1>5. call' = [call EXCEPT ![s] = k]
    BY <1>3
<1> HIDE DEF k
<1>6. call' \in [Sessions -> Calls] /\ call'[s] = k /\ \A r \in Sessions \ {s} : call'[r] = call[r]
    BY <1>1, <1>4, <1>5 DEF Types
<1>7. \A v \in Versions : /\ v \in Versions'
                          /\ Amends(con'[v]) <=> Amends(con[v])
                          /\ con'[v].kind = con[v].kind
                          /\ Complete(con[v]) => Complete(con'[v])
    BY DEF Grown, Evolves, Amends, Complete
<1>8. CallFits(s)'
    BY <1>1, <1>3, <1>4, <1>6, <1>7 DEF CallFits
<1>9. QED BY <1>3, <1>4, <1>6, <1>8

LEMMA StepFindPending ==
    ASSUME PaperInv, NEW s \in Sessions, FindPending(s)
    PROVE  PaperInv'
<1>1. Types /\ UNCHANGED <<booking, booked, charged, con>>
    BY DEF PaperInv, FindPending
<1>2. Grown
    BY <1>1, GrownBy
<1>3. Voidable \in SUBSET Versions /\ "void" \in Ats /\ call[s].op \notin Drafting
    BY DEF Voidable, Ats, FindPending, Under, Drafting
<1>4. call' = [call EXCEPT ![s] = [call[s] EXCEPT !.at = "void", !.left = Voidable]]
    BY <1>1 DEF FindPending, Types
<1>5. QED BY <1>1, <1>2, <1>3, <1>4, LeftChanges, Quiet DEF Types

\* A draft is of a version to come, and replaces one that is complete.
LEMMA SuggestionFits ==
    ASSUME PaperInv, NEW base \in Versions, Complete(con[base])
    PROVE  LET d == Suggestion(base) IN
           /\ d \in Contract /\ BaseFits(d, Len(con) + 1) /\ SignaturesFit(d)
           /\ d.kind = "suggestion" /\ d.status = "AWAITING_CUSTOMER" /\ d.supersedes = base
<1>1. Types
    BY DEF PaperInv
<1>2. base \in Nat /\ base < Len(con) + 1 /\ base # 0 /\ con[base] \in Contract
    BY <1>1, VersionsAre
<1>3. PICK n \in Nat : n = Len(con) + 1
    BY <1>1, VersionsAre
<1>4. PICK b \in BOOLEAN : b = con[base].client
    BY <1>2 DEF Contract
<1> DEFINE d == [kind |-> "suggestion", status |-> "AWAITING_CUSTOMER", supersedes |-> base,
                 changes |-> Terms, terms |-> [t \in Terms |-> n], paid |-> FALSE,
                 client |-> b, signed |-> {}]
<1>5. d = Suggestion(base)
    BY <1>3, <1>4 DEF Suggestion
<1>6. d \in Contract
    BY <1>2 DEF Contract, Statuses, Pending
<1>7. BaseFits(d, n)
    BY <1>2, <1>3 DEF BaseFits
<1>8. SignaturesFit(d)
    BY DEF SignaturesFit, Amends
<1>9. d.kind = "suggestion" /\ d.status = "AWAITING_CUSTOMER" /\ d.supersedes = base
    OBVIOUS
<1> HIDE DEF d
<1>10. QED BY <1>3, <1>5, <1>6, <1>7, <1>8, <1>9

LEMMA DraftSays ==
    ASSUME PaperInv, NEW s \in Vendors \cup {Customer}, NEW kind \in {"amendment", "plan"},
           NEW fields \in SUBSET Terms, InForce # {}
    PROVE  LET d == Draft(s, kind, fields) IN
           /\ d \in Contract /\ BaseFits(d, Len(con) + 1) /\ SignaturesFit(d)
           /\ d.kind = kind /\ d.status \in {"AWAITING_CUSTOMER", "AWAITING_VENDOR"}
           /\ d.supersedes = Latest(InForce) /\ Latest(InForce) \in InForce
           /\ d.changes = fields
           /\ \A t \in Terms : t \notin fields => d.terms[t] = booked[t]
<1>1. Types
    BY DEF PaperInv
<1>2. InForce \subseteq 1..Len(con) /\ Len(con) \in Nat /\ Versions = 1..Len(con)
    BY <1>1, VersionsAre DEF InForce
<1>3. PICK base \in InForce : base = Latest(InForce)
    BY <1>2, LatestIsIn
<1>4. base \in Nat /\ base < Len(con) + 1 /\ base # 0 /\ base \in Versions
    BY <1>2
<1>5. Complete(con[base])
    BY <1>3, <1>4 DEF InForce, PaperInv, VersionFits, SignaturesFit
<1>6. PICK n \in Nat : n = Len(con) + 1
    BY <1>2
<1>7. PICK st \in {"AWAITING_CUSTOMER", "AWAITING_VENDOR"} :
          st = (IF s = Customer THEN "AWAITING_VENDOR" ELSE "AWAITING_CUSTOMER")
    OBVIOUS
<1>8. PICK terms : terms = [t \in Terms |-> IF t \in fields THEN n ELSE booked[t]]
    OBVIOUS
<1>9. PICK role \in {"customer", "vendor"} : role = Role(s)
    BY SessionKinds
<1>10. terms \in [Terms -> 1..n] /\ \A t \in Terms : t \notin fields => terms[t] = booked[t]
    BY <1>2, <1>6, <1>8 DEF PaperInv
<1> DEFINE d == [kind |-> kind, status |-> st, supersedes |-> base, changes |-> fields, terms |-> terms,
                 paid |-> charged, client |-> FALSE, signed |-> {role}]
<1>11. d = Draft(s, kind, fields)
    BY <1>3, <1>6, <1>7, <1>8, <1>9 DEF Draft
<1>12. terms \in [Terms -> Nat] /\ charged \in BOOLEAN /\ kind \in {"request", "suggestion", "amendment", "plan"}
      /\ st \in Statuses /\ {role} \in SUBSET {"customer", "client", "vendor"}
    BY <1>1, <1>6, <1>10 DEF Types, Statuses, Pending
<1>13. d \in Contract
    BY <1>4, <1>12 DEF Contract
<1>14. BaseFits(d, n)
    BY <1>4, <1>5, <1>6, <1>10 DEF BaseFits
<1>15. SignaturesFit(d)
    BY DEF SignaturesFit, Amends, Complete
<1>16. d.kind = kind /\ d.status = st /\ d.supersedes = base /\ d.changes = fields /\ d.terms = terms
    OBVIOUS
<1> HIDE DEF d
<1>17. QED BY <1>3, <1>6, <1>10, <1>11, <1>13, <1>14, <1>15, <1>16

LEMMA StartsDraft ==
    ASSUME PaperInv, NEW s \in Sessions, NEW op \in Drafting, NEW d \in Contract,
           StartDraft(s, op, d), UNCHANGED <<booking, booked, charged, con>>,
           BaseFits(d, Len(con) + 1), SignaturesFit(d),
           op = "suggest" => d.kind = "suggestion" /\ d.status = "AWAITING_CUSTOMER",
           op # "suggest" => Amends(d) /\ d.status \in {"AWAITING_CUSTOMER", "AWAITING_VENDOR"}
    PROVE  PaperInv'
<1>1. Types /\ op \in Ops
    BY DEF PaperInv, Drafting, Ops
<1>2. PICK n \in Nat : n = Len(con) + 1
    BY <1>1, VersionsAre
<1>3. /\ call' \in [Sessions -> Calls] /\ \A r \in Sessions \ {s} : call'[r] = call[r]
      /\ call'[s].op = op /\ call'[s].v = n /\ call'[s].draft = d /\ call'[s].left = {}
    BY <1>1, <1>2, StartDraftSays
<1>4. n \in 1..(Len(con') + 1) /\ Len(con') = Len(con)
    BY <1>1, <1>2, VersionsAre
<1>5. BaseFits(d, n)'
    BY <1>2 DEF BaseFits, Complete
<1>6. DraftFits(call[s])'
    <2>1. PICK k : k = call'[s]
        OBVIOUS
    <2>2. k.op = op /\ k.v = n /\ k.draft = d
        BY <1>3, <2>1
    <2>3. DraftFits(k)'
        BY <1>4, <1>5, <2>2 DEF DraftFits, Amends, SignaturesFit, Complete
    <2>4. QED BY <2>1, <2>3
<1>7. CallFits(s)'
    BY <1>3, <1>6 DEF CallFits, Drafting
<1>8. QED BY <1>1, <1>3, <1>7, Quiet DEF Types

LEMMA StepBeginSuggest ==
    ASSUME PaperInv, NEW s \in Sessions, BeginSuggest(s)
    PROVE  PaperInv'
<1>1. Acceptable \subseteq 1..Len(con) /\ Acceptable # {} /\ Len(con) \in Nat
    BY VersionsAre DEF Acceptable, BeginSuggest, PaperInv
<1>2. PICK base \in Acceptable : base = Latest(Acceptable)
    BY <1>1, LatestIsIn
<1>3. base \in Versions /\ Complete(con[base])
    BY <1>2 DEF Acceptable, IsAmendment, Amends, PaperInv, VersionFits, SignaturesFit
<1>4. PICK d \in Contract : d = Suggestion(base)
    BY <1>3, SuggestionFits
<1>5. StartDraft(s, "suggest", d) /\ UNCHANGED <<booking, booked, charged, con>>
    BY <1>2, <1>4 DEF BeginSuggest
<1>6. BaseFits(d, Len(con) + 1) /\ SignaturesFit(d) /\ d.kind = "suggestion" /\ d.status = "AWAITING_CUSTOMER"
    BY <1>3, <1>4, SuggestionFits
<1>7. QED BY <1>5, <1>6, StartsDraft DEF Drafting

\* What beginning an amendment or a plan puts under way
Drafts(s, op, d) ==
    /\ s \in Vendors \cup {Customer} /\ op \in {"amend", "plan"}
    /\ PendingAmendments = {} /\ InForce # {}
    /\ StartDraft(s, op, d) /\ UNCHANGED <<booking, booked, charged, con>>
    /\ d \in Contract /\ BaseFits(d, Len(con) + 1) /\ SignaturesFit(d) /\ Amends(d)
    /\ d.status \in {"AWAITING_CUSTOMER", "AWAITING_VENDOR"}
    /\ d.supersedes \in InForce
    /\ \A t \in Terms : t \notin d.changes => d.terms[t] = booked[t]

LEMMA BeginAmendSays ==
    ASSUME PaperInv, NEW s \in Sessions, BeginAmend(s) \/ BeginPlan(s)
    PROVE  \E op, d : Drafts(s, op, d)
<1>1. CASE BeginAmend(s)
    <2>1. PICK fields \in Changes : StartDraft(s, "amend", Draft(s, "amendment", fields))
        BY <1>1 DEF BeginAmend
    <2>2. fields \in SUBSET Terms
        BY ContractsAssumption DEF Terms
    <2>3. s \in Vendors \cup {Customer} /\ InForce # {} /\ PendingAmendments = {}
          /\ UNCHANGED <<booking, booked, charged, con>>
        BY <1>1 DEF BeginAmend
    <2>4. PICK d : d = Draft(s, "amendment", fields)
        OBVIOUS
    <2>5. /\ d \in Contract /\ BaseFits(d, Len(con) + 1) /\ SignaturesFit(d) /\ Amends(d)
          /\ d.status \in {"AWAITING_CUSTOMER", "AWAITING_VENDOR"}
          /\ d.supersedes \in InForce
          /\ \A t \in Terms : t \notin d.changes => d.terms[t] = booked[t]
        BY <2>2, <2>3, <2>4, DraftSays DEF Amends
    <2>6. Drafts(s, "amend", d)
        BY <2>1, <2>3, <2>4, <2>5 DEF Drafts
    <2>7. QED BY <2>6
<1>2. CASE BeginPlan(s)
    <2>1. StartDraft(s, "plan", Draft(s, "plan", {"plan"}))
        BY <1>2 DEF BeginPlan
    <2>2. {"plan"} \in SUBSET Terms
        BY DEF Terms
    <2>3. s \in Vendors \cup {Customer} /\ InForce # {} /\ PendingAmendments = {}
          /\ UNCHANGED <<booking, booked, charged, con>>
        BY <1>2 DEF BeginPlan
    <2>4. PICK d : d = Draft(s, "plan", {"plan"})
        OBVIOUS
    <2>5. /\ d \in Contract /\ BaseFits(d, Len(con) + 1) /\ SignaturesFit(d) /\ Amends(d)
          /\ d.status \in {"AWAITING_CUSTOMER", "AWAITING_VENDOR"}
          /\ d.supersedes \in InForce
          /\ \A t \in Terms : t \notin d.changes => d.terms[t] = booked[t]
        BY <2>2, <2>3, <2>4, DraftSays DEF Amends
    <2>6. Drafts(s, "plan", d)
        BY <2>1, <2>3, <2>4, <2>5 DEF Drafts
    <2>7. QED BY <2>6
<1>3. QED BY <1>1, <1>2

LEMMA StepBeginAmend ==
    ASSUME PaperInv, NEW s \in Sessions, BeginAmend(s) \/ BeginPlan(s)
    PROVE  PaperInv'
<1>1. PICK op, d : Drafts(s, op, d)
    BY BeginAmendSays
<1>2. QED BY <1>1, StartsDraft DEF Drafts, Drafting
-----------------------------------------------------------------------------
(* The calls write.                                                         *)

\* One contract gets a status and signatures, and its other rows stay.
LEMMA MarkedFits ==
    ASSUME PaperInv, NEW v \in Versions, NEW st \in Statuses, NEW p \in SUBSET Parties,
           Marks(v, st, p), SignaturesFit(con'[v])
    PROVE  /\ Grown /\ Versions' = Versions /\ Len(con') <= MaxVersions
           /\ \A w \in Versions' : VersionFits(w)'
<1>1. Types /\ Grown
    BY GrownBy DEF PaperInv
<1>2. Versions' = Versions
    BY <1>1, VersionsAre DEF Marks, Versions
<1>3. \A w \in Versions : SignaturesFit(con'[w])
    BY DEF Marks, PaperInv, VersionFits
<1>4. \A w \in Versions' : VersionFits(w)'
    BY <1>1, <1>2, <1>3, VersionStays DEF PaperInv
<1>5. QED BY <1>1, <1>2, <1>4 DEF Marks, PaperInv

LEMMA VoidFits ==
    ASSUME PaperInv, NEW v \in Versions, Marks(v, "VOID", {})
    PROVE  /\ Grown /\ Versions' = Versions /\ Len(con') <= MaxVersions
           /\ \A w \in Versions' : VersionFits(w)'
<1>1. SignaturesFit(con[v]) /\ Evolves(con[v], con'[v]) /\ con'[v].status = "VOID" /\ con'[v].signed = con[v].signed
    BY DEF Marks, MarkedAs, PaperInv, VersionFits
<1>2. SignaturesFit(con'[v])
    BY <1>1 DEF SignaturesFit, Evolves, Amends
<1>3. "VOID" \in Statuses /\ {} \in SUBSET Parties
    BY DEF Statuses
<1>4. QED BY <1>2, <1>3, MarkedFits

LEMMA StepVoids ==
    ASSUME PaperInv, NEW s \in Sessions, CloseSuggestion(s) \/ (CommitDecline(s) /\ call[s].v \in Versions)
    PROVE  /\ PaperInv'
           /\ \E v \in Versions : Marks(v, "VOID", {})
<1>0. Types
    BY DEF PaperInv
<1>1. CASE CloseSuggestion(s)
    <2>1. PICK v \in Versions : con' = [con EXCEPT ![v].status = "VOID"]
        BY <1>1 DEF CloseSuggestion, Suggested
    <2>2. Marks(v, "VOID", {})
        BY <1>0, <2>1, Voids
    <2>3. UNCHANGED <<booking, booked, charged, call>>
        BY <1>1 DEF CloseSuggestion
    <2>4. Grown /\ Versions' = Versions /\ Len(con') <= MaxVersions /\ \A w \in Versions' : VersionFits(w)'
        BY <2>2, VoidFits
    <2>5. CallFits(s)'
        BY <1>0, <2>3, <2>4, CallStays DEF PaperInv
    <2>6. PaperInv'
        BY <2>3, <2>4, <2>5, Writes DEF PaperInv, Types
    <2>7. QED BY <2>2, <2>6
<1>2. CASE CommitDecline(s) /\ call[s].v \in Versions
    <2>1. PICK v \in Versions : con' = [con EXCEPT ![v].status = "VOID"]
        BY <1>2 DEF CommitDecline
    <2>2. Marks(v, "VOID", {})
        BY <1>0, <2>1, Voids
    <2>3. Return(s) /\ UNCHANGED <<booking, booked, charged>>
        BY <1>2 DEF CommitDecline
    <2>4. Grown /\ Versions' = Versions /\ Len(con') <= MaxVersions /\ \A w \in Versions' : VersionFits(w)'
        BY <2>2, VoidFits
    <2>5. call' \in [Sessions -> Calls] /\ (\A r \in Sessions \ {s} : call'[r] = call[r]) /\ CallFits(s)'
        BY <1>0, <2>3, ReturnSays, IdleFits
    <2>6. PaperInv'
        BY <2>3, <2>4, <2>5, Writes DEF PaperInv, Types
    <2>7. QED BY <2>2, <2>6
<1>3. QED BY <1>1, <1>2

LEMMA StepClientSign ==
    ASSUME PaperInv, NEW s \in Sessions, ClientSign(s)
    PROVE  PaperInv'
<1>1. Types
    BY DEF PaperInv
<1>2. PICK v \in AwaitingClient : Marks(v, "AWAITING_VENDOR", {"client"})
    BY <1>1, ClientSignSays
<1>3. UNCHANGED <<booking, booked, charged, call>>
    BY <1>1, ClientSignSays
<1>4. v \in Versions /\ con[v].status = "AWAITING_CLIENT"
    BY <1>2 DEF AwaitingClient
<1>5. /\ SignaturesFit(con[v]) /\ Evolves(con[v], con'[v])
      /\ con'[v].status = "AWAITING_VENDOR" /\ con'[v].signed = con[v].signed \cup {"client"}
    BY <1>2, <1>4 DEF Marks, MarkedAs, PaperInv, VersionFits
<1>6. SignaturesFit(con'[v])
    BY <1>4, <1>5 DEF SignaturesFit, Evolves, Amends, Complete
<1>7. "AWAITING_VENDOR" \in Statuses /\ {"client"} \in SUBSET Parties
    BY DEF Statuses, Pending, Parties
<1>8. Grown /\ Versions' = Versions /\ Len(con') <= MaxVersions /\ \A w \in Versions' : VersionFits(w)'
    BY <1>2, <1>4, <1>6, <1>7, MarkedFits
<1>9. CallFits(s)'
    BY <1>1, <1>3, <1>8, CallStays DEF PaperInv
<1>10. QED BY <1>3, <1>8, <1>9, Writes DEF PaperInv, Types

LEMMA StepCommitAccept ==
    ASSUME PaperInv, NEW s \in Sessions, CommitAccept(s)
    PROVE  PaperInv'
<1>1. Types /\ CallFits(s) /\ call[s].op = "accept"
    BY DEF PaperInv, CommitAccept, Under
<1>2. call[s].v \in Versions /\ ~Amends(con[call[s].v]) /\ Complete(con[call[s].v])
    BY <1>1 DEF CallFits
<1>3. Return(s) /\ UNCHANGED <<booked, charged>>
    BY <1>1, <1>2, CommitAcceptSays
<1>4. CASE UNCHANGED <<booking, con>>
    BY <1>3, <1>4, StepRefused DEF Refused
<1>5. CASE booking = "PENDING" /\ booking' = "CONFIRMED" /\ Accepts(call[s].v)
    <2>1. PICK v \in Versions : v = call[s].v
        BY <1>2
    <2>2. Grown /\ Len(con') = Len(con) /\ Versions' = Versions
        BY <1>1, <1>5, <2>1, GrownBy DEF Accepts, Versions, Types
    <2>3. ASSUME NEW w \in Versions
          PROVE  SignaturesFit(con'[w])
        <3>1. SignaturesFit(con[w])
            BY DEF PaperInv, VersionFits
        <3>2. CASE w = v
            <4>1. MarkedAs(w, "EXECUTED", {"vendor"}) /\ ~Amends(con[w]) /\ Complete(con[w])
                BY <1>2, <1>5, <2>1, <3>2 DEF Accepts
            <4>2. QED BY <4>1 DEF MarkedAs, Evolves, SignaturesFit, Amends, Complete
        <3>3. CASE w # v /\ MarkedAs(w, "VOID", {})
            BY <3>1, <3>3 DEF MarkedAs, Evolves, SignaturesFit, Amends, Complete
        <3>4. CASE w # v /\ con'[w] = con[w]
            BY <3>1, <3>4
        <3>5. QED BY <1>5, <2>1, <3>2, <3>3, <3>4 DEF Accepts
    <2>4. \A w \in Versions' : VersionFits(w)'
        BY <1>1, <2>2, <2>3, VersionStays DEF PaperInv
    <2>5. call' \in [Sessions -> Calls] /\ (\A r \in Sessions \ {s} : call'[r] = call[r]) /\ CallFits(s)'
        BY <1>1, <1>3, ReturnSays, IdleFits
    <2>6. Len(con') <= MaxVersions /\ booked' \in [Terms -> Versions']
        BY <1>3, <2>2 DEF PaperInv
    <2>7. QED BY <1>3, <1>5, <2>2, <2>4, <2>5, <2>6, Writes
<1>6. QED BY <1>1, <1>2, <1>4, <1>5, CommitAcceptSays

\* What an amendment, a plan or a suggestion does when it is sent
LEMMA CommitDraftSays ==
    ASSUME PaperInv, NEW s \in Sessions, CommitSuggest(s) \/ CommitAmend(s) \/ CommitPlan(s)
    PROVE  \/ Refused(s)
           \/ /\ Adds(call[s].draft) /\ Return(s) /\ UNCHANGED <<booking, booked, charged>>
              /\ call[s].v = Len(con) + 1 /\ call[s].v <= MaxVersions
              /\ call[s].op \in Drafting /\ DraftFits(call[s])
              /\ CommitSuggest(s) => booking = "PENDING" /\ call[s].op = "suggest"
              /\ CommitAmend(s) \/ CommitPlan(s) => call[s].op \in {"amend", "plan"}
<1> SUFFICES ASSUME ~Refused(s)
             PROVE  /\ Adds(call[s].draft) /\ Return(s) /\ UNCHANGED <<booking, booked, charged>>
                    /\ call[s].v = Len(con) + 1 /\ call[s].v <= MaxVersions
                    /\ call[s].op \in Drafting /\ DraftFits(call[s])
                    /\ CommitSuggest(s) => booking = "PENDING" /\ call[s].op = "suggest"
                    /\ CommitAmend(s) \/ CommitPlan(s) => call[s].op \in {"amend", "plan"}
    OBVIOUS
<1>1. Types /\ CallFits(s) /\ call[s].op \in Drafting
    BY DEF PaperInv, CommitSuggest, CommitAmend, CommitPlan, Under, Drafting
<1>2. DraftFits(call[s]) /\ call[s].draft \in Contract
    BY <1>1 DEF CallFits, DraftFits
<1>3. /\ con' = Append(con, call[s].draft) /\ Return(s) /\ UNCHANGED <<booking, booked, charged>>
      /\ call[s].v = Len(con) + 1 /\ call[s].v <= MaxVersions
    BY DEF CommitSuggest, CommitAmend, CommitPlan, CanCreate
<1>4. Adds(call[s].draft)
    BY <1>1, <1>2, <1>3, AddsOne
<1>5. CommitSuggest(s) => booking = "PENDING" /\ call[s].op = "suggest"
    BY DEF CommitSuggest, Under
<1>6. CommitAmend(s) \/ CommitPlan(s) => call[s].op \in {"amend", "plan"}
    BY DEF CommitAmend, CommitPlan, Under
<1>7. QED BY <1>1, <1>2, <1>3, <1>4, <1>5, <1>6

LEMMA StepCommitDraft ==
    ASSUME PaperInv, NEW s \in Sessions, CommitSuggest(s) \/ CommitAmend(s) \/ CommitPlan(s)
    PROVE  PaperInv'
<1>1. CASE Refused(s)
    BY <1>1, StepRefused
<1>2. CASE /\ Adds(call[s].draft) /\ Return(s) /\ UNCHANGED <<booking, booked, charged>>
           /\ call[s].v = Len(con) + 1 /\ call[s].v <= MaxVersions /\ DraftFits(call[s])
    <2>1. Types
        BY DEF PaperInv
    <2>2. Grown
        BY <1>2, <2>1, GrownBy
    <2>3. PICK d \in Contract : d = call[s].draft
        BY <1>2 DEF DraftFits
    <2>4. PICK n \in Nat : n = Len(con) + 1 /\ n = call[s].v
        BY <1>2, <2>1, VersionsAre
    <2>5. Len(con') = n /\ con'[n] = d /\ Versions' = Versions \cup {n} /\ Versions = 1..Len(con) /\ Len(con) \in Nat
        BY <1>2, <2>1, <2>2, <2>3, <2>4, VersionsAre DEF Adds, Versions, Grown
    <2>6. BaseFits(d, n) /\ SignaturesFit(d)
        BY <1>2, <2>3, <2>4 DEF DraftFits
    <2>7. BaseFits(d, n)'
        BY <2>1, <2>2, <2>4, <2>5, <2>6, BaseStays
    <2>8. VersionFits(n)'
        BY <2>5, <2>6, <2>7 DEF VersionFits
    <2>9. \A w \in Versions : VersionFits(w)'
        BY <1>2, <2>1, <2>2, VersionStays DEF Adds, PaperInv, VersionFits
    <2>10. call' \in [Sessions -> Calls] /\ (\A r \in Sessions \ {s} : call'[r] = call[r]) /\ CallFits(s)'
        BY <1>2, <2>1, ReturnSays, IdleFits
    <2>11. booked' \in [Terms -> Versions'] /\ Len(con') <= MaxVersions
        BY <1>2, <2>4, <2>5 DEF PaperInv
    <2>12. QED BY <1>2, <2>1, <2>2, <2>5, <2>8, <2>9, <2>10, <2>11, Writes DEF Types
<1>3. QED BY <1>1, <1>2, CommitDraftSays

\* The one replaced was complete, so it may be superseded.
LEMMA ReplacedFits ==
    ASSUME PaperInv, NEW v \in Versions, NEW st \in Statuses, NEW p \in SUBSET Parties,
           Replaces(v, st, p), SignaturesFit(con'[v])
    PROVE  /\ Grown /\ Versions' = Versions /\ Len(con') <= MaxVersions
           /\ \A w \in Versions' : VersionFits(w)'
<1>1. Types /\ Grown
    BY GrownBy DEF PaperInv
<1>2. Versions' = Versions
    BY <1>1, VersionsAre DEF Replaces, Versions
<1>3. PICK u \in Versions : u = con[v].supersedes /\ u < v /\ MarkedAs(u, "SUPERSEDED", {})
    BY DEF Replaces
<1>4. Complete(con[u])
    <2>1. u # 0
        BY <1>1, VersionsAre
    <2>2. QED BY <1>3, <2>1 DEF PaperInv, VersionFits, BaseFits
<1>5. SignaturesFit(con'[u])
    <2>1. SignaturesFit(con[u])
        BY DEF PaperInv, VersionFits
    <2>2. QED BY <1>3, <1>4, <2>1 DEF MarkedAs, Evolves, SignaturesFit, Amends, Complete
<1>6. \A w \in Versions : SignaturesFit(con'[w])
    BY <1>3, <1>5 DEF Replaces, PaperInv, VersionFits
<1>7. \A w \in Versions' : VersionFits(w)'
    BY <1>1, <1>2, <1>6, VersionStays DEF PaperInv
<1>8. QED BY <1>1, <1>2, <1>7 DEF Replaces, PaperInv

LEMMA StepCommitApprove ==
    ASSUME PaperInv, NEW s \in Sessions, CommitApprove(s)
    PROVE  PaperInv'
<1>1. Types /\ CallFits(s) /\ call[s].op = "approve"
    BY DEF PaperInv, CommitApprove, Under
<1>2. PICK v \in Versions : v = call[s].v /\ con[v].kind = "suggestion" /\ con[v] \in Contract
    BY <1>1, VersionsAre DEF CallFits
<1>3. con[v].supersedes < v /\ con[v].supersedes # 0 /\ SignaturesFit(con[v])
    BY <1>2 DEF PaperInv, VersionFits, BaseFits
<1>4. Return(s) /\ UNCHANGED <<booking, charged>>
    BY <1>1, <1>2, <1>3, CommitApproveSays
<1>5. CASE UNCHANGED <<booked, con>>
    BY <1>4, <1>5, StepRefused DEF Refused
<1>6. CASE booked' = con[v].terms /\ Replaces(v, NextSigner(con[v]), {"customer"})
    <2>1. PICK st \in Statuses : /\ st = NextSigner(con[v])
                                 /\ st = "AWAITING_CLIENT" \/ (st = "AWAITING_VENDOR" /\ ~con[v].client)
        BY DEF NextSigner, Statuses, Pending
    <2>2. Replaces(v, st, {"customer"})
        BY <1>6, <2>1
    <2>3. MarkedAs(v, st, {"customer"})
        BY <2>2 DEF Replaces
    <2>4. SignaturesFit(con'[v])
        BY <1>2, <1>3, <2>1, <2>3 DEF MarkedAs, Evolves, SignaturesFit, Amends, Complete
    <2>5. Grown /\ Versions' = Versions /\ Len(con') <= MaxVersions /\ \A w \in Versions' : VersionFits(w)'
        BY <2>2, <2>4, ReplacedFits DEF Parties
    <2>6. call' \in [Sessions -> Calls] /\ (\A r \in Sessions \ {s} : call'[r] = call[r]) /\ CallFits(s)'
        BY <1>1, <1>4, ReturnSays, IdleFits
    <2>7. booked' \in [Terms -> Versions']
        <3>1. v \in 1..Len(con) /\ Len(con) \in Nat /\ Versions = 1..Len(con)
            BY <1>1, VersionsAre
        <3>2. \A t \in Terms : con[v].terms[t] \in 1..v
            BY DEF PaperInv, VersionFits, BaseFits
        <3>3. con[v].terms \in [Terms -> Nat]
            BY <1>2 DEF Contract
        <3>4. \A t \in Terms : con[v].terms[t] \in Versions
            BY <3>1, <3>2
        <3>5. QED BY <1>6, <2>5, <3>3, <3>4
    <2>8. QED BY <1>4, <2>5, <2>6, <2>7, Writes DEF PaperInv, Types
<1>7. QED BY <1>1, <1>2, <1>3, <1>5, <1>6, CommitApproveSays

LEMMA StepCommitSign ==
    ASSUME PaperInv, NEW s \in Sessions, CommitSign(s)
    PROVE  PaperInv'
<1>1. Types /\ CallFits(s) /\ call[s].op = "sign"
    BY DEF PaperInv, CommitSign, Under
<1>2. PICK v \in Versions : v = call[s].v /\ Amends(con[v]) /\ con[v] \in Contract
    BY <1>1, VersionsAre DEF CallFits
<1>3. con[v].supersedes < v /\ con[v].supersedes # 0 /\ SignaturesFit(con[v])
    BY <1>2 DEF PaperInv, VersionFits, BaseFits, Amends
<1>4. PICK role \in {"customer", "vendor"} : role = Role(s)
    BY <1>1, SessionKinds DEF CallFits
<1>5. Return(s) /\ UNCHANGED <<booking, charged>>
    BY <1>1, <1>2, <1>3, <1>4, CommitSignSays DEF Parties
<1>6. CASE UNCHANGED <<booked, con>>
    BY <1>5, <1>6, StepRefused DEF Refused
<1>7. CASE /\ Unchanged(s)
           /\ booked' = [t \in Terms |-> IF t \in con[v].changes THEN con[v].terms[t] ELSE booked[t]]
           /\ Replaces(v, "EXECUTED", {role})
    <2>1. role \notin con[v].signed
        BY <1>2, <1>4, <1>7 DEF Unchanged, CanSign
    <2>2. MarkedAs(v, "EXECUTED", {role})
        BY <1>7 DEF Replaces
    <2>3. SignaturesFit(con'[v])
        BY <1>2, <1>3, <2>1, <2>2 DEF MarkedAs, Evolves, SignaturesFit, Amends, Complete
    <2>4. Grown /\ Versions' = Versions /\ Len(con') <= MaxVersions /\ \A w \in Versions' : VersionFits(w)'
        BY <1>7, <2>3, ReplacedFits DEF Parties, Statuses
    <2>5. call' \in [Sessions -> Calls] /\ (\A r \in Sessions \ {s} : call'[r] = call[r]) /\ CallFits(s)'
        BY <1>1, <1>5, ReturnSays, IdleFits
    <2>6. booked' \in [Terms -> Versions']
        <3>1. v \in 1..Len(con) /\ Len(con) \in Nat /\ Versions = 1..Len(con)
            BY <1>1, VersionsAre
        <3>2. \A t \in Terms : con[v].terms[t] \in 1..v
            BY DEF PaperInv, VersionFits, BaseFits
        <3>3. \A t \in Terms : con[v].terms[t] \in Versions /\ booked[t] \in Versions
            BY <3>1, <3>2 DEF PaperInv
        <3>4. QED BY <1>7, <2>4, <3>3
    <2>7. QED BY <1>5, <2>4, <2>5, <2>6, Writes DEF PaperInv, Types
<1>8. QED BY <1>1, <1>2, <1>3, <1>4, <1>6, <1>7, CommitSignSays DEF Parties

LEMMA StepVoidOne ==
    ASSUME PaperInv, NEW s \in Sessions, VoidOne(s)
    PROVE  PaperInv'
<1>1. Types /\ CallFits(s) /\ call[s].op = "end"
    BY DEF PaperInv, VoidOne, Under
<1>2. CASE Refused(s)
    BY <1>2, StepRefused
<1>3. CASE ~Refused(s)
    <2>1. PICK v \in call[s].left : /\ con' = [con EXCEPT ![v].status = "VOID"]
                                    /\ call' = [call EXCEPT ![s].left = @ \ {v}]
        BY <1>3 DEF VoidOne
    <2>2. UNCHANGED <<booking, booked, charged>> /\ call[s].at = "void"
        BY <1>3 DEF VoidOne, Under
    <2>3. v \in Versions /\ call[s].left \ {v} \in SUBSET Versions
        BY <1>1 DEF CallFits
    <2>4. Marks(v, "VOID", {})
        BY <1>1, <2>1, <2>3, Voids
    <2>5. Grown /\ Versions' = Versions /\ Len(con') <= MaxVersions /\ \A w \in Versions' : VersionFits(w)'
        BY <2>3, <2>4, VoidFits
    <2>6. call' = [call EXCEPT ![s] = [call[s] EXCEPT !.at = "void", !.left = call[s].left \ {v}]]
        <3>1. PICK c \in Calls : c = call[s]
            BY <1>1 DEF Types
        <3>2. [c EXCEPT !.left = c.left \ {v}] = [c EXCEPT !.at = "void", !.left = c.left \ {v}]
            BY <2>2, <3>1 DEF Calls
        <3>3. QED BY <2>1, <3>1, <3>2
    <2>7. call[s].op \notin Drafting /\ "void" \in Ats
        BY <1>1 DEF Drafting, Ats
    <2>8. call' \in [Sessions -> Calls] /\ (\A r \in Sessions \ {s} : call'[r] = call[r]) /\ CallFits(s)'
        BY <2>3, <2>5, <2>6, <2>7, LeftChanges
    <2>9. QED BY <2>2, <2>5, <2>8, Writes DEF PaperInv, Types
<1>4. QED BY <1>2, <1>3

LEMMA StepChargeStarts ==
    ASSUME PaperInv, ChargeStarts
    PROVE  PaperInv'
<1>1. /\ UNCHANGED <<booking, booked, con, call>> /\ charged' = TRUE /\ booking = "CONFIRMED" /\ Types
      /\ Versions' = Versions
    BY DEF ChargeStarts, PaperInv, Versions
<1>2. Grown
    BY <1>1, GrownBy
<1>3. \A s \in Sessions : CallFits(s)'
    BY <1>1, <1>2, CallStays DEF PaperInv
<1>4. \A v \in Versions : VersionFits(v)'
    BY <1>1, <1>2, VersionStays DEF PaperInv, VersionFits
<1>5. QED BY <1>1, <1>3, <1>4 DEF PaperInv, Types

\* Which contract a call is about, when it has one
LEMMA CallsRefer ==
    ASSUME PaperInv, NEW s \in Sessions
    PROVE  /\ call[s].op = "decline" => call[s].v \in Versions
           /\ call[s].op = "sign" => call[s].v \in Versions /\ s \in Vendors \cup {Customer}
           /\ call[s].op = "accept" => call[s].v \in Versions
           /\ call[s].op = "approve" => call[s].v \in Versions
BY DEF PaperInv, CallFits

LEMMA PaperStep == PaperInv /\ [Next]_vars => PaperInv'
<1> SUFFICES ASSUME PaperInv, [Next]_vars
             PROVE  PaperInv'
    OBVIOUS
<1>1. CASE ChargeStarts
    BY <1>1, StepChargeStarts
<1>2. ASSUME NEW s \in Sessions, Begin(s) \/ BeginExpire(s)
      PROVE  PaperInv'
    <2>1. CASE \E v \in Versions : BeginSign(s, v) \/ BeginDecline(s, v)
        BY <2>1, StepBeginSign
    <2>2. CASE BeginAccept(s) \/ BeginApprove(s) \/ BeginExpire(s)
        BY <2>2, StepBeginAccept, StepBeginApprove, StepBeginExpire
    <2>3. CASE BeginSuggest(s) \/ BeginAmend(s) \/ BeginPlan(s)
        BY <2>3, StepBeginSuggest, StepBeginAmend
    <2>4. CASE ClientSign(s) \/ CloseSuggestion(s)
        BY <2>4, StepClientSign, StepVoids
    <2>5. CASE Cancel(s) \/ Reject(s)
        BY <2>5, StepEnds
    <2>6. QED BY <1>2, <2>1, <2>2, <2>3, <2>4, <2>5 DEF Begin
<1>3. ASSUME NEW s \in Sessions, Continue(s)
      PROVE  PaperInv'
    <2>1. CASE ReadToSign(s) \/ FindPending(s) \/ VoidOne(s)
        BY <2>1, StepReadToSign, StepFindPending, StepVoidOne
    <2>2. CASE CommitAccept(s) \/ CommitApprove(s) \/ CommitSign(s)
        BY <2>2, StepCommitAccept, StepCommitApprove, StepCommitSign
    <2>3. CASE CommitSuggest(s) \/ CommitAmend(s) \/ CommitPlan(s)
        BY <2>3, StepCommitDraft
    <2>4. CASE CommitDecline(s)
        BY <2>4, CallsRefer, StepVoids DEF CommitDecline, Under
    <2>5. CASE CommitExpire(s)
        BY <2>5, StepRefused, StepEnds
    <2>6. QED BY <1>3, <2>1, <2>2, <2>3, <2>4, <2>5 DEF Continue
<1>4. CASE UNCHANGED vars
    <2>1. UNCHANGED <<booking, booked, charged, con, call>>
        BY <1>4 DEF vars
    <2>2. Types /\ Types' /\ Versions' = Versions
        BY <2>1 DEF PaperInv, Types, Versions
    <2>3. Grown
        BY <2>1, <2>2, GrownBy
    <2>4. \A s \in Sessions : CallFits(s)'
        BY <2>1, <2>2, <2>3, CallStays DEF PaperInv
    <2>5. \A v \in Versions : VersionFits(v)'
        BY <2>1, <2>2, <2>3, VersionStays DEF PaperInv, VersionFits
    <2>6. QED BY <2>1, <2>2, <2>4, <2>5 DEF PaperInv
<1>5. QED BY <1>1, <1>2, <1>3, <1>4 DEF Next

\* The contracts are well-formed in every state: types, the signatures a status
\* stands for, and calls under way that still fit what they read.
THEOREM Paper == Spec => []PaperInv
<1>1. Init => PaperInv
    BY PaperInit
<1>2. PaperInv /\ [Next]_vars => PaperInv'
    BY PaperStep
<1>3. QED BY <1>1, <1>2, PTL DEF Spec

\* The rows, the calls and what they refer to have their types, also when
\* any number of the vendor's sessions and any of the calls overlap.
THEOREM ContractsTyped == Spec => []TypeOK
<1>1. PaperInv => TypeOK
    <2> SUFFICES ASSUME PaperInv
                 PROVE  TypeOK
        OBVIOUS
    <2>1. Types /\ Len(con) \in Nat /\ Versions = 1..Len(con) /\ MaxVersions \in Nat
        BY VersionsAre, SessionKinds DEF PaperInv
    <2>2. Len(con) <= MaxVersions
        BY <2>1 DEF PaperInv
    <2>3. \A v \in Versions : con[v] \in Contract /\ con[v].supersedes < v
        BY <2>1, VersionsAre DEF PaperInv, VersionFits, BaseFits
    <2>4. ASSUME NEW s \in Sessions
          PROVE  call[s].left \subseteq Versions /\ (call[s].draft = NoDraft => call[s].v \in Versions \cup {0})
        <3>1. CallFits(s)
            BY DEF PaperInv
        <3>2. call[s].op \in Drafting => call[s].draft # NoDraft
            BY <3>1 DEF CallFits, DraftFits, Contract, NoDraft
        <3>3. QED BY <3>1, <3>2 DEF CallFits
    <2>5. QED BY <2>1, <2>2, <2>3, <2>4 DEF TypeOK, Types, PaperInv
<1>2. QED BY <1>1, Paper, PTL

\* Nothing is in force that the customer, the vendor, or the client who was
\* asked to co-sign has not signed, whichever calls of however many sessions
\* overlap and whether or not a decline races a signature.
THEOREM AllSigned == Spec => []SignedByAll
<1>1. PaperInv => SignedByAll
    BY DEF PaperInv, VersionFits, SignaturesFit, Complete, SignedByAll, InForce
<1>2. QED BY <1>1, Paper, PTL

\* A charge that was taken or started fixes the price, whoever signs what later.
THEOREM PriceFixed == Spec => PaidPriceStays
<1> DEFINE Fixed == charged => booked'["amount"] = booked["amount"]
<1>1. PaperInv /\ [Next]_vars => Fixed
    <2> SUFFICES ASSUME PaperInv, [Next]_vars, charged
                 PROVE  booked'["amount"] = booked["amount"]
        OBVIOUS
    <2>1. CASE booked' = booked
        BY <2>1
    <2>2. ASSUME NEW s \in Sessions, CommitApprove(s)
          PROVE  booked' = booked
        BY <2>2 DEF CommitApprove, StillSuggested, PaperInv, Refused
    <2>3. ASSUME NEW s \in Sessions, CommitSign(s)
          PROVE  booked'["amount"] = booked["amount"]
        <3> DEFINE c == con[call[s].v]
        <3>1. CASE booked' = [t \in Terms |-> IF t \in c.changes THEN c.terms[t] ELSE booked[t]] /\ ChargesAllow(c)
            <4>1. "amount" \notin c.changes /\ "amount" \in Terms
                BY <3>1 DEF ChargesAllow, Terms
            <4>2. QED BY <3>1, <4>1
        <3>2. CASE booked' = booked
            BY <3>2
        <3>3. QED BY <2>3, <3>1, <3>2 DEF CommitSign, Refused
    <2>4. ASSUME NEW s \in Sessions, Begin(s) \/ BeginExpire(s)
          PROVE  booked' = booked
        BY <2>4 DEF Begin, BeginExpire, BeginAccept, BeginSuggest, BeginApprove, BeginAmend, BeginPlan,
                    ClientSign, CloseSuggestion, Cancel, Reject, BeginSign, BeginDecline
    <2>5. ASSUME NEW s \in Sessions, Continue(s), ~CommitApprove(s), ~CommitSign(s)
          PROVE  booked' = booked
        BY <2>5 DEF Continue, ReadToSign, CommitAccept, CommitSuggest, CommitAmend, CommitPlan,
                    CommitDecline, CommitExpire, FindPending, VoidOne, Refused
    <2>6. QED BY <2>1, <2>2, <2>3, <2>4, <2>5 DEF Next, ChargeStarts, vars
<1>2. QED BY <1>1, Paper, PTL DEF Spec, PaidPriceStays
-----------------------------------------------------------------------------
(* One contract in force.                                                   *)

\* One vendor session, and no decline overlaps a signature of the same
\* amendment: with two, or with such a race, the rest is not so.
Orderly == (\A a, b \in Vendors : a = b) /\ RacingDeclines = FALSE

Open(c) == c.status \in Pending
Offer(c) == c.kind = "suggestion" /\ c.status = "AWAITING_CUSTOMER"
Executed(v) == con[v].status = "EXECUTED"
AgreesOutside(c) == \A t \in Terms : t \notin c.changes => c.terms[t] = booked[t]

\* While a request is open one version can be accepted and says what is booked;
\* a vendor who accepts holds it, and no offer waits beside it.
CanBeAccepted(u) ==
    /\ con[u].status \in {"AWAITING_VENDOR", "AWAITING_CLIENT"} /\ con[u].terms = booked
    /\ \A w \in Versions \ {u} : con[w].status \in {"SUPERSEDED", "VOID"} \/ Offer(con[w])
RequestCall(s) ==
    /\ call[s].op \notin {"amend", "plan", "sign", "decline", "end"}
    /\ call[s].op = "suggest" => s \in Vendors
    /\ call[s].op = "accept" =>
         /\ con[call[s].v].status = "AWAITING_VENDOR"
         /\ call[s].at = "commit" => call[s].seen = "AWAITING_VENDOR"
         /\ \A w \in Versions : ~Offer(con[w])
RequestOpen ==
    /\ \A v \in Versions : ~Amends(con[v])
    /\ \E u \in Versions : CanBeAccepted(u)
    /\ \A s \in Sessions : RequestCall(s)

\* While a booking goes on one version is in force and says what is booked; at
\* most one amendment is open, it replaces that version, and a party that signs
\* it finds it as it was.
OnlyInForce(e) == Executed(e) /\ con[e].terms = booked /\ \A w \in Versions \ {e} : ~Executed(w)
OpenFits(c) == Amends(c) /\ Executed(c.supersedes) /\ AgreesOutside(c)
SignerStatus(s) == IF s = Customer THEN "AWAITING_CUSTOMER" ELSE "AWAITING_VENDOR"
LiveDraft(s) == call[s].op \in {"amend", "plan"} /\ call[s].v = Len(con) + 1
DraftCall(s) ==
    LiveDraft(s) => /\ \A p \in Versions : ~Open(con[p])
                    /\ Executed(call[s].draft.supersedes) /\ AgreesOutside(call[s].draft)
BookingCall(s) ==
    /\ call[s].op # "end"
    /\ call[s].op = "sign" =>
         /\ con[call[s].v].status = SignerStatus(s)
         /\ call[s].at = "commit" => call[s].seen = SignerStatus(s)
         /\ ~Declining(call[s].v)
    /\ call[s].op = "decline" => con[call[s].v].status \in Pending \cup {"VOID"}
BookingGoesOn ==
    /\ \E e \in Versions : OnlyInForce(e)
    /\ \A p \in Versions : Open(con[p]) => OpenFits(con[p])
    /\ \A p, q \in Versions : Open(con[p]) /\ Open(con[q]) => p = q
    /\ \A s \in Sessions : DraftCall(s)
    /\ \A s \in Sessions : BookingCall(s)

ContractsInv ==
    /\ booking = "PENDING" => RequestOpen
    /\ booking = "CONFIRMED" => BookingGoesOn

\* The steps of an open request that leave the contracts alone
LEMMA RequestQuiet ==
    ASSUME PaperInv, RequestOpen, NEW s \in Sessions, UNCHANGED <<booked, con>>,
           \A r \in Sessions \ {s} : call'[r] = call[r], RequestCall(s)'
    PROVE  RequestOpen'
<1>1. Versions' = Versions
    BY DEF Versions
<1>2. \A r \in Sessions : RequestCall(r)'
    BY <1>1 DEF RequestOpen, RequestCall, Offer
<1>3. \A v \in Versions' : ~Amends(con[v])'
    BY <1>1 DEF RequestOpen, Amends
<1>4. \E u \in Versions' : CanBeAccepted(u)'
    BY <1>1 DEF RequestOpen, CanBeAccepted, Offer
<1>5. QED BY <1>2, <1>3, <1>4 DEF RequestOpen

LEMMA BookingQuiet ==
    ASSUME PaperInv, BookingGoesOn, NEW s \in Sessions, UNCHANGED <<booked, con>>,
           \A r \in Sessions \ {s} : call'[r] = call[r],
           \A r \in Sessions : BookingCall(r)', DraftCall(s)'
    PROVE  BookingGoesOn'
<1>1. Versions' = Versions
    BY DEF Versions
<1>2. \A r \in Sessions : DraftCall(r)'
    BY <1>1 DEF BookingGoesOn, DraftCall, LiveDraft, Open, Executed, AgreesOutside
<1>3. \E e \in Versions' : OnlyInForce(e)'
    BY <1>1 DEF BookingGoesOn, OnlyInForce, Executed
<1>4. \A p \in Versions' : Open(con[p])' => OpenFits(con[p])'
    BY <1>1 DEF BookingGoesOn, Open, OpenFits, Executed, AgreesOutside, Amends
<1>5. \A p, q \in Versions' : Open(con[p])' /\ Open(con[q])' => p = q
    BY <1>1 DEF BookingGoesOn, Open
<1>6. QED BY <1>2, <1>3, <1>4, <1>5 DEF BookingGoesOn

\* a session that is idle again, or does nothing that matters here
Harmless == {"idle", "expire", "approve"}
LEMMA HarmlessCall ==
    ASSUME NEW s \in Sessions, call'[s].op \in Harmless
    PROVE  RequestCall(s)' /\ BookingCall(s)' /\ DraftCall(s)'
BY DEF RequestCall, BookingCall, DraftCall, LiveDraft, Harmless

\* A session that leaves a call takes no signature and no decline from the others.
LEMMA OthersStay ==
    ASSUME PaperInv, BookingGoesOn, NEW s \in Sessions, UNCHANGED con,
           \A r \in Sessions \ {s} : call'[r] = call[r], BookingCall(s)',
           call'[s].op = "decline" => ~Signing(call'[s].v)
    PROVE  \A r \in Sessions : BookingCall(r)'
<1> SUFFICES ASSUME NEW r \in Sessions, r # s
             PROVE  BookingCall(r)'
    OBVIOUS
<1>1. BookingCall(r) /\ call'[r] = call[r]
    BY DEF BookingGoesOn
<1>2. call[r].op = "sign" => ~Declining(call[r].v)'
    BY <1>1 DEF BookingCall, Declining, Signing
<1>3. QED BY <1>1, <1>2 DEF BookingCall, SignerStatus

\* The sessions' calls when one of them returns
LEMMA ReturnedIdle ==
    ASSUME PaperInv, NEW s \in Sessions, Return(s)
    PROVE  (\A r \in Sessions \ {s} : call'[r] = call[r]) /\ call'[s].op = "idle"
BY ReturnSays, IdleCall DEF PaperInv

LEMMA RequestRefused ==
    ASSUME PaperInv, RequestOpen, NEW s \in Sessions, Refused(s)
    PROVE  RequestOpen'
<1>1. (\A r \in Sessions \ {s} : call'[r] = call[r]) /\ call'[s].op = "idle" /\ UNCHANGED <<booked, con>>
    BY ReturnedIdle DEF Refused
<1>2. QED BY <1>1, RequestQuiet, HarmlessCall DEF Harmless

LEMMA BookingRefused ==
    ASSUME PaperInv, BookingGoesOn, NEW s \in Sessions, Refused(s)
    PROVE  BookingGoesOn'
<1>1. (\A r \in Sessions \ {s} : call'[r] = call[r]) /\ call'[s].op = "idle" /\ UNCHANGED <<booked, con>>
    BY ReturnedIdle DEF Refused
<1>2. BookingCall(s)' /\ DraftCall(s)'
    BY <1>1, HarmlessCall DEF Harmless
<1>3. \A r \in Sessions : BookingCall(r)'
    BY <1>1, <1>2, OthersStay
<1>4. QED BY <1>1, <1>2, <1>3, BookingQuiet

\* A version has one of the two statuses of an acceptable one only if it is that one.
LEMMA TheAcceptable ==
    ASSUME NEW u \in Versions, CanBeAccepted(u), NEW v \in Versions,
           con[v].status \in {"AWAITING_VENDOR", "AWAITING_CLIENT"}
    PROVE  v = u
BY DEF CanBeAccepted, Offer

LEMMA RequestClientSigns ==
    ASSUME PaperInv, RequestOpen, NEW s \in Sessions, ClientSign(s)
    PROVE  RequestOpen'
<1>1. Types
    BY DEF PaperInv
<1>2. PICK v \in AwaitingClient : Marks(v, "AWAITING_VENDOR", {"client"})
    BY <1>1, ClientSignSays
<1>3. UNCHANGED <<booked, call>>
    BY <1>1, ClientSignSays
<1>4. PICK u \in Versions : CanBeAccepted(u)
    BY DEF RequestOpen
<1>5. v = u /\ con[u].status = "AWAITING_CLIENT"
    BY <1>2, <1>4, TheAcceptable DEF AwaitingClient
<1>6. Versions' = Versions
    BY <1>1, <1>2, VersionsAre DEF Marks, Versions
<1>7. \A w \in Versions \ {u} : con'[w] = con[w]
    BY <1>2, <1>5 DEF Marks
<1>8. MarkedAs(u, "AWAITING_VENDOR", {"client"})
    BY <1>2, <1>5 DEF Marks
<1>9. CanBeAccepted(u)'
    BY <1>3, <1>4, <1>6, <1>7, <1>8 DEF CanBeAccepted, MarkedAs, Evolves, Offer
<1>10. \A w \in Versions' : ~Amends(con[w])'
    BY <1>6, <1>7, <1>8 DEF RequestOpen, MarkedAs, Evolves, Amends
<1>11. ASSUME NEW r \in Sessions
       PROVE  RequestCall(r)'
    <2>1. RequestCall(r) /\ call'[r] = call[r]
        BY <1>3 DEF RequestOpen
    <2>2. call[r].op # "accept"
        <3> SUFFICES ASSUME call[r].op = "accept"
                     PROVE  FALSE
            OBVIOUS
        <3>1. call[r].v \in Versions /\ con[call[r].v].status = "AWAITING_VENDOR"
            BY <2>1, CallsRefer DEF RequestCall
        <3>2. call[r].v = u
            BY <1>4, <3>1, TheAcceptable
        <3>3. QED BY <1>5, <3>1, <3>2
    <2>3. QED BY <2>1, <2>2 DEF RequestCall
<1>12. QED BY <1>6, <1>9, <1>10, <1>11 DEF RequestOpen

LEMMA RequestSuggestionClosed ==
    ASSUME PaperInv, RequestOpen, NEW s \in Sessions, CloseSuggestion(s)
    PROVE  RequestOpen'
<1>1. Types
    BY DEF PaperInv
<1>2. PICK v \in Suggested : con' = [con EXCEPT ![v].status = "VOID"]
    BY DEF CloseSuggestion
<1>3. v \in Versions /\ Offer(con[v])
    BY <1>2 DEF Suggested, Offer
<1>4. Marks(v, "VOID", {})
    BY <1>1, <1>2, <1>3, Voids
<1>5. UNCHANGED <<booked, call>>
    BY DEF CloseSuggestion
<1>6. PICK u \in Versions : CanBeAccepted(u)
    BY DEF RequestOpen
<1>7. u # v
    BY <1>3, <1>6 DEF CanBeAccepted, Offer
<1>8. Versions' = Versions
    BY <1>1, <1>4, VersionsAre DEF Marks, Versions
<1>9. CanBeAccepted(u)'
    BY <1>4, <1>5, <1>6, <1>7, <1>8 DEF CanBeAccepted, Marks, MarkedAs, Offer
<1>10. \A w \in Versions' : ~Amends(con[w])'
    BY <1>4, <1>8 DEF RequestOpen, Marks, MarkedAs, Evolves, Amends
<1>11. ASSUME NEW r \in Sessions
       PROVE  RequestCall(r)'
    <2>1. RequestCall(r) /\ call'[r] = call[r]
        BY <1>5 DEF RequestOpen
    <2>2. call[r].op # "accept"
        BY <1>3, <2>1 DEF RequestCall
    <2>3. QED BY <2>1, <2>2 DEF RequestCall
<1>12. QED BY <1>8, <1>9, <1>10, <1>11 DEF RequestOpen

LEMMA RequestSuggested ==
    ASSUME Orderly, PaperInv, RequestOpen, NEW s \in Sessions, CommitSuggest(s)
    PROVE  RequestOpen'
<1>1. CASE Refused(s)
    BY <1>1, RequestRefused
<1>2. CASE /\ Adds(call[s].draft) /\ Return(s) /\ UNCHANGED <<booking, booked, charged>>
           /\ DraftFits(call[s]) /\ call[s].op = "suggest"
    <2>1. Types
        BY DEF PaperInv
    <2>2. PICK d \in Contract : d = call[s].draft /\ d.kind = "suggestion" /\ d.status = "AWAITING_CUSTOMER"
        BY <1>2 DEF DraftFits
    <2>3. PICK n \in Nat : n = Len(con) + 1
        BY <2>1, VersionsAre
    <2>4. Versions' = Versions \cup {n} /\ con'[n] = d /\ \A w \in Versions : con'[w] = con[w]
        BY <1>2, <2>1, <2>2, <2>3, VersionsAre DEF Adds, Versions
    <2>5. PICK u \in Versions : CanBeAccepted(u)
        BY DEF RequestOpen
    <2>6. CanBeAccepted(u)'
        BY <1>2, <2>2, <2>4, <2>5 DEF CanBeAccepted, Offer
    <2>7. \A w \in Versions' : ~Amends(con[w])'
        BY <2>2, <2>4 DEF RequestOpen, Amends
    <2>8. (\A r \in Sessions \ {s} : call'[r] = call[r]) /\ call'[s].op = "idle"
        BY <1>2, ReturnedIdle
    <2>9. s \in Vendors
        BY <1>2 DEF RequestOpen, RequestCall
    <2>10. ASSUME NEW r \in Sessions \ {s}
           PROVE  RequestCall(r)'
        <3>1. RequestCall(r) /\ call'[r] = call[r]
            BY <2>8 DEF RequestOpen
        <3>2. call[r].op # "accept"
            BY <2>9 DEF Orderly, PaperInv, CallFits
        <3>3. QED BY <3>1, <3>2 DEF RequestCall
    <2>11. RequestCall(s)'
        BY <2>8, HarmlessCall DEF Harmless
    <2>12. QED BY <2>4, <2>5, <2>6, <2>7, <2>10, <2>11 DEF RequestOpen
<1>3. QED BY <1>1, <1>2, CommitDraftSays

LEMMA RequestApproved ==
    ASSUME PaperInv, RequestOpen, NEW s \in Sessions, CommitApprove(s)
    PROVE  RequestOpen'
<1>1. Types /\ CallFits(s) /\ call[s].op = "approve"
    BY DEF PaperInv, CommitApprove, Under
<1>2. PICK v \in Versions : v = call[s].v /\ con[v].kind = "suggestion" /\ con[v] \in Contract
    BY <1>1, VersionsAre DEF CallFits
<1>3. con[v].supersedes < v /\ con[v].supersedes # 0
    BY <1>2 DEF PaperInv, VersionFits, BaseFits
<1>4. CASE Refused(s)
    BY <1>4, RequestRefused
<1>5. CASE /\ StillSuggested(s) /\ booked' = con[v].terms /\ Return(s)
           /\ Replaces(v, NextSigner(con[v]), {"customer"})
    <2>1. PICK st \in {"AWAITING_CLIENT", "AWAITING_VENDOR"} : Replaces(v, st, {"customer"})
        BY <1>5 DEF NextSigner
    <2>2. PICK b \in Versions : b = con[v].supersedes /\ b < v /\ con[b].status = "AWAITING_VENDOR"
        BY <1>2, <1>5 DEF StillSuggested, Replaces
    <2>3. Offer(con[v])
        BY <1>2, <1>5 DEF StillSuggested, Offer
    <2>4. PICK u \in Versions : CanBeAccepted(u)
        BY DEF RequestOpen
    <2>5. b = u /\ b # v
        BY <1>1, <2>2, <2>4, TheAcceptable, VersionsAre
    <2>6. Versions' = Versions
        BY <1>1, <2>1, VersionsAre DEF Replaces, Versions
    <2>7. /\ MarkedAs(v, st, {"customer"}) /\ MarkedAs(b, "SUPERSEDED", {})
          /\ \A w \in Versions \ {b, v} : con'[w] = con[w]
        BY <2>1, <2>2 DEF Replaces
    <2>8. CanBeAccepted(v)'
        <3>1. con'[v].status = st /\ con'[v].terms = booked'
            BY <1>5, <2>7 DEF MarkedAs, Evolves
        <3>2. ASSUME NEW w \in Versions \ {v}
              PROVE  con'[w].status \in {"SUPERSEDED", "VOID"} \/ Offer(con'[w])
            BY <2>4, <2>5, <2>7 DEF CanBeAccepted, MarkedAs
        <3>3. QED BY <2>6, <3>1, <3>2 DEF CanBeAccepted, Offer
    <2>9. \A w \in Versions' : ~Amends(con[w])'
        BY <2>6, <2>7 DEF RequestOpen, MarkedAs, Evolves, Amends
    <2>10. (\A r \in Sessions \ {s} : call'[r] = call[r]) /\ call'[s].op = "idle"
        BY <1>5, ReturnedIdle
    <2>11. ASSUME NEW r \in Sessions \ {s}
           PROVE  RequestCall(r)'
        <3>1. RequestCall(r) /\ call'[r] = call[r]
            BY <2>10 DEF RequestOpen
        <3>2. call[r].op # "accept"
            BY <2>3, <3>1 DEF RequestCall
        <3>3. QED BY <3>1, <3>2 DEF RequestCall
    <2>12. RequestCall(s)'
        BY <2>10, HarmlessCall DEF Harmless
    <2>13. QED BY <2>6, <2>8, <2>9, <2>11, <2>12 DEF RequestOpen
<1>6. QED BY <1>1, <1>2, <1>3, <1>4, <1>5, CommitApproveSays DEF Refused

LEMMA RequestCallBegins ==
    ASSUME PaperInv, RequestOpen, NEW s \in Sessions,
           BeginAccept(s) \/ BeginSuggest(s) \/ BeginApprove(s) \/ BeginExpire(s)
    PROVE  RequestOpen'
<1>1. Types
    BY DEF PaperInv
<1>2. CASE BeginAccept(s)
    <2>1. PICK v \in Acceptable : v = Latest(Acceptable)
        BY <1>2, StepBeginAccept
    <2>2. v \in Versions /\ con[v].status = "AWAITING_VENDOR" /\ v \in Nat
        BY <1>1, <2>1, VersionsAre DEF Acceptable
    <2>3. Start(s, "accept", "read", v) /\ Suggested = {} /\ UNCHANGED <<booking, booked, charged, con>>
        BY <1>2, <2>1 DEF BeginAccept
    <2>4. /\ \A r \in Sessions \ {s} : call'[r] = call[r]
          /\ call'[s].op = "accept" /\ call'[s].at = "read" /\ call'[s].v = v
        BY <1>1, <2>2, <2>3, StartSays DEF Ops, Ats
    <2>5. \A w \in Versions : ~Offer(con[w])
        BY <2>3 DEF Suggested, Offer
    <2>6. RequestCall(s)'
        BY <2>2, <2>3, <2>4, <2>5 DEF RequestCall, Offer, Versions
    <2>7. QED BY <2>3, <2>4, <2>6, RequestQuiet
<1>3. CASE BeginSuggest(s)
    <2>2. s \in Vendors /\ UNCHANGED <<booked, con>>
        BY <1>3 DEF BeginSuggest
    <2>3. call' = [call EXCEPT ![s] = call'[s]] /\ call'[s].op = "suggest"
        BY <1>1, <1>3, IdleCall DEF BeginSuggest, StartDraft, Types, Calls
    <2>4. \A r \in Sessions \ {s} : call'[r] = call[r]
        BY <1>1, <2>3 DEF Types
    <2>5. RequestCall(s)'
        BY <2>2, <2>3 DEF RequestCall
    <2>6. QED BY <2>2, <2>4, <2>5, RequestQuiet
<1>4. CASE BeginApprove(s)
    <2>1. PICK v \in Suggested : v = Latest(Suggested)
        BY <1>4, StepBeginApprove
    <2>2. v \in Nat
        BY <1>1, <2>1, VersionsAre DEF Suggested
    <2>3. Start(s, "approve", "commit", v) /\ UNCHANGED <<booked, con>>
        BY <1>4, <2>1 DEF BeginApprove
    <2>4. (\A r \in Sessions \ {s} : call'[r] = call[r]) /\ call'[s].op = "approve"
        BY <1>1, <2>2, <2>3, StartSays DEF Ops, Ats
    <2>5. QED BY <2>3, <2>4, RequestQuiet, HarmlessCall DEF Harmless
<1>5. CASE BeginExpire(s)
    <2>1. PICK v \in Candidates : Start(s, "expire", "commit", v)
        BY <1>5 DEF BeginExpire
    <2>2. v \in Nat /\ UNCHANGED <<booked, con>>
        BY <1>1, <1>5, VersionsAre DEF Candidates, Suggested, BeginExpire
    <2>3. (\A r \in Sessions \ {s} : call'[r] = call[r]) /\ call'[s].op = "expire"
        BY <1>1, <2>1, <2>2, StartSays DEF Ops, Ats
    <2>4. QED BY <2>2, <2>3, RequestQuiet, HarmlessCall DEF Harmless
<1>6. QED BY <1>2, <1>3, <1>4, <1>5

LEMMA RequestRead ==
    ASSUME PaperInv, RequestOpen, NEW s \in Sessions, ReadToSign(s)
    PROVE  RequestOpen'
<1>1. UNCHANGED <<booked, con>> /\ call[s].op = "accept"
    BY DEF ReadToSign, RequestOpen, RequestCall
<1>2. /\ \A r \in Sessions \ {s} : call'[r] = call[r]
      /\ call'[s].op = call[s].op /\ call'[s].v = call[s].v
      /\ call'[s].at = "commit" /\ call'[s].seen = con[call[s].v].status
    BY StepReadToSign
<1>3. RequestCall(s)
    BY DEF RequestOpen
<1>4. RequestCall(s)'
    BY <1>1, <1>2, <1>3 DEF RequestCall, Offer, Versions
<1>5. QED BY <1>1, <1>2, <1>4, RequestQuiet

\* An open request stays as it should be as long as it is open.
LEMMA RequestStep ==
    ASSUME Orderly, PaperInv, RequestOpen, booking = "PENDING", booking' = "PENDING", [Next]_vars
    PROVE  RequestOpen'
<1>1. CASE UNCHANGED vars
    BY <1>1 DEF vars, RequestOpen, CanBeAccepted, RequestCall, Offer, Amends, Versions
<1>2. ~ChargeStarts
    BY DEF ChargeStarts
<1>3. \A v \in Versions : con[v].status # "EXECUTED" /\ ~IsAmendment(v)
    BY DEF RequestOpen, CanBeAccepted, Offer, IsAmendment, Amends
<1>4. ASSUME NEW s \in Sessions, Begin(s) \/ BeginExpire(s)
      PROVE  RequestOpen'
    <2>1. CASE BeginAccept(s) \/ BeginSuggest(s) \/ BeginApprove(s) \/ BeginExpire(s)
        BY <2>1, RequestCallBegins
    <2>2. CASE ClientSign(s)
        BY <2>2, RequestClientSigns
    <2>3. CASE CloseSuggestion(s)
        BY <2>3, RequestSuggestionClosed
    <2>4. ~BeginAmend(s) /\ ~BeginPlan(s)
        BY <1>3 DEF BeginAmend, BeginPlan, InForce
    <2>5. ~Cancel(s) /\ ~Reject(s)
        BY DEF Cancel, Reject
    <2>6. \A v \in Versions : ~BeginSign(s, v) /\ ~BeginDecline(s, v)
        BY <1>3 DEF BeginSign, BeginDecline, PendingAmendments
    <2>7. QED BY <1>4, <2>1, <2>2, <2>3, <2>4, <2>5, <2>6 DEF Begin
<1>5. ASSUME NEW s \in Sessions, Continue(s)
      PROVE  RequestOpen'
    <2>0. call[s].op \notin {"amend", "plan", "sign", "decline", "end"}
        BY DEF RequestOpen, RequestCall
    <2>1. CASE ReadToSign(s)
        BY <2>1, RequestRead
    <2>2. CASE CommitSuggest(s) \/ CommitApprove(s)
        BY <2>2, RequestSuggested, RequestApproved
    <2>3. CASE Refused(s)
        BY <2>3, RequestRefused
    <2>4. CommitAccept(s) => Refused(s)
        BY DEF CommitAccept
    <2>5. CommitExpire(s) => Refused(s)
        BY DEF CommitExpire
    <2>6. ~CommitAmend(s) /\ ~CommitPlan(s) /\ ~CommitSign(s) /\ ~CommitDecline(s) /\ ~FindPending(s) /\ ~VoidOne(s)
        BY <2>0 DEF CommitAmend, CommitPlan, CommitSign, CommitDecline, FindPending, VoidOne, Under
    <2>7. QED BY <1>5, <2>1, <2>2, <2>3, <2>4, <2>5, <2>6 DEF Continue
<1>6. QED BY <1>1, <1>2, <1>4, <1>5 DEF Next

\* Accept & Sign turns the version that could be accepted into the one in force.
LEMMA RequestAccepted ==
    ASSUME PaperInv, RequestOpen, NEW s \in Sessions, CommitAccept(s), booking' = "CONFIRMED", booking = "PENDING"
    PROVE  BookingGoesOn'
<1>1. Types /\ CallFits(s) /\ call[s].op = "accept"
    BY DEF PaperInv, CommitAccept, Under
<1>2. PICK v \in Versions : v = call[s].v
    BY <1>1 DEF CallFits
<1>3. Return(s) /\ UNCHANGED booked /\ Accepts(v)
    BY <1>1, <1>2, CommitAcceptSays
<1>4. con[v].status = "AWAITING_VENDOR" /\ \A w \in Versions : ~Offer(con[w])
    BY <1>1, <1>2 DEF RequestOpen, RequestCall
<1>5. PICK u \in Versions : CanBeAccepted(u)
    BY DEF RequestOpen
<1>6. u = v
    BY <1>4, <1>5, TheAcceptable
<1>7. Versions' = Versions
    BY <1>1, <1>3, VersionsAre DEF Accepts, Versions
<1>8. \A w \in Versions \ {v} : con'[w] = con[w] /\ con[w].status \in {"SUPERSEDED", "VOID"}
    BY <1>3, <1>4, <1>5, <1>6 DEF CanBeAccepted, Accepts
<1>9. con'[v].status = "EXECUTED" /\ con'[v].terms = booked'
    BY <1>3, <1>5, <1>6 DEF Accepts, MarkedAs, Evolves, CanBeAccepted
<1>10. OnlyInForce(v)'
    BY <1>7, <1>8, <1>9 DEF OnlyInForce, Executed
<1>11. \A p \in Versions' : ~Open(con[p])'
    BY <1>7, <1>8, <1>9 DEF Open, Pending
<1>12. (\A r \in Sessions \ {s} : call'[r] = call[r]) /\ call'[s].op = "idle"
    BY <1>3, ReturnedIdle
<1>13. ASSUME NEW r \in Sessions
       PROVE  BookingCall(r)' /\ DraftCall(r)'
    <2>1. CASE r = s
        BY <1>12, <2>1, HarmlessCall DEF Harmless
    <2>2. CASE r # s
        <3>1. call'[r].op \notin {"amend", "plan", "sign", "decline", "end"}
            BY <1>12, <2>2 DEF RequestOpen, RequestCall
        <3>2. QED BY <3>1 DEF BookingCall, DraftCall, LiveDraft
    <2>3. QED BY <2>1, <2>2
<1>14. QED BY <1>7, <1>10, <1>11, <1>13 DEF BookingGoesOn

LEMMA BookingDrafts ==
    ASSUME PaperInv, BookingGoesOn, NEW s \in Sessions, BeginAmend(s) \/ BeginPlan(s)
    PROVE  BookingGoesOn'
<1>1. PICK op, d : Drafts(s, op, d)
    BY BeginAmendSays
<1>2. Types /\ op \in Ops /\ op \in {"amend", "plan"} /\ d \in Contract /\ UNCHANGED <<booked, con>>
    BY <1>1 DEF PaperInv, Drafts, Ops
<1>3. /\ \A r \in Sessions \ {s} : call'[r] = call[r]
      /\ call'[s].op = op /\ call'[s].draft = d
    BY <1>1, <1>2, StartDraftSays DEF Drafts
<1>4. \A p \in Versions : ~Open(con[p])
    BY <1>1 DEF Drafts, PendingAmendments, BookingGoesOn, OpenFits, Open, Amends, IsAmendment
<1>5. Executed(d.supersedes) /\ AgreesOutside(d)
    BY <1>1 DEF Drafts, InForce, Executed, AgreesOutside
<1>6. BookingCall(s)'
    BY <1>2, <1>3 DEF BookingCall
<1>7. DraftCall(s)'
    BY <1>2, <1>3, <1>4, <1>5 DEF DraftCall, Executed, AgreesOutside, Open, Versions
<1>8. \A r \in Sessions : BookingCall(r)'
    BY <1>2, <1>3, <1>6, OthersStay
<1>9. QED BY <1>2, <1>3, <1>7, <1>8, BookingQuiet

LEMMA BookingDraftSent ==
    ASSUME PaperInv, BookingGoesOn, NEW s \in Sessions, CommitAmend(s) \/ CommitPlan(s)
    PROVE  BookingGoesOn'
<1>1. CASE Refused(s)
    BY <1>1, BookingRefused
<1>2. CASE /\ Adds(call[s].draft) /\ Return(s) /\ UNCHANGED <<booking, booked, charged>>
           /\ call[s].v = Len(con) + 1
           /\ DraftFits(call[s]) /\ call[s].op \in {"amend", "plan"}
    <2>1. Types /\ Len(con) \in Nat /\ Versions = 1..Len(con)
        BY VersionsAre DEF PaperInv
    <2>2. PICK d \in Contract : d = call[s].draft /\ Amends(d) /\ d.status \in Pending
        BY <1>2 DEF DraftFits, Pending
    <2>3. PICK n \in Nat : n = Len(con) + 1 /\ n \notin Versions
        BY <2>1
    <2>4. Versions' = Versions \cup {n} /\ con'[n] = d /\ (\A w \in Versions : con'[w] = con[w]) /\ Len(con') = n
        BY <1>2, <2>1, <2>2, <2>3 DEF Adds, Versions
    <2>5. (\A p \in Versions : ~Open(con[p])) /\ Executed(d.supersedes) /\ AgreesOutside(d)
        BY <1>2, <2>2 DEF BookingGoesOn, DraftCall, LiveDraft
    <2>6. d.supersedes \in Versions
        BY <1>2, <2>1, <2>2, <2>3 DEF DraftFits, BaseFits, Amends, Contract
    <2>7. PICK e \in Versions : OnlyInForce(e)
        BY DEF BookingGoesOn
    <2>8. OnlyInForce(e)'
        BY <1>2, <2>2, <2>4, <2>7 DEF OnlyInForce, Executed, Pending
    <2>9. Open(d) /\ OpenFits(d)'
        BY <1>2, <2>2, <2>4, <2>5, <2>6 DEF Open, OpenFits, Executed, AgreesOutside, Amends
    <2>10. \A p \in Versions' : Open(con[p])' => p = n /\ OpenFits(con[p])'
        BY <2>4, <2>5, <2>9 DEF Open, OpenFits, Executed, AgreesOutside
    <2>11. (\A r \in Sessions \ {s} : call'[r] = call[r]) /\ call'[s].op = "idle"
        BY <1>2, ReturnedIdle
    <2>12. BookingCall(s)' /\ DraftCall(s)'
        BY <2>11, HarmlessCall DEF Harmless
    <2>13. ASSUME NEW r \in Sessions \ {s}
           PROVE  BookingCall(r)' /\ DraftCall(r)'
        <3>1. BookingCall(r) /\ call'[r] = call[r] /\ CallFits(r)
            BY <2>11 DEF BookingGoesOn, PaperInv
        <3>2. ~LiveDraft(r)'
            <4>1. call[r].op \in {"amend", "plan"} => call[r].v <= n
                BY <2>1, <2>3, <3>1 DEF CallFits, DraftFits, Drafting
            <4>2. QED BY <2>4, <3>1, <4>1 DEF LiveDraft
        <3>3. call[r].op \in {"sign", "decline"} => con'[call[r].v] = con[call[r].v]
            BY <2>4, CallsRefer
        <3>4. Declining(call[r].v)' => Declining(call[r].v)
            BY <2>11, <3>1 DEF Declining
        <3>5. BookingCall(r)'
            BY <3>1, <3>3, <3>4 DEF BookingCall, SignerStatus
        <3>6. QED BY <3>2, <3>5 DEF DraftCall
    <2>14. QED BY <2>4, <2>7, <2>8, <2>10, <2>12, <2>13 DEF BookingGoesOn
<1>3. QED BY <1>1, <1>2, CommitDraftSays

LEMMA BookingSignBegins ==
    ASSUME Orderly, PaperInv, BookingGoesOn, NEW s \in Sessions, NEW v \in Versions,
           BeginSign(s, v) \/ BeginDecline(s, v)
    PROVE  BookingGoesOn'
<1>1. Types /\ v \in Nat
    BY VersionsAre DEF PaperInv
<1>2. CASE BeginSign(s, v)
    <2>1. Start(s, "sign", "read", v) /\ UNCHANGED <<booked, con>> /\ ~Declining(v)
        BY <1>2 DEF BeginSign, Orderly
    <2>2. con[v].status = SignerStatus(s)
        BY <1>2, SessionKinds DEF BeginSign, SignerStatus
    <2>3. /\ \A r \in Sessions \ {s} : call'[r] = call[r]
          /\ call'[s].op = "sign" /\ call'[s].at = "read" /\ call'[s].v = v
        BY <1>1, <2>1, StartSays DEF Ops, Ats
    <2>4. ~Declining(v)'
        BY <2>1, <2>3 DEF Declining
    <2>5. BookingCall(s)' /\ DraftCall(s)'
        BY <2>1, <2>2, <2>3, <2>4 DEF BookingCall, DraftCall, LiveDraft, SignerStatus
    <2>6. \A r \in Sessions : BookingCall(r)'
        BY <2>1, <2>3, <2>5, OthersStay
    <2>7. QED BY <2>1, <2>3, <2>5, <2>6, BookingQuiet
<1>3. CASE BeginDecline(s, v)
    <2>1. Start(s, "decline", "commit", v) /\ UNCHANGED <<booked, con>> /\ ~Signing(v) /\ con[v].status \in Pending
        BY <1>3 DEF BeginDecline, Orderly, PendingAmendments
    <2>2. /\ \A r \in Sessions \ {s} : call'[r] = call[r]
          /\ call'[s].op = "decline" /\ call'[s].v = v
        BY <1>1, <2>1, StartSays DEF Ops, Ats
    <2>3. BookingCall(s)' /\ DraftCall(s)'
        BY <2>1, <2>2 DEF BookingCall, DraftCall, LiveDraft
    <2>4. \A r \in Sessions : BookingCall(r)'
        BY <2>1, <2>2, <2>3, OthersStay
    <2>5. QED BY <2>1, <2>2, <2>3, <2>4, BookingQuiet
<1>4. QED BY <1>2, <1>3

LEMMA BookingRead ==
    ASSUME PaperInv, BookingGoesOn, NEW s \in Sessions, ReadToSign(s)
    PROVE  BookingGoesOn'
<1>1. UNCHANGED <<booked, con>> /\ call[s].op \in {"accept", "sign"}
    BY DEF ReadToSign
<1>2. /\ \A r \in Sessions \ {s} : call'[r] = call[r]
      /\ call'[s].op = call[s].op /\ call'[s].v = call[s].v
      /\ call'[s].at = "commit" /\ call'[s].seen = con[call[s].v].status
    BY StepReadToSign
<1>3. BookingCall(s)
    BY DEF BookingGoesOn
<1>4. Declining(call[s].v)' => Declining(call[s].v)
    BY <1>1, <1>2 DEF Declining
<1>5. BookingCall(s)' /\ DraftCall(s)'
    BY <1>1, <1>2, <1>3, <1>4 DEF BookingCall, DraftCall, LiveDraft, SignerStatus
<1>6. \A r \in Sessions : BookingCall(r)'
    BY <1>1, <1>2, <1>5, OthersStay
<1>7. QED BY <1>1, <1>2, <1>5, <1>6, BookingQuiet

LEMMA BookingDeclined ==
    ASSUME PaperInv, BookingGoesOn, NEW s \in Sessions, CommitDecline(s)
    PROVE  BookingGoesOn'
<1>1. Types /\ Return(s) /\ UNCHANGED booked /\ call[s].op = "decline"
      /\ con' = [con EXCEPT ![call[s].v].status = "VOID"]
    BY DEF PaperInv, CommitDecline, Under
<1>2. PICK v \in Versions : v = call[s].v /\ con[v].status \in Pending \cup {"VOID"}
    BY <1>1, CallsRefer DEF BookingGoesOn, BookingCall
<1>3. Marks(v, "VOID", {})
    BY <1>1, <1>2, Voids
<1>4. Versions' = Versions /\ Len(con') = Len(con)
    BY <1>1, <1>3, VersionsAre DEF Marks, Versions
<1>5. con'[v].status = "VOID" /\ \A w \in Versions \ {v} : con'[w] = con[w]
    BY <1>3 DEF Marks, MarkedAs
<1>6. PICK e \in Versions : OnlyInForce(e)
    BY DEF BookingGoesOn
<1>7. ~Executed(v) /\ e # v
    BY <1>2, <1>6 DEF Executed, Pending, OnlyInForce
<1>8. \A w \in Versions : /\ Executed(w)' <=> Executed(w)
                          /\ Open(con[w])' => Open(con[w]) /\ con'[w] = con[w]
    BY <1>5, <1>7 DEF Executed, Open, Pending
<1>9. OnlyInForce(e)'
    BY <1>1, <1>4, <1>5, <1>6, <1>7, <1>8 DEF OnlyInForce
<1>10. ASSUME NEW p \in Versions, Open(con[p])'
       PROVE  OpenFits(con[p])'
    <2>1. OpenFits(con[p]) /\ con'[p] = con[p]
        BY <1>8, <1>10 DEF BookingGoesOn
    <2>2. con[p].supersedes # v
        BY <1>7, <2>1 DEF OpenFits
    <2>3. con[p].supersedes \in Versions
        BY <1>1, <2>1, VersionsAre DEF OpenFits, PaperInv, VersionFits, BaseFits, Amends, Contract
    <2>4. QED BY <1>1, <1>8, <2>1, <2>3 DEF OpenFits, AgreesOutside
<1>11. (\A r \in Sessions \ {s} : call'[r] = call[r]) /\ call'[s].op = "idle"
    BY <1>1, ReturnedIdle
<1>12. BookingCall(s)' /\ DraftCall(s)'
    BY <1>11, HarmlessCall DEF Harmless
<1>13. ASSUME NEW r \in Sessions \ {s}
       PROVE  BookingCall(r)'
    <2>1. BookingCall(r) /\ call'[r] = call[r]
        BY <1>11 DEF BookingGoesOn
    <2>2. call[r].op = "sign" => call[r].v \in Versions \ {v}
        BY <1>1, <1>2, <2>1, CallsRefer DEF BookingCall, Declining
    <2>3. Declining(call[r].v)' => Declining(call[r].v)
        BY <1>11, <2>1 DEF Declining
    <2>4. call[r].op = "decline" => con'[call[r].v].status \in Pending \cup {"VOID"}
        BY <1>5, <2>1, CallsRefer DEF BookingCall
    <2>5. QED BY <1>5, <2>1, <2>2, <2>3, <2>4 DEF BookingCall, SignerStatus
<1>14. ASSUME NEW r \in Sessions \ {s}
       PROVE  DraftCall(r)'
    <2> SUFFICES ASSUME LiveDraft(r)'
                 PROVE  /\ \A p \in Versions' : ~Open(con[p])'
                        /\ Executed(call[r].draft.supersedes)' /\ AgreesOutside(call[r].draft)'
        BY DEF DraftCall
    <2>1. call'[r] = call[r] /\ LiveDraft(r) /\ CallFits(r)
        BY <1>4, <1>11 DEF LiveDraft, PaperInv
    <2>2. (\A p \in Versions : ~Open(con[p])) /\ Executed(call[r].draft.supersedes) /\ AgreesOutside(call[r].draft)
        BY <2>1 DEF BookingGoesOn, DraftCall
    <2>3. PICK d \in Contract : d = call[r].draft
        BY <2>1 DEF LiveDraft, CallFits, Drafting, DraftFits
    <2>4. d.supersedes \in Versions
        <3>1. Amends(d) /\ BaseFits(d, call[r].v) /\ call[r].v = Len(con) + 1
            BY <2>1, <2>3 DEF LiveDraft, CallFits, Drafting, DraftFits
        <3>2. d.supersedes \in Nat /\ d.supersedes # 0 /\ d.supersedes < Len(con) + 1
            BY <3>1 DEF BaseFits, Amends, Contract
        <3>3. QED BY <1>1, <3>2, VersionsAre
    <2>5. Executed(d.supersedes)' /\ AgreesOutside(d)'
        BY <1>1, <1>8, <2>2, <2>3, <2>4 DEF AgreesOutside
    <2>6. QED BY <1>4, <1>8, <2>1, <2>2, <2>3, <2>5
<1>15. \A p, q \in Versions' : Open(con[p])' /\ Open(con[q])' => p = q
    BY <1>4, <1>8 DEF BookingGoesOn
<1>16. QED BY <1>4, <1>9, <1>10, <1>12, <1>13, <1>14, <1>15 DEF BookingGoesOn

LEMMA BookingSigned ==
    ASSUME Orderly, PaperInv, BookingGoesOn, NEW s \in Sessions, CommitSign(s)
    PROVE  BookingGoesOn'
<1>1. Types /\ CallFits(s) /\ call[s].op = "sign" /\ call[s].at = "commit"
    BY DEF PaperInv, CommitSign, Under
<1>2. PICK v \in Versions : v = call[s].v /\ Amends(con[v]) /\ con[v] \in Contract
    BY <1>1, VersionsAre DEF CallFits
<1>3. con[v].supersedes < v /\ con[v].supersedes # 0
    BY <1>2 DEF PaperInv, VersionFits, BaseFits, Amends
<1>4. s \in Vendors \cup {Customer} /\ Role(s) \in Parties
    BY <1>1, SessionKinds DEF CallFits, Parties
<1>5. CASE Refused(s)
    BY <1>5, BookingRefused
<1>6. CASE /\ Return(s)
           /\ booked' = [t \in Terms |-> IF t \in con[v].changes THEN con[v].terms[t] ELSE booked[t]]
           /\ Replaces(v, "EXECUTED", {Role(s)})
    <2>1. con[v].status = SignerStatus(s) /\ ~Declining(v)
        BY <1>1, <1>2 DEF BookingGoesOn, BookingCall
    <2>2. Open(con[v])
        BY <2>1 DEF Open, SignerStatus, Pending
    <2>3. OpenFits(con[v])
        BY <2>2 DEF BookingGoesOn
    <2>4. PICK e \in Versions : OnlyInForce(e)
        BY DEF BookingGoesOn
    <2>5. PICK b \in Versions : b = con[v].supersedes /\ b < v
        BY <1>6 DEF Replaces
    <2>6. b = e /\ e # v
        BY <1>1, <2>3, <2>4, <2>5, VersionsAre DEF OpenFits, OnlyInForce, Executed
    <2>7. Versions' = Versions /\ Len(con') = Len(con)
        BY <1>1, <1>6, VersionsAre DEF Replaces, Versions
    <2>8. /\ con'[v].status = "EXECUTED" /\ con'[v].terms = con[v].terms /\ con'[e].status = "SUPERSEDED"
          /\ \A w \in Versions \ {e, v} : con'[w] = con[w]
        BY <1>6, <2>5, <2>6 DEF Replaces, MarkedAs, Evolves
    <2>9. booked' = con[v].terms
        <3>1. con[v].terms \in [Terms -> Nat]
            BY <1>2 DEF Contract
        <3>2. \A t \in Terms : booked'[t] = con[v].terms[t]
            BY <1>6, <2>3 DEF OpenFits, AgreesOutside
        <3>3. QED BY <1>6, <3>1, <3>2
    <2>10. OnlyInForce(v)'
        BY <2>4, <2>7, <2>8, <2>9 DEF OnlyInForce, Executed
    <2>11. \A p \in Versions' : ~Open(con[p])'
        <3>1. \A p \in Versions : Open(con[p]) => p = v
            BY <2>2 DEF BookingGoesOn
        <3>2. QED BY <2>7, <2>8, <3>1 DEF Open, Pending
    <2>12. (\A r \in Sessions \ {s} : call'[r] = call[r]) /\ call'[s].op = "idle"
        BY <1>6, ReturnedIdle
    <2>13. BookingCall(s)' /\ DraftCall(s)'
        BY <2>12, HarmlessCall DEF Harmless
    <2>14. ASSUME NEW r \in Sessions \ {s}
           PROVE  BookingCall(r)' /\ DraftCall(r)'
        <3>1. BookingCall(r) /\ DraftCall(r) /\ call'[r] = call[r] /\ CallFits(r)
            BY <2>12 DEF BookingGoesOn, PaperInv
        <3>2. ~LiveDraft(r)'
            BY <2>2, <2>7, <3>1 DEF LiveDraft, DraftCall
        <3>3. call[r].op # "sign"
            <4> SUFFICES ASSUME call[r].op = "sign"
                         PROVE  FALSE
                OBVIOUS
            <4>1. call[r].v \in Versions /\ r \in Vendors \cup {Customer}
                BY CallsRefer
            <4>2. con[call[r].v].status = SignerStatus(r)
                BY <3>1 DEF BookingCall
            <4>3. Open(con[call[r].v])
                BY <4>2 DEF Open, SignerStatus, Pending
            <4>4. call[r].v = v
                BY <2>2, <4>1, <4>3 DEF BookingGoesOn
            <4>5. SignerStatus(r) = SignerStatus(s)
                BY <2>1, <4>2, <4>4
            <4>6. r = s
                BY <1>4, <4>1, <4>5 DEF SignerStatus, Orderly
            <4>7. QED BY <4>6
        <3>4. call[r].op = "decline" => call[r].v \in Versions \ {e, v}
            <4> SUFFICES ASSUME call[r].op = "decline"
                         PROVE  call[r].v \in Versions \ {e, v}
                OBVIOUS
            <4>1. call[r].v \in Versions
                BY CallsRefer
            <4>2. call[r].v # v
                BY <2>1 DEF Declining
            <4>3. con[call[r].v].status \in Pending \cup {"VOID"}
                BY <3>1 DEF BookingCall
            <4>4. call[r].v # e
                BY <2>4, <4>3 DEF OnlyInForce, Executed, Pending
            <4>5. QED BY <4>1, <4>2, <4>4
        <3>5. BookingCall(r)'
            BY <2>8, <3>1, <3>3, <3>4 DEF BookingCall
        <3>6. QED BY <3>2, <3>5 DEF DraftCall
    <2>15. QED BY <2>7, <2>10, <2>11, <2>13, <2>14 DEF BookingGoesOn
<1>7. QED BY <1>1, <1>2, <1>3, <1>4, <1>5, <1>6, CommitSignSays DEF Refused

\* In a booking that goes on nothing waits for the client, and no offer is open.
LEMMA NothingOfTheRequest ==
    ASSUME PaperInv, BookingGoesOn, NEW s \in Sessions
    PROVE  ~ClientSign(s) /\ ~CloseSuggestion(s)
<1>1. \A p \in Versions : Open(con[p]) => Amends(con[p]) /\ con[p].status # "AWAITING_CLIENT"
    BY DEF BookingGoesOn, OpenFits, PaperInv, VersionFits, SignaturesFit
<1>2. ~ClientSign(s)
    BY <1>1 DEF ClientSign, AwaitingClient, Open, Pending
<1>3. ~CloseSuggestion(s)
    BY <1>1 DEF CloseSuggestion, Suggested, Open, Pending, Amends
<1>4. QED BY <1>2, <1>3

\* A booking that goes on stays as it should be as long as it does.
LEMMA BookingStep ==
    ASSUME Orderly, PaperInv, BookingGoesOn, booking = "CONFIRMED", booking' = "CONFIRMED", [Next]_vars
    PROVE  BookingGoesOn'
<1>1. CASE UNCHANGED <<booked, con, call>>
    <2>1. Versions' = Versions
        BY <1>1 DEF Versions
    <2>2. \A r \in Sessions : BookingCall(r)' /\ DraftCall(r)'
        BY <1>1, <2>1 DEF BookingGoesOn, BookingCall, DraftCall, LiveDraft, Declining, SignerStatus, Open,
                          Executed, AgreesOutside
    <2>3. \E e \in Versions' : OnlyInForce(e)'
        BY <1>1, <2>1 DEF BookingGoesOn, OnlyInForce, Executed
    <2>4. \A p \in Versions' : Open(con[p])' => OpenFits(con[p])'
        BY <1>1, <2>1 DEF BookingGoesOn, Open, OpenFits, Executed, AgreesOutside, Amends
    <2>5. \A p, q \in Versions' : Open(con[p])' /\ Open(con[q])' => p = q
        BY <1>1, <2>1 DEF BookingGoesOn, Open
    <2>6. QED BY <2>2, <2>3, <2>4, <2>5 DEF BookingGoesOn
<1>2. CASE ChargeStarts
    BY <1>1, <1>2 DEF ChargeStarts
<1>3. ASSUME NEW s \in Sessions, Begin(s) \/ BeginExpire(s)
      PROVE  BookingGoesOn'
    <2>1. CASE BeginAmend(s) \/ BeginPlan(s)
        BY <2>1, BookingDrafts
    <2>2. CASE \E v \in Versions : BeginSign(s, v) \/ BeginDecline(s, v)
        BY <2>2, BookingSignBegins
    <2>3. ~ClientSign(s) /\ ~CloseSuggestion(s)
        BY NothingOfTheRequest
    <2>4. ~BeginAccept(s) /\ ~BeginSuggest(s) /\ ~BeginApprove(s) /\ ~BeginExpire(s) /\ ~Cancel(s) /\ ~Reject(s)
        BY DEF BeginAccept, BeginSuggest, BeginApprove, BeginExpire, Candidates, Cancel, Reject
    <2>5. QED BY <1>3, <2>1, <2>2, <2>3, <2>4 DEF Begin
<1>4. ASSUME NEW s \in Sessions, Continue(s)
      PROVE  BookingGoesOn'
    <2>0. call[s].op # "end"
        BY DEF BookingGoesOn, BookingCall
    <2>1. CASE ReadToSign(s)
        BY <2>1, BookingRead
    <2>2. CASE CommitAmend(s) \/ CommitPlan(s)
        BY <2>2, BookingDraftSent
    <2>3. CASE CommitSign(s) \/ CommitDecline(s)
        BY <2>3, BookingSigned, BookingDeclined
    <2>4. CASE Refused(s)
        BY <2>4, BookingRefused
    <2>5. CommitAccept(s) \/ CommitSuggest(s) \/ CommitApprove(s) \/ CommitExpire(s) => Refused(s)
        BY DEF CommitAccept, CommitSuggest, CommitApprove, StillSuggested, CommitExpire
    <2>6. ~FindPending(s) /\ ~VoidOne(s)
        BY <2>0 DEF FindPending, VoidOne, Under
    <2>7. QED BY <1>4, <2>1, <2>2, <2>3, <2>4, <2>5, <2>6 DEF Continue
<1>5. QED BY <1>1, <1>2, <1>3, <1>4 DEF Next, vars

\* The booking's status only moves on, and only Accept & Sign confirms it.
LEMMA StatusMoves ==
    ASSUME PaperInv, [Next]_vars
    PROVE  /\ booking' = "PENDING" => booking = "PENDING"
           /\ booking' = "CONFIRMED" => \/ booking = "CONFIRMED"
                                        \/ booking = "PENDING" /\ \E s \in Sessions : CommitAccept(s)
<1>1. CASE booking' = booking
    BY <1>1 DEF PaperInv, Types
<1>2. CASE booking' # booking
    <2>1. PICK s \in Sessions : Begin(s) \/ BeginExpire(s) \/ Continue(s)
        BY <1>2 DEF Next, ChargeStarts, vars
    <2>2. Cancel(s) \/ Reject(s) \/ CommitAccept(s) \/ CommitExpire(s)
        BY <1>2, <2>1 DEF Begin, BeginExpire, Continue, BeginAccept, BeginSuggest, BeginApprove, BeginAmend,
             BeginPlan, ClientSign, CloseSuggestion, BeginSign, BeginDecline, ReadToSign, CommitSuggest,
             CommitApprove, CommitAmend, CommitPlan, CommitSign, CommitDecline, FindPending, VoidOne, Refused
    <2>3. QED BY <1>2, <2>2 DEF Cancel, Reject, CommitAccept, CommitExpire, Refused
<1>3. QED BY <1>1, <1>2

LEMMA ContractsInit ==
    ASSUME Init
    PROVE  ContractsInv
<1>1. PICK client \in BOOLEAN :
         con = <<[kind |-> "request", status |-> IF client THEN "AWAITING_CLIENT" ELSE "AWAITING_VENDOR",
                  supersedes |-> 0, changes |-> Terms, terms |-> booked, paid |-> FALSE,
                  client |-> client, signed |-> {"customer"}]>>
    BY DEF Init
<1>2. Versions = {1} /\ con[1].kind = "request" /\ con[1].terms = booked
    BY <1>1 DEF Versions
<1>3. con[1].status = IF client THEN "AWAITING_CLIENT" ELSE "AWAITING_VENDOR"
    BY <1>1
<1>4. CanBeAccepted(1)
    BY <1>2, <1>3 DEF CanBeAccepted
<1>5. \A s \in Sessions : RequestCall(s)
    BY IdleCall DEF RequestCall, Init
<1>6. RequestOpen
    BY <1>2, <1>4, <1>5 DEF RequestOpen, Amends
<1>7. QED BY <1>6 DEF ContractsInv, Init

LEMMA ContractsStep ==
    ASSUME Orderly, PaperInv, ContractsInv, [Next]_vars
    PROVE  ContractsInv'
<1>1. CASE booking' = "PENDING"
    <2>1. booking = "PENDING" /\ RequestOpen
        BY <1>1, StatusMoves DEF ContractsInv
    <2>2. RequestOpen'
        BY <1>1, <2>1, RequestStep
    <2>3. QED BY <1>1, <2>2 DEF ContractsInv
<1>2. CASE booking' = "CONFIRMED"
    <2>1. CASE booking = "CONFIRMED"
        BY <1>2, <2>1, BookingStep DEF ContractsInv
    <2>2. CASE booking = "PENDING" /\ \E s \in Sessions : CommitAccept(s)
        BY <1>2, <2>2, RequestAccepted DEF ContractsInv
    <2>3. QED BY <1>2, <2>1, <2>2, StatusMoves
<1>3. QED BY <1>1, <1>2 DEF ContractsInv

LEMMA ContractsHold ==
    ASSUME Orderly
    PROVE  Spec => [](PaperInv /\ ContractsInv)
<1>1. Init => PaperInv /\ ContractsInv
    BY PaperInit, ContractsInit
<1>2. PaperInv /\ ContractsInv /\ [Next]_vars => (PaperInv /\ ContractsInv)'
    BY PaperStep, ContractsStep
<1>3. QED BY <1>1, <1>2, PTL DEF Spec

\* With one vendor session and no decline racing a signature: a request has one
\* version that can be accepted and it says what is booked; a confirmed booking
\* has exactly one contract in force and it says what is booked, through any
\* number of suggestions, amendments and payment plans.
THEOREM OneInForce ==
    ASSUME Orderly
    PROVE  Spec => []OneContractInForce
<1>1. PaperInv /\ ContractsInv => OneContractInForce
    <2> SUFFICES ASSUME PaperInv, ContractsInv
                 PROVE  OneContractInForce
        OBVIOUS
    <2>1. ASSUME booking = "PENDING"
          PROVE  InForce = {} /\ \E v \in Acceptable \cup AwaitingClient : con[v].terms = booked
        <3>1. PICK u \in Versions : CanBeAccepted(u) /\ ~Amends(con[u])
            BY <2>1 DEF ContractsInv, RequestOpen
        <3>2. InForce = {}
            BY <3>1 DEF InForce, CanBeAccepted, Offer
        <3>3. u \in Acceptable \cup AwaitingClient
            BY <3>1 DEF Acceptable, AwaitingClient, CanBeAccepted, IsAmendment, Amends
        <3>4. QED BY <3>1, <3>2, <3>3 DEF CanBeAccepted
    <2>2. ASSUME booking = "CONFIRMED"
          PROVE  \E v \in Versions : InForce = {v} /\ con[v].terms = booked
        <3>1. PICK e \in Versions : OnlyInForce(e)
            BY <2>2 DEF ContractsInv, BookingGoesOn
        <3>2. InForce = {e}
            BY <3>1 DEF InForce, OnlyInForce, Executed
        <3>3. QED BY <3>1, <3>2 DEF OnlyInForce
    <2>3. QED BY <2>1, <2>2 DEF OneContractInForce
<1>2. QED BY <1>1, ContractsHold, PTL

\* What a step does to the versions that were answered
AnswersKept == \A v \in Versions : con[v].status \in {"VOID", "SUPERSEDED"} => con'[v].status = con[v].status

LEMMA MarkKeeps ==
    ASSUME NEW v \in Versions, NEW st, NEW p, Marks(v, st, p),
           con[v].status \notin {"VOID", "SUPERSEDED"} \/ con[v].status = st
    PROVE  AnswersKept
BY DEF Marks, MarkedAs, AnswersKept

LEMMA ReplaceKeeps ==
    ASSUME NEW v \in Versions, NEW st, NEW p, Replaces(v, st, p),
           con[v].status \notin {"VOID", "SUPERSEDED"}, con[con[v].supersedes].status # "VOID"
    PROVE  AnswersKept
BY DEF Replaces, MarkedAs, AnswersKept

LEMMA AnswersStep ==
    ASSUME Orderly, PaperInv, ContractsInv, booking \in {"PENDING", "CONFIRMED"}, [Next]_vars
    PROVE  AnswersKept
<1>0. Types
    BY DEF PaperInv
<1>1. CASE con' = con
    BY <1>1 DEF AnswersKept
<1>2. ASSUME NEW s \in Sessions, ClientSign(s)
      PROVE  AnswersKept
    <2>1. PICK v \in AwaitingClient : Marks(v, "AWAITING_VENDOR", {"client"})
        BY <1>0, <1>2, ClientSignSays
    <2>2. QED BY <2>1, MarkKeeps DEF AwaitingClient
<1>3. ASSUME NEW s \in Sessions, CloseSuggestion(s)
      PROVE  AnswersKept
    <2>1. PICK v \in Suggested : con' = [con EXCEPT ![v].status = "VOID"]
        BY <1>3 DEF CloseSuggestion
    <2>2. v \in Versions /\ con[v].status = "AWAITING_CUSTOMER"
        BY <2>1 DEF Suggested
    <2>3. QED BY <1>0, <2>1, <2>2, Voids, MarkKeeps
<1>4. ASSUME NEW s \in Sessions, CommitAccept(s), con' # con
      PROVE  AnswersKept
    <2>1. call[s].op = "accept" /\ call[s].at = "commit"
        BY <1>4 DEF CommitAccept, Under
    <2>2. call[s].v \in Versions
        BY <2>1, CallsRefer
    <2>3. booking = "PENDING" /\ Accepts(call[s].v)
        BY <1>0, <1>4, <2>2, CommitAcceptSays
    <2>4. con[call[s].v].status = "AWAITING_VENDOR"
        BY <2>1, <2>3 DEF ContractsInv, RequestOpen, RequestCall
    <2>5. QED BY <2>3, <2>4 DEF Accepts, AnswersKept
<1>5. ASSUME NEW s \in Sessions, CommitApprove(s), con' # con
      PROVE  AnswersKept
    <2>1. PICK v \in Versions : v = call[s].v /\ con[v].kind = "suggestion"
        BY <1>5, CallsRefer DEF CommitApprove, Under, PaperInv, CallFits
    <2>2. con[v].supersedes < v /\ con[v].supersedes # 0
        BY <2>1 DEF PaperInv, VersionFits, BaseFits
    <2>3. StillSuggested(s) /\ Replaces(v, NextSigner(con[v]), {"customer"})
        BY <1>0, <1>5, <2>1, <2>2, CommitApproveSays
    <2>4. con[v].status = "AWAITING_CUSTOMER" /\ con[con[v].supersedes].status = "AWAITING_VENDOR"
        BY <2>1, <2>3 DEF StillSuggested
    <2>5. QED BY <2>3, <2>4, ReplaceKeeps
<1>6. ASSUME NEW s \in Sessions, CommitSign(s), con' # con
      PROVE  AnswersKept
    <2>1. CallFits(s) /\ call[s].op = "sign"
        BY <1>6 DEF PaperInv, CommitSign, Under
    <2>2. PICK v \in Versions : v = call[s].v /\ Amends(con[v]) /\ s \in Vendors \cup {Customer}
        BY <2>1 DEF CallFits
    <2>3. con[v].supersedes < v /\ con[v].supersedes # 0
        BY <2>2 DEF PaperInv, VersionFits, BaseFits, Amends
    <2>4. Role(s) \in Parties
        BY <2>2, SessionKinds DEF Parties
    <2>5. Replaces(v, "EXECUTED", {Role(s)})
        BY <1>0, <1>6, <2>2, <2>3, <2>4, CommitSignSays
    <2>6. BookingGoesOn
        BY <2>1 DEF ContractsInv, RequestOpen, RequestCall
    <2>7. con[v].status = SignerStatus(s)
        BY <2>1, <2>2, <2>6 DEF BookingGoesOn, BookingCall
    <2>8. con[v].status \in Pending
        BY <2>7 DEF SignerStatus, Pending
    <2>9. con[con[v].supersedes].status = "EXECUTED"
        BY <2>6, <2>8 DEF BookingGoesOn, Open, OpenFits, Executed
    <2>10. QED BY <2>5, <2>8, <2>9, ReplaceKeeps DEF Pending
<1>7. ASSUME NEW s \in Sessions, CommitDecline(s)
      PROVE  AnswersKept
    <2>1. call[s].op = "decline" /\ con' = [con EXCEPT ![call[s].v].status = "VOID"]
        BY <1>7 DEF CommitDecline, Under
    <2>2. PICK v \in Versions : v = call[s].v
        BY <2>1, CallsRefer
    <2>3. BookingGoesOn
        BY <2>1 DEF ContractsInv, RequestOpen, RequestCall
    <2>4. con[v].status \in Pending \cup {"VOID"}
        BY <2>1, <2>2, <2>3 DEF BookingGoesOn, BookingCall
    <2>5. QED BY <1>0, <2>1, <2>2, <2>4, Voids, MarkKeeps DEF Pending
<1>8. ASSUME NEW s \in Sessions, CommitSuggest(s) \/ CommitAmend(s) \/ CommitPlan(s), con' # con
      PROVE  AnswersKept
    <2>1. Adds(call[s].draft)
        BY <1>8, CommitDraftSays DEF Refused
    <2>2. QED BY <2>1 DEF Adds, AnswersKept
<1>9. \A s \in Sessions : ~VoidOne(s)
    BY DEF VoidOne, Under, ContractsInv, RequestOpen, RequestCall, BookingGoesOn, BookingCall
<1>10. ASSUME NEW s \in Sessions, Begin(s) \/ BeginExpire(s), ~ClientSign(s), ~CloseSuggestion(s)
       PROVE  con' = con
    BY <1>10 DEF Begin, BeginExpire, BeginAccept, BeginSuggest, BeginApprove, BeginAmend, BeginPlan,
                 Cancel, Reject, BeginSign, BeginDecline
<1>11. ASSUME NEW s \in Sessions, ReadToSign(s) \/ CommitExpire(s) \/ FindPending(s)
       PROVE  con' = con
    BY <1>11 DEF ReadToSign, CommitExpire, FindPending, Refused
<1>12. QED BY <1>1, <1>2, <1>3, <1>4, <1>5, <1>6, <1>7, <1>8, <1>9, <1>10, <1>11
           DEF Next, Continue, ChargeStarts, vars

\* With one vendor session and no decline racing a signature, what was voided or
\* replaced stays so while the booking goes on, whatever is signed late.
THEOREM AnsweredForGood ==
    ASSUME Orderly
    PROVE  Spec => AnsweredOnce
<1>1. PaperInv /\ ContractsInv /\ [Next]_vars =>
        (booking' \in {"PENDING", "CONFIRMED"} =>
           \A v \in Versions : con[v].status \in {"VOID", "SUPERSEDED"} => con'[v].status = con[v].status)
    <2> SUFFICES ASSUME PaperInv, ContractsInv, [Next]_vars, booking' \in {"PENDING", "CONFIRMED"}
                 PROVE  AnswersKept
        BY DEF AnswersKept
    <2>1. booking \in {"PENDING", "CONFIRMED"}
        BY StatusMoves
    <2>2. QED BY <2>1, AnswersStep
<1>2. QED BY <1>1, ContractsHold, PTL DEF Spec, AnsweredOnce
=============================================================================
