------------------------------ MODULE Licenses ------------------------------
(***************************************************************************)
(* Licences in the graph API and the license expirer.  A create or update  *)
(* mutation checks for conflicting licences with one query and writes with *)
(* another; nothing keeps a second mutation, a revocation or a pass of the *)
(* expirer from coming between the two.  An expirer pass reads the active  *)
(* licences past their end once and then marks them one by one; the timer  *)
(* does not wait for the pass before, so passes may overlap.               *)
(***************************************************************************)
EXTENDS Integers, FiniteSets

CONSTANTS
    Ids,        \* bound: licence rows
    Requests,   \* bound: mutations under way at once
    Passes,     \* bound: expirer passes under way at once
    Scopes,     \* triples of a work, a type of rights and a territory
    Forms,      \* what an input asks for: scope, effectiveFrom, expiresOn
    Asked,      \* statuses an input may ask for
    MaxDay,     \* bound: the clock stops here
    NoId        \* null

\* expiresOn is null.
Open == -1
Days == 0 .. MaxDay

Statuses == {"draft", "active", "expired", "revoked"}
\* The statuses assertNoLicenseConflicts looks at.
Live == {"draft", "active"}

FormType == [scope : Scopes, from : Days, to : Days \cup {Open}]

ASSUME FormsAssumption == Forms \subseteq FormType /\ Forms # {} /\ Asked \subseteq Statuses
ASSUME FiniteAssumption == IsFiniteSet(Ids) /\ IsFiniteSet(Requests)
ASSUME DaysAssumption == MaxDay \in Nat
ASSUME NullAssumption == NoId \notin Ids

VARIABLES
    today,      \* the clock
    stored,     \* rows that exist
    form,       \* scope, effectiveFrom and expiresOn of a row
    status,     \* status of a row
    pc,         \* where a mutation stands
    target,     \* the row an update is for, NoId for a create
    payload,    \* buildLicensePayload's result, but for the status
    wanted,     \* status in that result
    pass        \* rows that an expirer pass has read and not marked yet

rows == <<stored, form, status>>
requests == <<pc, target, payload, wanted>>
vars == <<today, rows, requests, pass>>

TypeOK ==
    /\ today \in Days
    /\ stored \in SUBSET Ids
    /\ form \in [Ids -> FormType]
    /\ status \in [Ids -> Statuses]
    /\ pc \in [Requests -> {"idle", "check", "write"}]
    /\ target \in [Requests -> Ids \cup {NoId}]
    /\ payload \in [Requests -> FormType]
    /\ wanted \in [Requests -> Statuses]
    /\ pass \in [Passes -> SUBSET Ids]

SomeForm == CHOOSE f \in FormType : TRUE

Init ==
    /\ today = 0
    /\ stored = {}
    /\ form = [l \in Ids |-> SomeForm]
    /\ status = [l \in Ids |-> "draft"]
    /\ pc = [c \in Requests |-> "idle"]
    /\ target = [c \in Requests |-> NoId]
    /\ payload = [c \in Requests |-> SomeForm]
    /\ wanted = [c \in Requests |-> "draft"]
    /\ pass = [p \in Passes |-> {}]

NextDay ==
    /\ today < MaxDay
    /\ today' = today + 1
    /\ UNCHANGED <<rows, requests, pass>>

-----------------------------------------------------------------------------
(* Checks *)

\* A range that begins on s is not over before: end is inclusive, null is never.
Until(s, end) == end = Open \/ s <= end

rangesOverlap(startA, endA, startB, endB) == Until(startA, endB) /\ Until(startB, endA)

\* buildLicensePayload refuses an end that is not after the beginning.
Acceptable(f) == f.to # Open => f.to > f.from

\* (faulty) Drafts are not looked at.
ConflictsActiveOnly(c) ==
    {l \in stored \ {target[c]} :
        /\ status[l] = "active"
        /\ form[l].scope = payload[c].scope
        /\ rangesOverlap(payload[c].from, payload[c].to, form[l].from, form[l].to)}

\* The rows assertNoLicenseConflicts finds.
Conflicts(c) ==
    {l \in stored \ {target[c]} :
        /\ status[l] \in Live
        /\ form[l].scope = payload[c].scope
        /\ rangesOverlap(payload[c].from, payload[c].to, form[l].from, form[l].to)}

-----------------------------------------------------------------------------
(* Mutations *)

Asks(c, id, f, s) ==
    /\ pc[c] = "idle"
    /\ Acceptable(f)
    /\ pc' = [pc EXCEPT ![c] = "check"]
    /\ target' = [target EXCEPT ![c] = id]
    /\ payload' = [payload EXCEPT ![c] = f]
    /\ wanted' = [wanted EXCEPT ![c] = s]
    /\ UNCHANGED <<today, rows, pass>>

\* What a create may ask for: any status but draft and active is read as draft.
parseStatus(s) == IF s \in Live THEN s ELSE "draft"

\* createLicense
BeginCreate(c, f, s) == Asks(c, NoId, f, parseStatus(s))

\* updateLicense: a status that is not given is the one the row has now.
BeginUpdate(c, l, f) ==
    /\ l \in stored
    /\ \/ Asks(c, l, f, status[l])
       \/ \E s \in Asked : Asks(c, l, f, s)

\* A mutation is over, and what it knew is gone.
Over(c) ==
    /\ pc' = [pc EXCEPT ![c] = "idle"]
    /\ target' = [target EXCEPT ![c] = NoId]
    /\ payload' = [payload EXCEPT ![c] = SomeForm]
    /\ wanted' = [wanted EXCEPT ![c] = "draft"]

\* assertNoLicenseConflicts finds nothing ...
Check(c) ==
    /\ pc[c] = "check"
    /\ Conflicts(c) = {}
    /\ pc' = [pc EXCEPT ![c] = "write"]
    /\ UNCHANGED <<today, rows, target, payload, wanted, pass>>

\* ... or throws, or a query of the mutation fails.
Refused(c) ==
    /\ pc[c] # "idle"
    /\ Over(c)
    /\ UNCHANGED <<today, rows, pass>>

Written(c, l, f) ==
    /\ pc[c] = "write"
    /\ form' = [form EXCEPT ![l] = f]
    /\ status' = [status EXCEPT ![l] = wanted[c]]
    /\ Over(c)
    /\ UNCHANGED <<today, pass>>

\* prisma.license.create
WriteCreate(c, l) ==
    /\ target[c] = NoId
    /\ l \notin stored
    /\ stored' = stored \cup {l}
    /\ Written(c, l, payload[c])

\* prisma.license.update: an expiresOn that is null leaves the row's as it is.
WriteUpdate(c) ==
    /\ target[c] # NoId
    /\ UNCHANGED stored
    /\ Written(c, target[c],
               IF payload[c].to = Open THEN [payload[c] EXCEPT !.to = form[target[c]].to]
                                       ELSE payload[c])

\* (faulty) The licence ends with the day that follows.
RevokeFromTomorrow(l) ==
    /\ l \in stored
    /\ status' = [status EXCEPT ![l] = "revoked"]
    /\ form' = [form EXCEPT ![l].to = today + 1]
    /\ UNCHANGED <<today, stored, requests, pass>>

\* revokeLicense, whatever the row's status: revoked, and over now.
Revoke(l) ==
    /\ l \in stored
    /\ status' = [status EXCEPT ![l] = "revoked"]
    /\ form' = [form EXCEPT ![l].to = today]
    /\ UNCHANGED <<today, stored, requests, pass>>

-----------------------------------------------------------------------------
(* The expirer *)

Overdue(l) == status[l] = "active" /\ form[l].to # Open /\ form[l].to < today

\* (faulty) One pass when the process starts, and no timer.
BeginPassAtStart(p) ==
    /\ today = 0
    /\ pass[p] = {}
    /\ \E l \in stored : Overdue(l)
    /\ pass' = [pass EXCEPT ![p] = {l \in stored : Overdue(l)}]
    /\ UNCHANGED <<today, rows, requests>>

BeginPass(p) ==
    /\ pass[p] = {}
    /\ \E l \in stored : Overdue(l)
    /\ pass' = [pass EXCEPT ![p] = {l \in stored : Overdue(l)}]
    /\ UNCHANGED <<today, rows, requests>>

\* The row is marked whatever has become of it since it was read.
ExpireOne(p, l) ==
    /\ l \in pass[p]
    /\ status' = [status EXCEPT ![l] = "expired"]
    /\ pass' = [pass EXCEPT ![p] = @ \ {l}]
    /\ UNCHANGED <<today, stored, form, requests>>

\* An update or a publication fails: the rest of the pass is given up.
PassFails(p) ==
    /\ pass[p] # {}
    /\ pass' = [pass EXCEPT ![p] = {}]
    /\ UNCHANGED <<today, rows, requests>>

\* The process ends with every pass under way: a crash, a signal, or the first
\* pass failed.
ExpirerDies ==
    /\ \E p \in Passes : pass[p] # {}
    /\ pass' = [p \in Passes |-> {}]
    /\ UNCHANGED <<today, rows, requests>>

Mutation ==
    \/ \E c \in Requests :
          \/ Check(c) \/ WriteUpdate(c) \/ Refused(c)
          \/ \E f \in Forms, s \in Asked : BeginCreate(c, f, s)
          \/ \E l \in Ids, f \in Forms : BeginUpdate(c, l, f)
          \/ \E l \in Ids : WriteCreate(c, l)
    \/ \E l \in Ids : Revoke(l)

Expirer ==
    \/ \E p \in Passes : BeginPass(p) \/ PassFails(p) \/ \E l \in Ids : ExpireOne(p, l)
    \/ ExpirerDies

Next == NextDay \/ Mutation \/ Expirer

Spec == Init /\ [][Next]_vars

\* The expirer's timer goes off again and again, and the database does not
\* refuse the same row for ever.
FairSpec ==
    /\ Spec
    /\ WF_vars(\E p \in Passes : BeginPass(p))
    /\ \A l \in Ids : SF_vars(\E p \in Passes : ExpireOne(p, l))

-----------------------------------------------------------------------------
(* Properties *)

\* The rows in force, or to be, for a scope on a day.
Covering(k, t) ==
    {l \in stored : /\ status[l] \in Live /\ form[l].scope = k
                    /\ form[l].from <= t /\ Until(t, form[l].to)}

\* No more licences of one scope are in force on the same day than mutations
\* can be under way at once: with one mutation at a time, none overlap.
OverlapBound ==
    \A k \in Scopes, t \in Days : Cardinality(Covering(k, t)) <= Cardinality(Requests)

\* A licence past its end does not stay active, however passes fail and the
\* mutations interfere.
EventuallyExpired == \A l \in Ids : l \in stored /\ Overdue(l) ~> ~Overdue(l)

\* prompts/production-hardening.md: expiresOn is after effectiveFrom.
EndsAfterItBegins ==
    \A l \in stored : status[l] \in Live => Acceptable(form[l])
=============================================================================
