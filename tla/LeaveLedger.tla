------------------------------ MODULE LeaveLedger ------------------------------
(***************************************************************************)
(* Leave of one employee and one leave type: the grants with their ledger, *)
(* the employee's requests, the managers who decide them, and the expiry   *)
(* job of every API process.                                               *)
(*                                                                         *)
(* The ledger is kept as what it sums to: granted, drawn and lapsed days   *)
(* of each grant, and spent, the same CONSUMPTION entries per request.     *)
(* Every step is one database statement or one commit.  Transactions run   *)
(* at READ COMMITTED, so what a handler read may be stale when it writes.  *)
(*                                                                         *)
(* late is a history variable: a property reads it, no step depends on it. *)
(***************************************************************************)
EXTENDS Integers, FiniteSets, FiniteSetsExt

CONSTANTS Grants,     \* naturals, in the order of their granted_at
          Requests,   \* positive naturals
          Days,       \* [Requests -> positive], daysRequested
          Overlaps,   \* pairs of requests whose date ranges overlap
          Managers,   \* reviews in progress at once, none by the employee
          Processes,  \* API processes, each with one expiry job
          GrantedDays \* [Grants -> positive], what HR grants

ASSUME LeaveAssumption ==
  /\ Grants \subseteq Nat /\ IsFiniteSet(Grants)
  /\ Requests \subseteq Nat \ {0} /\ IsFiniteSet(Requests)
  /\ Days \in [Requests -> Nat \ {0}]
  /\ Overlaps \subseteq Requests \X Requests
  /\ IsFiniteSet(Managers)
  /\ GrantedDays \in [Grants -> Nat \ {0}]

VARIABLES
  granted,   \* [Grants -> Nat], the GRANT entry; 0 while there is no grant
  drawn,     \* [Grants -> Nat], its CONSUMPTION entries, as days taken
  lapsed,    \* [Grants -> Nat], its EXPIRY entry; 0 while there is none
  expired,   \* [Grants -> BOOLEAN], expires_at <= now
  status,    \* [Requests -> Statuses], ABSENT before it is created
  spent,     \* [Requests -> Nat], the CONSUMPTION entries of the request
  events,    \* the outbox: <<request, "submitted" or "decided">>
  call,      \* [Requests -> Calls], the employee's call about the request
  at,        \* [Managers -> Places], where the manager's decideRequest is
  request,   \* [Managers -> Requests or 0], the request it decides
  verdict,   \* [Managers -> Verdicts]
  plan,      \* [Managers -> [Grants -> Nat]], computed, not yet committed
  lapses,    \* [Processes -> [Grants -> Nat]], remainders a tick has read
  late       \* history: <<g, h>>, g was in use when the older h was committed

ledgerVars == <<granted, drawn, lapsed, expired>>
requestVars == <<status, spent, events>>
reviewVars == <<at, request, verdict, plan>>
vars == <<ledgerVars, requestVars, call, reviewVars, lapses, late>>

Verdicts == {"NONE", "APPROVED", "REJECTED"}  \* RETURNED_FOR_CHANGES is as REJECTED
Decided  == {"APPROVED", "REJECTED"}
Statuses == {"ABSENT", "PENDING", "WITHDRAWN"} \cup Decided
Calls    == {"none", "balance", "create", "announce", "withdraw"}
Places   == {"idle", "plan", "consume", "decide", "announce"}

NoDays == [g \in Grants |-> 0]

Init ==
  /\ granted = NoDays
  /\ drawn = NoDays
  /\ lapsed = NoDays
  /\ expired = [g \in Grants |-> FALSE]
  /\ status = [r \in Requests |-> "ABSENT"]
  /\ spent = [r \in Requests |-> 0]
  /\ events = {}
  /\ call = [r \in Requests |-> "none"]
  /\ at = [m \in Managers |-> "idle"]
  /\ request = [m \in Managers |-> 0]
  /\ verdict = [m \in Managers |-> "NONE"]
  /\ plan = [m \in Managers |-> NoDays]
  /\ lapses = [p \in Processes |-> NoDays]
  /\ late = {}

-----------------------------------------------------------------------------
(* The ledger *)

Larger(a, b) == IF a >= b THEN a ELSE b
Smaller(a, b) == IF a <= b THEN a ELSE b

\* Mutant: a grant's remaining days are its granted_days column.
RemainingAsGranted(g) == granted[g] - lapsed[g]

\* The sum of a grant's ledger entries; concurrent entries can make it negative.
Remaining(g) == granted[g] - drawn[g] - lapsed[g]

\* Grants of computeBalance and consumeForRequest: expires_at > asOf.
Live == {g \in Grants : granted[g] > 0 /\ ~expired[g]}

\* What one grant contributes: an overdrawn grant counts as empty.
Available(g) == IF g \in Live THEN Larger(0, Remaining(g)) ELSE 0

TotalRemaining == MapThenSumSet(Available, Grants)

Newer(g) == {h \in Grants : h > g}

Older(g) == {h \in Grants : h < g}

\* Mutant: the days still to be taken are not reduced by what was taken.
PlansNotReduced(n) ==
  {p \in [Grants -> 0..n] :
     /\ \A g \in Grants : p[g] = Smaller(Available(g), n)
     /\ MapThenSumSet(LAMBDA g : p[g], Grants) >= n}

\* planConsumption, as the set of its results: the plan in which each grant, the
\* oldest first, gives the least of what it has and what is still to be taken,
\* or no plan (insufficient_balance) when they cannot give n days together.
Plans(n) ==
  {p \in [Grants -> 0..n] :
     /\ \A g \in Grants :
          LET taken == MapThenSumSet(LAMBDA h : p[h], Older(g))
          IN  p[g] = Smaller(Available(g), n - taken)
     /\ MapThenSumSet(LAMBDA g : p[g], Grants) = n}

\* Days of g have been taken, or a decision in progress is about to take some.
InUse(g) == drawn[g] > 0 \/ \E m \in Managers : plan[m][g] > 0

\* createGrant commits the grant and its GRANT entry.  granted_at was read before
\* the transaction, so grants are committed in any order.
CreateGrant(g) ==
  /\ granted[g] = 0
  /\ granted' = [granted EXCEPT ![g] = GrantedDays[g]]
  /\ late' = late \cup {<<h, g>> : h \in {k \in Newer(g) : InUse(k)}}
  /\ UNCHANGED <<drawn, lapsed, expired, requestVars, call, reviewVars, lapses>>

\* Two years pass.  No order among the grants is relied on: a grant may be committed
\* late, and two calendar years are as long or a day shorter around February 29.
Expires(g) ==
  /\ g \in Live
  /\ expired' = [expired EXCEPT ![g] = TRUE]
  /\ UNCHANGED <<granted, drawn, lapsed, requestVars, call, reviewVars, lapses, late>>

-----------------------------------------------------------------------------
(* The employee's calls: createRequest and withdrawRequest *)

\* hasOverlappingRequest found no PENDING or APPROVED request in the range.
CheckOverlap(r) ==
  /\ status[r] = "ABSENT"
  /\ call[r] = "none"
  /\ \A s \in Requests :
       <<r, s>> \in Overlaps => status[s] \notin {"PENDING", "APPROVED"}
  /\ call' = [call EXCEPT ![r] = "balance"]
  /\ UNCHANGED <<ledgerVars, requestVars, reviewVars, lapses, late>>

CheckBalance(r) ==
  /\ call[r] = "balance"
  /\ call' = [call EXCEPT ![r] = IF TotalRemaining < Days[r] THEN "none" ELSE "create"]
  /\ UNCHANGED <<ledgerVars, requestVars, reviewVars, lapses, late>>

CreateRequest(r) ==
  /\ call[r] = "create"
  /\ status' = [status EXCEPT ![r] = "PENDING"]
  /\ call' = [call EXCEPT ![r] = "announce"]
  /\ UNCHANGED <<ledgerVars, spent, events, reviewVars, lapses, late>>

\* OutboxWriter.record, in a transaction of its own.
AnnounceSubmitted(r) ==
  /\ call[r] = "announce"
  /\ events' = events \cup {<<r, "submitted">>}
  /\ call' = [call EXCEPT ![r] = "none"]
  /\ UNCHANGED <<ledgerVars, status, spent, reviewVars, lapses, late>>

\* withdrawRequest has read the request and found it PENDING.
ReadForWithdrawal(r) ==
  /\ status[r] = "PENDING"
  /\ call[r] = "none"
  /\ call' = [call EXCEPT ![r] = "withdraw"]
  /\ UNCHANGED <<ledgerVars, requestVars, reviewVars, lapses, late>>

\* Mutant: the schema has no leave_requests_review_consistency.
WithdrawUnchecked(r) ==
  /\ call[r] = "withdraw"
  /\ status' = [status EXCEPT ![r] = "WITHDRAWN"]
  /\ call' = [call EXCEPT ![r] = "none"]
  /\ UNCHANGED <<ledgerVars, spent, events, reviewVars, lapses, late>>

\* The update by id.  The CHECK leave_requests_review_consistency makes it fail
\* on a row that has a reviewed_at, the only thing here that looks again.
Withdraw(r) ==
  /\ call[r] = "withdraw"
  /\ status' = IF status[r] \in Decided THEN status
                                        ELSE [status EXCEPT ![r] = "WITHDRAWN"]
  /\ call' = [call EXCEPT ![r] = "none"]
  /\ UNCHANGED <<ledgerVars, spent, events, reviewVars, lapses, late>>

\* A statement of the employee's call fails, or its process dies.
AbandonCall(r) ==
  /\ call[r] # "none"
  /\ call' = [call EXCEPT ![r] = "none"]
  /\ UNCHANGED <<ledgerVars, requestVars, reviewVars, lapses, late>>

-----------------------------------------------------------------------------
(* decideRequest *)

\* Mutant: the call ends without dropping what it had computed.
EndKeepingPlan(m) ==
  /\ at' = [at EXCEPT ![m] = "idle"]
  /\ request' = [request EXCEPT ![m] = 0]
  /\ verdict' = [verdict EXCEPT ![m] = "NONE"]
  /\ UNCHANGED plan

\* decideRequest returns or throws.
EndDecision(m) ==
  /\ at' = [at EXCEPT ![m] = "idle"]
  /\ request' = [request EXCEPT ![m] = 0]
  /\ verdict' = [verdict EXCEPT ![m] = "NONE"]
  /\ plan' = [plan EXCEPT ![m] = NoDays]

\* The handler has read a PENDING request; only APPROVED consumes days.
ReadForDecision(m, r, v) ==
  /\ at[m] = "idle"
  /\ status[r] = "PENDING"
  /\ request' = [request EXCEPT ![m] = r]
  /\ verdict' = [verdict EXCEPT ![m] = v]
  /\ at' = [at EXCEPT ![m] = IF v = "APPROVED" THEN "plan" ELSE "decide"]
  /\ UNCHANGED <<ledgerVars, requestVars, call, plan, lapses, late>>

\* Mutant: the result insufficient_balance is not looked at.
PlanIgnoringResult(m) ==
  /\ at[m] = "plan"
  /\ \/ \E p \in Plans(Days[request[m]]) :
          /\ plan' = [plan EXCEPT ![m] = p]
          /\ at' = [at EXCEPT ![m] = "consume"]
     \/ /\ Plans(Days[request[m]]) = {}
        /\ at' = [at EXCEPT ![m] = "decide"]
        /\ UNCHANGED plan
  /\ UNCHANGED <<ledgerVars, requestVars, call, request, verdict, lapses, late>>

\* consumeForRequest up to its insert: asOf is now, the grants and their entries
\* are read, the plan is made.  insufficient_balance ends the call.
PlanConsumption(m) ==
  /\ at[m] = "plan"
  /\ \/ \E p \in Plans(Days[request[m]]) :
          /\ plan' = [plan EXCEPT ![m] = p]
          /\ at' = [at EXCEPT ![m] = "consume"]
          /\ UNCHANGED <<request, verdict>>
     \/ Plans(Days[request[m]]) = {} /\ EndDecision(m)
  /\ UNCHANGED <<ledgerVars, requestVars, call, lapses, late>>

\* Mutant: the event goes out with the consumption, before the status is updated.
ConsumeAnnouncing(m) ==
  /\ at[m] = "consume"
  /\ drawn' = [g \in Grants |-> drawn[g] + plan[m][g]]
  /\ spent' = [spent EXCEPT ![request[m]] = @ + Days[request[m]]]
  /\ plan' = [plan EXCEPT ![m] = NoDays]
  /\ at' = [at EXCEPT ![m] = "decide"]
  /\ events' = events \cup {<<request[m], "decided">>}
  /\ UNCHANGED <<granted, lapsed, expired, status, call, request, verdict, lapses, late>>

\* createMany commits: the plan covers exactly the requested days.
Consume(m) ==
  /\ at[m] = "consume"
  /\ drawn' = [g \in Grants |-> drawn[g] + plan[m][g]]
  /\ spent' = [spent EXCEPT ![request[m]] = @ + Days[request[m]]]
  /\ plan' = [plan EXCEPT ![m] = NoDays]
  /\ at' = [at EXCEPT ![m] = "decide"]
  /\ UNCHANGED <<granted, lapsed, expired, status, events, call, request, verdict, lapses, late>>

\* LeaveRepository.decideRequest: an update by id, whatever the status is now.
RecordDecision(m) ==
  /\ at[m] = "decide"
  /\ status' = [status EXCEPT ![request[m]] = verdict[m]]
  /\ at' = [at EXCEPT ![m] = "announce"]
  /\ UNCHANGED <<ledgerVars, spent, events, call, request, verdict, plan, lapses, late>>

\* OutboxWriter.record, in a transaction of its own.
AnnounceDecided(m) ==
  /\ at[m] = "announce"
  /\ events' = events \cup {<<request[m], "decided">>}
  /\ EndDecision(m)
  /\ UNCHANGED <<ledgerVars, status, spent, call, lapses, late>>

\* A statement of decideRequest fails, or its process dies.
AbandonDecision(m) ==
  /\ at[m] # "idle"
  /\ EndDecision(m)
  /\ UNCHANGED <<ledgerVars, requestVars, call, lapses, late>>

-----------------------------------------------------------------------------
(* The expiry job *)

\* Mutant: a grant's last remaining day is taken for none.
LapsingAboveOne(g) == expired[g] /\ lapsed[g] = 0 /\ Remaining(g) > 1

\* A candidate of findExpiringGrants.
Lapsing(g) == expired[g] /\ lapsed[g] = 0 /\ Remaining(g) > 0

\* tick, not already ticking: the candidates are read with their remainders.
FindExpiring(p) ==
  /\ lapses[p] = NoDays
  /\ \E g \in Grants : Lapsing(g)
  /\ lapses' = [lapses EXCEPT ![p] =
                  [g \in Grants |-> IF Lapsing(g) THEN Remaining(g) ELSE 0]]
  /\ UNCHANGED <<ledgerVars, requestVars, call, reviewVars, late>>

\* Mutant: the schema has no leave_ledger_entries_one_expiry_per_grant.
ExpireGrantAgain(p, g) ==
  /\ lapses[p][g] > 0
  /\ lapsed' = [lapsed EXCEPT ![g] = @ + lapses[p][g]]
  /\ lapses' = [lapses EXCEPT ![p][g] = 0]
  /\ UNCHANGED <<granted, drawn, expired, requestVars, call, reviewVars, late>>

\* expireGrant: the unique index on a grant's EXPIRY entry lets only the first
\* insert through; for the others the grant is already_expired.
ExpireGrant(p, g) ==
  /\ lapses[p][g] > 0
  /\ lapsed' = IF lapsed[g] = 0 THEN [lapsed EXCEPT ![g] = lapses[p][g]] ELSE lapsed
  /\ lapses' = [lapses EXCEPT ![p][g] = 0]
  /\ UNCHANGED <<granted, drawn, expired, requestVars, call, reviewVars, late>>

\* A statement of the tick fails, which ends it, or its process dies.
AbandonTick(p) ==
  /\ lapses[p] # NoDays
  /\ lapses' = [lapses EXCEPT ![p] = NoDays]
  /\ UNCHANGED <<ledgerVars, requestVars, call, reviewVars, late>>

-----------------------------------------------------------------------------

EmployeeStep(r) ==
  \/ CheckOverlap(r)
  \/ CheckBalance(r)
  \/ CreateRequest(r)
  \/ AnnounceSubmitted(r)
  \/ ReadForWithdrawal(r)
  \/ Withdraw(r)
  \/ AbandonCall(r)

ManagerStep(m) ==
  \/ \E r \in Requests, v \in Decided : ReadForDecision(m, r, v)
  \/ PlanConsumption(m)
  \/ Consume(m)
  \/ RecordDecision(m)
  \/ AnnounceDecided(m)
  \/ AbandonDecision(m)

Next ==
  \/ \E g \in Grants : CreateGrant(g) \/ Expires(g)
  \/ \E r \in Requests : EmployeeStep(r)
  \/ \E m \in Managers : ManagerStep(m)
  \/ \E p \in Processes : FindExpiring(p)
  \/ \E p \in Processes, g \in Grants : ExpireGrant(p, g)
  \/ \E p \in Processes : AbandonTick(p)

Spec == Init /\ [][Next]_vars

\* The minute timers keep starting ticks, in one process or another.  Ticks may fail,
\* but not for ever: an insert that is tried again and again goes through at last.
Fairness ==
  /\ WF_vars(\E p \in Processes : FindExpiring(p))
  /\ \A g \in Grants : SF_vars(\E p \in Processes : ExpireGrant(p, g))

FairSpec == Spec /\ Fairness

-----------------------------------------------------------------------------
(* Properties *)

\* Every variable keeps its type; a decision that is idle holds nothing, and one
\* that is not has a request and a verdict.
TypeOK ==
  /\ granted \in [Grants -> Nat]
  /\ drawn \in [Grants -> Nat]
  /\ lapsed \in [Grants -> Nat]
  /\ expired \in [Grants -> BOOLEAN]
  /\ status \in [Requests -> Statuses]
  /\ spent \in [Requests -> Nat]
  /\ events \subseteq Requests \X {"submitted", "decided"}
  /\ call \in [Requests -> Calls]
  /\ at \in [Managers -> Places]
  /\ request \in [Managers -> Requests \cup {0}]
  /\ verdict \in [Managers -> Verdicts]
  /\ plan \in [Managers -> [Grants -> Nat]]
  /\ lapses \in [Processes -> [Grants -> Nat]]
  /\ late \subseteq Grants \X Grants
  /\ \A m \in Managers : IF at[m] = "idle"
                           THEN request[m] = 0 /\ plan[m] = NoDays
                           ELSE request[m] \in Requests /\ verdict[m] \in Decided

\* An APPROVED request has had its days drawn from the ledger at least once,
\* whatever decisions, withdrawals and crashes it went through.
ApprovedIsPaid ==
  \A r \in Requests : status[r] = "APPROVED" => spent[r] >= Days[r]

\* Days come off a newer grant only when every older one is used up or expired,
\* though plans are made on balances that are stale when they are committed.  The
\* one exception is an older grant committed while the newer was already in use.
OldestFirst ==
  \A g \in Grants, h \in Grants :
    drawn[g] > 0 /\ h < g /\ granted[h] > 0 /\ <<g, h>> \notin late
      => expired[h] \/ Remaining(h) <= 0

\* The entries of all grants and the entries of all requests are the same days.
LedgerReconciles ==
  MapThenSumSet(LAMBDA g : drawn[g], Grants) = MapThenSumSet(LAMBDA r : spent[r], Requests)

\* n decisions in progress at once overdraw a grant n times at the most.
OverdraftBounded ==
  \A g \in Grants : drawn[g] <= Cardinality(Managers) * granted[g]

\* However many ticks overlap or are retried, a grant loses no more days to its
\* expiry than it was granted.
LapsedWithinGrant == \A g \in Grants : lapsed[g] <= granted[g]

\* A withdrawal or a creation that read the request before a decision was recorded
\* never undoes the decision: decided requests stay decided, one way or the other.
DecisionsStand ==
  [][\A r \in Requests : status[r] \in Decided => status'[r] \in Decided]_vars

\* The outbox, written in transactions of its own, never tells of a submission or a
\* decision that did not happen or no longer holds.
EventsAreTrue ==
  \A r \in Requests :
    /\ <<r, "submitted">> \in events => status[r] # "ABSENT"
    /\ <<r, "decided">> \in events => status[r] \in Decided

\* The unused days of an expired grant are written off in the end.
UnusedDaysLapse ==
  \A g \in Grants : expired[g] /\ Remaining(g) > 0 ~> Remaining(g) <= 0

(* What the code's own comments and messages say *)

\* leave.repository.ts: "a concurrent consumption against the same grants can
\* never double-spend them".
NeverDoubleSpent == \A g \in Grants : drawn[g] <= granted[g]
=============================================================================
