--------------------------- MODULE LeaveLedgerProofs ---------------------------
(***************************************************************************)
(* Proofs about LeaveLedger for any grants, requests, managers and         *)
(* processes.                                                              *)
(***************************************************************************)
EXTENDS LeaveLedger, SumProofs, TLAPS

\* A decision about to be recorded as APPROVED has consumed the days.
DecisionIsPaid ==
  \A m \in Managers :
    at[m] = "decide" /\ verdict[m] = "APPROVED" => spent[request[m]] >= Days[request[m]]

PaidInv == ApprovedIsPaid /\ DecisionIsPaid

\* The remainders that ticks have read are no more than what was granted.
LapsesWithinGrant ==
  \A p \in Processes, g \in Grants : lapses[p][g] <= granted[g]

LapseInv == LapsedWithinGrant /\ LapsesWithinGrant

\* A plan gives the days of its request, and there is none once it is committed.
PlansCover ==
  \A m \in Managers :
    IF at[m] = "consume" THEN Sum(plan[m], Grants) = Days[request[m]]
                         ELSE plan[m] = NoDays

LedgerInv == Sum(drawn, Grants) = Sum(spent, Requests) /\ PlansCover

\* What the managers plan to take from a grant.
Planned(g) == [m \in Managers |-> plan[m][g]]

\* Each plan was within the grant when it was made, and those still to be committed
\* count against the overdraft.
OverdraftInv ==
  \A g \in Grants :
    /\ \A m \in Managers : plan[m][g] <= granted[g]
    /\ drawn[g] + Sum(Planned(g), Managers) <= Cardinality(Managers) * granted[g]

\* A plan that takes from a grant takes all that is left of the older ones that it knew.
PlansInOrder ==
  \A m \in Managers, g \in Grants, h \in Grants :
    plan[m][g] > 0 /\ h < g /\ granted[h] > 0 /\ <<g, h>> \notin late
      => expired[h] \/ Remaining(h) <= plan[m][h]

OrderInv == OldestFirst /\ PlansInOrder

-----------------------------------------------------------------------------
(* Type correctness *)

\* A plan takes from each grant a number of days that it has.
LEMMA PlanWithinAvailable ==
  ASSUME TypeOK, NEW n \in Nat, NEW p \in Plans(n), NEW g \in Grants
  PROVE  p \in [Grants -> Nat] /\ p[g] <= Available(g) /\ Available(g) \in Nat
<1>1. Available(g) \in Nat
  BY DEF TypeOK, Available, Larger, Remaining
<1>2. p \in [Grants -> 0..n]
  BY DEF Plans
<1>3. \E t : p[g] = Smaller(Available(g), t)
  <2>1. \A h \in Grants :
          LET taken == MapThenSumSet(LAMBDA k : p[k], Older(h))
          IN  p[h] = Smaller(Available(h), n - taken)
    BY DEF Plans
  <2> QED
    BY <2>1
<1>4. p[g] \in Nat /\ p \in [Grants -> Nat]
  BY <1>2
<1> QED
  BY <1>1, <1>3, <1>4 DEF Smaller

\* Init establishes the types.
LEMMA TypeOKInit == Init => TypeOK
BY LeaveAssumption DEF Init, TypeOK, NoDays, Statuses, Decided, Calls, Places, Verdicts

\* A committed consumption adds the days of its request and takes none from others.
LEMMA ConsumeSpends ==
  ASSUME TypeOK, NEW m \in Managers, Consume(m)
  PROVE  /\ spent' \in [Requests -> Nat]
         /\ \A r \in Requests : spent'[r] >= spent[r]
         /\ spent'[request[m]] >= Days[request[m]]
<1>1. request[m] \in Requests
  BY DEF TypeOK, Consume
<1>2. Days[request[m]] \in Nat /\ spent[request[m]] \in Nat
  BY <1>1, LeaveAssumption DEF TypeOK
<1>3. spent' = [spent EXCEPT ![request[m]] = spent[request[m]] + Days[request[m]]]
  BY DEF Consume
<1>4. spent \in [Requests -> Nat]
  BY DEF TypeOK
<1>5. spent[request[m]] + Days[request[m]] \in Nat
  BY <1>2
<1>6. spent' \in [Requests -> Nat]
  BY <1>3, <1>4, <1>5
<1>7. spent'[request[m]] = spent[request[m]] + Days[request[m]]
  BY <1>1, <1>3, <1>4
<1>8. ASSUME NEW r \in Requests PROVE spent'[r] >= spent[r]
  <2>1. CASE r = request[m]
    BY <1>2, <1>7, <2>1
  <2>2. CASE r # request[m]
    BY <1>3, <1>4, <2>2
  <2> QED
    BY <2>1, <2>2
<1> QED
  BY <1>2, <1>6, <1>7, <1>8

\* A new grant has its days, and takes nothing from the others.
LEMMA GrantCreated ==
  ASSUME TypeOK, NEW k \in Grants, CreateGrant(k)
  PROVE  /\ granted' \in [Grants -> Nat] /\ late' \subseteq Grants \X Grants
         /\ \A g \in Grants : granted[g] \in Nat /\ granted'[g] \in Nat
                              /\ granted'[g] >= granted[g]
         /\ \A g \in Grants \ {k} : granted'[g] = granted[g]
         /\ \A g \in Newer(k) : InUse(g) => <<g, k>> \in late'
         /\ late \subseteq late'
         /\ UNCHANGED <<drawn, lapsed, expired, status, spent, events, call,
                       at, request, verdict, plan, lapses>>
<1>1. GrantedDays[k] \in Nat
  BY LeaveAssumption
<1>2. /\ granted \in [Grants -> Nat] /\ late \subseteq Grants \X Grants
      /\ granted[k] = 0
      /\ granted' = [granted EXCEPT ![k] = GrantedDays[k]]
      /\ late' = late \cup {<<h, k>> : h \in {g \in Newer(k) : InUse(g)}}
      /\ UNCHANGED <<drawn, lapsed, expired, status, spent, events, call,
                    at, request, verdict, plan, lapses>>
  BY DEF TypeOK, CreateGrant, requestVars, reviewVars
<1>3. /\ granted' \in [Grants -> Nat]
      /\ granted'[k] = GrantedDays[k]
      /\ \A g \in Grants \ {k} : granted'[g] = granted[g]
  BY <1>1, <1>2
<1>4. \A g \in Grants : granted[g] \in Nat /\ granted'[g] \in Nat
                         /\ granted'[g] >= granted[g]
  BY <1>1, <1>2, <1>3
<1>5. {<<h, k>> : h \in {g \in Newer(k) : InUse(g)}} \subseteq Grants \X Grants
  BY DEF Newer
<1>6. late' \subseteq Grants \X Grants /\ late \subseteq late'
  BY <1>2, <1>5
<1>7. ASSUME NEW g \in Newer(k), InUse(g) PROVE <<g, k>> \in late'
  BY <1>2, <1>7
<1> QED
  BY <1>2, <1>3, <1>4, <1>6, <1>7

\* Every step keeps the types.
LEMMA TypeOKStep == TypeOK /\ [Next]_vars => TypeOK'
<1> SUFFICES ASSUME TypeOK, [Next]_vars PROVE TypeOK'
  OBVIOUS
<1> USE LeaveAssumption
    DEF TypeOK, NoDays, Statuses, Decided, Calls, Places, Verdicts,
        ledgerVars, requestVars, reviewVars
<1>1. ASSUME NEW g \in Grants, CreateGrant(g) PROVE TypeOK'
  <2>1. /\ granted' \in [Grants -> Nat] /\ late' \subseteq Grants \X Grants
        /\ UNCHANGED <<drawn, lapsed, expired, status, spent, events, call,
                      at, request, verdict, plan, lapses>>
    BY <1>1, GrantCreated
  <2> QED
    BY <2>1
<1>2. ASSUME NEW g \in Grants, Expires(g) PROVE TypeOK'
  BY <1>2 DEF Expires
<1>3. ASSUME NEW r \in Requests, EmployeeStep(r) PROVE TypeOK'
  <2>1. CASE CheckOverlap(r)
    BY <2>1 DEF CheckOverlap
  <2>2. CASE CheckBalance(r)
    BY <2>2 DEF CheckBalance
  <2>3. CASE CreateRequest(r)
    BY <2>3 DEF CreateRequest
  <2>4. CASE AnnounceSubmitted(r)
    BY <2>4 DEF AnnounceSubmitted
  <2>5. CASE ReadForWithdrawal(r)
    BY <2>5 DEF ReadForWithdrawal
  <2>6. CASE Withdraw(r)
    BY <2>6 DEF Withdraw
  <2>7. CASE AbandonCall(r)
    BY <2>7 DEF AbandonCall
  <2> QED
    BY <1>3, <2>1, <2>2, <2>3, <2>4, <2>5, <2>6, <2>7 DEF EmployeeStep
<1>4. ASSUME NEW m \in Managers, ManagerStep(m) PROVE TypeOK'
  <2>1. ASSUME NEW r \in Requests, NEW v \in Decided, ReadForDecision(m, r, v)
        PROVE  TypeOK'
    BY <2>1 DEF ReadForDecision
  <2>2. CASE PlanConsumption(m)
    <3>1. ASSUME NEW p \in Plans(Days[request[m]]), at[m] = "plan",
                 plan' = [plan EXCEPT ![m] = p],
                 at' = [at EXCEPT ![m] = "consume"],
                 UNCHANGED <<request, verdict>>
          PROVE  TypeOK'
      <4>1. p \in [Grants -> 0..Days[request[m]]]
        BY DEF Plans
      <4>2. p \in [Grants -> Nat]
        BY <3>1, <4>1
      <4> QED
        BY <2>2, <3>1, <4>2 DEF PlanConsumption
    <3>2. CASE EndDecision(m)
      BY <2>2, <3>2 DEF PlanConsumption, EndDecision
    <3> QED
      BY <2>2, <3>1, <3>2 DEF PlanConsumption
  <2>3. CASE Consume(m)
    <3>1. \A g \in Grants : drawn[g] + plan[m][g] \in Nat
      OBVIOUS
    <3>2. drawn' \in [Grants -> Nat]
      BY <2>3, <3>1 DEF Consume
    <3>3. request[m] \in Requests /\ Days[request[m]] \in Nat
      BY <2>3 DEF Consume
    <3>4. spent' \in [Requests -> Nat]
      BY <3>3, ConsumeSpends, <2>3
    <3>5. /\ at' \in [Managers -> Places]
          /\ plan' \in [Managers -> [Grants -> Nat]]
          /\ UNCHANGED <<granted, lapsed, expired, status, events, call, request,
                         verdict, lapses, late>>
      BY <2>3 DEF Consume
    <3>6. ASSUME NEW k \in Managers
          PROVE  IF at'[k] = "idle"
                   THEN request'[k] = 0 /\ plan'[k] = NoDays
                   ELSE request'[k] \in Requests /\ verdict'[k] \in Decided
      BY <2>3 DEF Consume
    <3> QED
      BY <3>2, <3>4, <3>5, <3>6
  <2>4. CASE RecordDecision(m)
    BY <2>4 DEF RecordDecision
  <2>5. CASE AnnounceDecided(m)
    <3>1. request[m] \in Requests
      BY <2>5 DEF AnnounceDecided
    <3>2. events' \subseteq Requests \X {"submitted", "decided"}
      BY <2>5, <3>1 DEF AnnounceDecided
    <3> QED
      BY <2>5, <3>2 DEF AnnounceDecided, EndDecision
  <2>6. CASE AbandonDecision(m)
    BY <2>6 DEF AbandonDecision, EndDecision
  <2> QED
    BY <1>4, <2>1, <2>2, <2>3, <2>4, <2>5, <2>6 DEF ManagerStep
<1>5. ASSUME NEW p \in Processes, FindExpiring(p) PROVE TypeOK'
  <2>1. \A g \in Grants : (IF Lapsing(g) THEN Remaining(g) ELSE 0) \in Nat
    BY DEF Lapsing, Remaining
  <2> QED
    BY <1>5, <2>1 DEF FindExpiring
<1>6. ASSUME NEW p \in Processes, NEW g \in Grants, ExpireGrant(p, g) PROVE TypeOK'
  BY <1>6 DEF ExpireGrant
<1>7. ASSUME NEW p \in Processes, AbandonTick(p) PROVE TypeOK'
  BY <1>7 DEF AbandonTick
<1>8. CASE UNCHANGED vars
  BY <1>8 DEF vars
<1> QED
  BY <1>1, <1>2, <1>3, <1>4, <1>5, <1>6, <1>7, <1>8 DEF Next

\* Every reachable state is well typed.
THEOREM LeaveTypeCorrect == Spec => []TypeOK
BY TypeOKInit, TypeOKStep, PTL DEF Spec

-----------------------------------------------------------------------------
(* Approved requests are paid *)

\* Nothing is approved at first.
LEMMA PaidInit == Init => PaidInv
BY DEF Init, PaidInv, ApprovedIsPaid, DecisionIsPaid

\* Every step keeps approved requests paid, and pays before it approves.
LEMMA PaidStep == TypeOK /\ PaidInv /\ [Next]_vars => PaidInv'
<1> SUFFICES ASSUME TypeOK, PaidInv, [Next]_vars PROVE PaidInv'
  OBVIOUS
<1> USE LeaveAssumption
    DEF TypeOK, PaidInv, ApprovedIsPaid, DecisionIsPaid, Decided, Verdicts,
        ledgerVars, requestVars, reviewVars
<1>1. CASE UNCHANGED <<status, spent, reviewVars>>
  BY <1>1
<1>2. ASSUME NEW g \in Grants, CreateGrant(g) PROVE PaidInv'
  BY <1>1, <1>2 DEF CreateGrant
<1>3. ASSUME NEW g \in Grants, Expires(g) PROVE PaidInv'
  BY <1>1, <1>3 DEF Expires
<1>4. ASSUME NEW r \in Requests, EmployeeStep(r) PROVE PaidInv'
  <2>1. UNCHANGED <<spent, reviewVars>>
    BY <1>4 DEF EmployeeStep, CheckOverlap, CheckBalance, CreateRequest,
       AnnounceSubmitted, ReadForWithdrawal, Withdraw, AbandonCall
  <2>2. \A s \in Requests : status'[s] = "APPROVED" => status[s] = "APPROVED"
    BY <1>4 DEF EmployeeStep, CheckOverlap, CheckBalance, CreateRequest,
       AnnounceSubmitted, ReadForWithdrawal, Withdraw, AbandonCall
  <2> QED
    BY <2>1, <2>2
<1>5. ASSUME NEW m \in Managers, ManagerStep(m) PROVE PaidInv'
  <2>1. ASSUME NEW r \in Requests, NEW v \in Decided, ReadForDecision(m, r, v)
        PROVE  PaidInv'
    BY <2>1 DEF ReadForDecision
  <2>2. CASE PlanConsumption(m)
    BY <2>2 DEF PlanConsumption, EndDecision
  <2>3. CASE Consume(m)
    <3>1. request[m] \in Requests /\ Days[request[m]] \in Nat
      BY <2>3 DEF Consume
    <3>2. /\ \A r \in Requests : spent'[r] >= spent[r]
          /\ spent'[request[m]] >= Days[request[m]]
      BY <2>3, ConsumeSpends
    <3>3. ASSUME NEW r \in Requests, status'[r] = "APPROVED" PROVE spent'[r] >= Days[r]
      <4>1. status[r] = "APPROVED"
        BY <2>3, <3>3 DEF Consume
      <4>2. spent[r] \in Nat /\ spent'[r] \in Int /\ Days[r] \in Nat
        BY <2>3, <3>1 DEF Consume
      <4>3. spent[r] >= Days[r] /\ spent'[r] >= spent[r]
        BY <3>2, <4>1
      <4> QED
        BY <4>2, <4>3
    <3>4. ASSUME NEW n \in Managers, at'[n] = "decide", verdict'[n] = "APPROVED"
          PROVE  spent'[request'[n]] >= Days[request'[n]]
      <4>1. CASE n = m
        BY <2>3, <3>2, <4>1 DEF Consume
      <4>2. CASE n # m
        <5>1. at[n] = "decide" /\ verdict[n] = "APPROVED" /\ request'[n] = request[n]
          BY <2>3, <3>4, <4>2 DEF Consume
        <5>2. request[n] \in Requests
          BY <5>1
        <5> QED
          BY <2>3, <3>2, <5>1, <5>2 DEF Consume
      <4> QED
        BY <4>1, <4>2
    <3> QED
      BY <3>3, <3>4
  <2>4. CASE RecordDecision(m)
    BY <2>4 DEF RecordDecision
  <2>5. CASE AnnounceDecided(m)
    BY <2>5 DEF AnnounceDecided, EndDecision
  <2>6. CASE AbandonDecision(m)
    BY <2>6 DEF AbandonDecision, EndDecision
  <2> QED
    BY <1>5, <2>1, <2>2, <2>3, <2>4, <2>5, <2>6 DEF ManagerStep
<1>6. ASSUME NEW p \in Processes, FindExpiring(p) PROVE PaidInv'
  BY <1>1, <1>6 DEF FindExpiring
<1>7. ASSUME NEW p \in Processes, NEW g \in Grants, ExpireGrant(p, g) PROVE PaidInv'
  BY <1>1, <1>7 DEF ExpireGrant
<1>8. ASSUME NEW p \in Processes, AbandonTick(p) PROVE PaidInv'
  BY <1>1, <1>8 DEF AbandonTick
<1>9. CASE UNCHANGED vars
  BY <1>1, <1>9 DEF vars
<1> QED
  BY <1>2, <1>3, <1>4, <1>5, <1>6, <1>7, <1>8, <1>9 DEF Next

\* No interleaving of decisions, withdrawals, crashes and expiries leaves a request
\* APPROVED whose days were never taken from the ledger.
THEOREM LeaveApprovedIsPaid == Spec => []ApprovedIsPaid
<1>1. PaidInv => ApprovedIsPaid
  BY DEF PaidInv
<1> QED
  BY <1>1, PaidInit, PaidStep, LeaveTypeCorrect, PTL DEF Spec

-----------------------------------------------------------------------------
(* Decisions and the events about them *)

\* A call that is about to create a request finds it absent.
CreatesAbsent ==
  \A r \in Requests : call[r] \in {"balance", "create"} => status[r] = "ABSENT"

\* Only created requests are reviewed.
ReviewsCreated ==
  \A m \in Managers : at[m] # "idle" => status[request[m]] # "ABSENT"

\* A call about to announce has changed the row.
AnnouncesTrue ==
  /\ \A r \in Requests : call[r] = "announce" => status[r] # "ABSENT"
  /\ \A m \in Managers : at[m] = "announce" => status[request[m]] \in Decided

EventInv == CreatesAbsent /\ ReviewsCreated /\ AnnouncesTrue /\ EventsAreTrue

\* A recorded request never becomes absent and a decided one stays decided.
LEMMA DecidedStep ==
  ASSUME TypeOK, CreatesAbsent, [Next]_vars, NEW r \in Requests
  PROVE  /\ status[r] # "ABSENT" => status'[r] # "ABSENT"
         /\ status[r] \in Decided => status'[r] \in Decided
<1> USE DEF TypeOK, CreatesAbsent, Decided, Verdicts, ledgerVars, requestVars, reviewVars
<1>1. ASSUME NEW s \in Requests, EmployeeStep(s)
      PROVE  /\ status[r] # "ABSENT" => status'[r] # "ABSENT"
             /\ status[r] \in Decided => status'[r] \in Decided
  BY <1>1 DEF EmployeeStep, CheckOverlap, CheckBalance, CreateRequest,
     AnnounceSubmitted, ReadForWithdrawal, Withdraw, AbandonCall
<1>2. ASSUME NEW m \in Managers, ManagerStep(m)
      PROVE  /\ status[r] # "ABSENT" => status'[r] # "ABSENT"
             /\ status[r] \in Decided => status'[r] \in Decided
  BY <1>2 DEF ManagerStep, ReadForDecision, PlanConsumption, Consume,
     RecordDecision, AnnounceDecided, AbandonDecision
<1> QED
  BY <1>1, <1>2 DEF Next, vars, CreateGrant, Expires, FindExpiring, ExpireGrant,
     AbandonTick

\* Every step keeps the calls and the outbox true to the rows.
LEMMA EventStep == TypeOK /\ EventInv /\ [Next]_vars => EventInv'
<1> SUFFICES ASSUME TypeOK, EventInv, [Next]_vars PROVE EventInv'
  OBVIOUS
<1>1. ASSUME NEW r \in Requests
      PROVE  /\ status[r] # "ABSENT" => status'[r] # "ABSENT"
             /\ status[r] \in Decided => status'[r] \in Decided
  BY DecidedStep DEF EventInv
<1> USE DEF TypeOK, EventInv, CreatesAbsent, ReviewsCreated, AnnouncesTrue, EventsAreTrue, Decided,
            Verdicts, ledgerVars, requestVars, reviewVars
<1>2. CASE UNCHANGED <<status, events, call, reviewVars>>
  BY <1>2
<1>3. ASSUME NEW r \in Requests, EmployeeStep(r) PROVE EventInv'
  <2>1. CASE CheckOverlap(r)
    BY <2>1 DEF CheckOverlap
  <2>2. CASE CheckBalance(r)
    BY <2>2 DEF CheckBalance
  <2>3. CASE CreateRequest(r)
    BY <1>1, <2>3 DEF CreateRequest
  <2>4. CASE AnnounceSubmitted(r)
    BY <2>4 DEF AnnounceSubmitted
  <2>5. CASE ReadForWithdrawal(r)
    BY <2>5 DEF ReadForWithdrawal
  <2>6. CASE Withdraw(r)
    BY <1>1, <2>6 DEF Withdraw
  <2>7. CASE AbandonCall(r)
    BY <2>7 DEF AbandonCall
  <2> QED
    BY <1>3, <2>1, <2>2, <2>3, <2>4, <2>5, <2>6, <2>7 DEF EmployeeStep
<1>4. ASSUME NEW m \in Managers, ManagerStep(m) PROVE EventInv'
  <2>1. CASE \E r \in Requests, v \in Decided : ReadForDecision(m, r, v)
    BY <2>1 DEF ReadForDecision
  <2>2. CASE PlanConsumption(m)
    <3>1. UNCHANGED <<status, events, call>>
      BY <2>2 DEF PlanConsumption
    <3>2. \A k \in Managers :
            at'[k] # "idle" => /\ at[k] # "idle"
                               /\ request'[k] = request[k]
                               /\ at'[k] = "announce" => at[k] = "announce"
      BY <2>2 DEF PlanConsumption, EndDecision
    <3> QED
      BY <3>1, <3>2
  <2>3. CASE Consume(m)
    BY <2>3 DEF Consume
  <2>4. CASE RecordDecision(m)
    <3>1. /\ request[m] \in Requests /\ verdict[m] \in Decided
          /\ status[request[m]] # "ABSENT"
      BY <2>4 DEF RecordDecision
    <3>2. CreatesAbsent' /\ EventsAreTrue'
      BY <1>1, <2>4, <3>1 DEF RecordDecision
    <3>3. ReviewsCreated' /\ AnnouncesTrue'
      BY <1>1, <2>4, <3>1 DEF RecordDecision
    <3> QED
      BY <3>2, <3>3
  <2>5. CASE AnnounceDecided(m)
    BY <2>5 DEF AnnounceDecided, EndDecision
  <2>6. CASE AbandonDecision(m)
    BY <2>6 DEF AbandonDecision, EndDecision
  <2> QED
    BY <1>4, <2>1, <2>2, <2>3, <2>4, <2>5, <2>6 DEF ManagerStep
<1> QED
  BY <1>2, <1>3, <1>4
     DEF Next, vars, CreateGrant, Expires, FindExpiring, ExpireGrant, AbandonTick

\* The calls and the outbox are true to the rows in every reachable state.
LEMMA EventInvariant == Spec => [](TypeOK /\ EventInv)
<1>1. Init => EventInv
  BY DEF Init, EventInv, CreatesAbsent, ReviewsCreated, AnnouncesTrue, EventsAreTrue
<1> QED
  BY <1>1, EventStep, LeaveTypeCorrect, PTL DEF Spec

\* A decided request stays decided, however late a withdrawal or a creation arrives
\* that read it before.
THEOREM LeaveDecisionsStand == Spec => DecisionsStand
<1> DEFINE Stands(r) == status[r] \in Decided => status'[r] \in Decided
<1>1. TypeOK /\ EventInv /\ [Next]_vars => [\A r \in Requests : Stands(r)]_vars
  BY DecidedStep DEF EventInv
<1> QED
  BY <1>1, EventInvariant, PTL DEF Spec, DecisionsStand

\* The outbox never tells of a submission or a decision that does not hold.
THEOREM LeaveEventsAreTrue == Spec => []EventsAreTrue
<1>1. EventInv => EventsAreTrue
  BY DEF EventInv
<1> QED
  BY <1>1, EventInvariant, PTL

-----------------------------------------------------------------------------
(* Expiry *)

\* Every step keeps what lapses, and what a tick is about to write, within the grant.
LEMMA LapseStep == TypeOK /\ LapseInv /\ [Next]_vars => LapseInv'
<1> SUFFICES ASSUME TypeOK, LapseInv, [Next]_vars PROVE LapseInv'
  OBVIOUS
<1> USE DEF TypeOK, LapseInv, LapsedWithinGrant, LapsesWithinGrant, NoDays,
            ledgerVars, requestVars, reviewVars
<1>1. CASE UNCHANGED <<granted, lapsed, lapses>>
  BY <1>1
<1>2. ASSUME NEW g \in Grants, CreateGrant(g) PROVE LapseInv'
  <2>1. /\ \A h \in Grants : granted'[h] \in Nat /\ granted'[h] >= granted[h]
        /\ UNCHANGED <<lapsed, lapses>>
    BY <1>2, GrantCreated
  <2> QED
    BY <2>1
<1>3. ASSUME NEW g \in Grants, Expires(g) PROVE LapseInv'
  BY <1>1, <1>3 DEF Expires
<1>4. ASSUME NEW r \in Requests, EmployeeStep(r) PROVE LapseInv'
  BY <1>1, <1>4 DEF EmployeeStep, CheckOverlap, CheckBalance, CreateRequest,
     AnnounceSubmitted, ReadForWithdrawal, Withdraw, AbandonCall
<1>5. ASSUME NEW m \in Managers, ManagerStep(m) PROVE LapseInv'
  BY <1>1, <1>5 DEF ManagerStep, ReadForDecision, PlanConsumption, Consume,
     RecordDecision, AnnounceDecided, AbandonDecision
<1>6. ASSUME NEW p \in Processes, FindExpiring(p) PROVE LapseInv'
  <2>1. \A g \in Grants : (IF Lapsing(g) THEN Remaining(g) ELSE 0) <= granted[g]
    BY DEF Lapsing, Remaining
  <2> QED
    BY <1>6, <2>1 DEF FindExpiring
<1>7. ASSUME NEW p \in Processes, NEW g \in Grants, ExpireGrant(p, g) PROVE LapseInv'
  BY <1>7 DEF ExpireGrant
<1>8. ASSUME NEW p \in Processes, AbandonTick(p) PROVE LapseInv'
  BY <1>8 DEF AbandonTick
<1>9. CASE UNCHANGED vars
  BY <1>1, <1>9 DEF vars
<1> QED
  BY <1>2, <1>3, <1>4, <1>5, <1>6, <1>7, <1>8, <1>9 DEF Next

\* Overlapping and retried ticks never write off more of a grant than was granted.
THEOREM LeaveLapsedWithinGrant == Spec => []LapsedWithinGrant
<1>1. Init => LapseInv
  BY DEF Init, LapseInv, LapsedWithinGrant, LapsesWithinGrant, NoDays
<1>2. LapseInv => LapsedWithinGrant
  BY DEF LapseInv
<1> QED
  BY <1>1, <1>2, LapseStep, LeaveTypeCorrect, PTL DEF Spec

-----------------------------------------------------------------------------
(* The sums of the ledger *)

\* The plans that planConsumption returns give the requested days together.
LEMMA PlanGives ==
  ASSUME TypeOK, NEW n \in Nat, NEW p \in Plans(n)
  PROVE  p \in [Grants -> Nat] /\ Sum(p, Grants) = n
<1>1. p \in [Grants -> 0..n] /\ MapThenSumSet(LAMBDA g : p[g], Grants) = n
  BY DEF Plans
<1>2. p \in [Grants -> Nat]
  BY <1>1
<1> QED
  BY <1>1, <1>2 DEF Sum

\* A commit adds the same days to the grants and to the requests.
LEMMA ConsumeReconciles ==
  ASSUME TypeOK, LedgerInv, NEW m \in Managers, Consume(m)
  PROVE  (Sum(drawn, Grants) = Sum(spent, Requests))'
<1> DEFINE r == request[m]
<1>1. /\ r \in Requests /\ Days[r] \in Nat
      /\ IsFiniteSet(Grants) /\ IsFiniteSet(Requests)
      /\ Sum(plan[m], Grants) = Days[r]
  BY LeaveAssumption DEF TypeOK, Consume, LedgerInv, PlansCover
<1>2. Sum(drawn, Grants) = Sum(spent, Requests)
  BY DEF LedgerInv
<1>3. \A g \in Grants : /\ drawn[g] \in Nat /\ plan[m][g] \in Nat
                         /\ drawn'[g] = drawn[g] + plan[m][g]
  BY DEF TypeOK, Consume
<1>4. Sum(drawn', Grants) = Sum(drawn, Grants) + Sum(plan[m], Grants)
  <2> HIDE DEF r
  <2> QED
    BY <1>1, <1>3, SumAdd
<1>5. /\ \A q \in Requests : spent[q] \in Nat /\ spent'[q] \in Nat
      /\ spent'[r] = spent[r] + Days[r]
      /\ \A q \in Requests \ {r} : spent'[q] = spent[q]
  <2>1. spent \in [Requests -> Nat] /\ spent' = [spent EXCEPT ![r] = spent[r] + Days[r]]
    BY DEF TypeOK, Consume
  <2>2. spent[r] + Days[r] \in Nat
    BY <1>1, <2>1
  <2> QED
    BY <1>1, <2>1, <2>2
<1>6. IsFiniteSet(Requests \ {r})
  BY <1>1, FS_RemoveElement
<1> HIDE DEF r
<1>7. Sum(spent, Requests) = spent[r] + Sum(spent, Requests \ {r})
  BY <1>1, <1>5, SumSplit
<1>8. Sum(spent', Requests) = spent'[r] + Sum(spent', Requests \ {r})
  BY <1>1, <1>5, SumSplit
<1>9. Sum(spent', Requests \ {r}) = Sum(spent, Requests \ {r})
  BY <1>5, <1>6, SumEqual
<1>10. Sum(spent, Requests \ {r}) \in Nat
  BY <1>5, <1>6, SumType
<1> QED
  BY <1>1, <1>2, <1>4, <1>5, <1>7, <1>8, <1>9, <1>10

\* Every step keeps the two sides of the ledger equal and the plans complete.
LEMMA LedgerStep == TypeOK /\ LedgerInv /\ [Next]_vars => LedgerInv'
<1> SUFFICES ASSUME TypeOK, LedgerInv, [Next]_vars PROVE LedgerInv'
  OBVIOUS
<1>1. CASE UNCHANGED <<drawn, spent, reviewVars>>
  BY <1>1 DEF LedgerInv, PlansCover, reviewVars
<1>2. ASSUME NEW m \in Managers, ManagerStep(m) PROVE LedgerInv'
  <2> USE DEF TypeOK, PlansCover
  <2>1. ASSUME UNCHANGED <<drawn, spent>>, PlansCover' PROVE LedgerInv'
    BY <2>1 DEF LedgerInv
  <2>2. ASSUME NEW r \in Requests, NEW v \in Decided, ReadForDecision(m, r, v)
        PROVE  LedgerInv'
    BY <2>1, <2>2 DEF ReadForDecision, LedgerInv, ledgerVars, requestVars
  <2>3. CASE EndDecision(m) /\ UNCHANGED <<drawn, spent>>
    BY <2>1, <2>3 DEF EndDecision, LedgerInv, NoDays
  <2>4. CASE PlanConsumption(m)
    <3>1. ASSUME NEW p \in Plans(Days[request[m]]), at[m] = "plan",
                 plan' = [plan EXCEPT ![m] = p],
                 at' = [at EXCEPT ![m] = "consume"],
                 UNCHANGED <<request, verdict>>
          PROVE  LedgerInv'
      <4>1. Days[request[m]] \in Nat
        BY <3>1, LeaveAssumption
      <4>2. Sum(p, Grants) = Days[request[m]]
        BY <4>1, PlanGives
      <4>3. PlansCover'
        BY <3>1, <4>2 DEF LedgerInv, NoDays
      <4> QED
        BY <2>1, <2>4, <4>3 DEF PlanConsumption, ledgerVars, requestVars
    <3> QED
      BY <2>3, <2>4, <3>1 DEF PlanConsumption, ledgerVars, requestVars
  <2>5. CASE Consume(m)
    <3>1. PlansCover'
      BY <2>5 DEF Consume, LedgerInv, NoDays
    <3> QED
      BY <2>5, <3>1, ConsumeReconciles DEF LedgerInv
  <2>6. CASE RecordDecision(m)
    <3>1. PlansCover'
      BY <2>6 DEF RecordDecision, LedgerInv
    <3> QED
      BY <2>1, <2>6, <3>1 DEF RecordDecision, ledgerVars
  <2>7. CASE AnnounceDecided(m)
    BY <2>3, <2>7 DEF AnnounceDecided, ledgerVars
  <2>8. CASE AbandonDecision(m)
    BY <2>3, <2>8 DEF AbandonDecision, ledgerVars, requestVars
  <2> QED
    BY <1>2, <2>2, <2>4, <2>5, <2>6, <2>7, <2>8 DEF ManagerStep
<1>3. CASE \E r \in Requests : EmployeeStep(r)
  BY <1>1, <1>3 DEF EmployeeStep, CheckOverlap, CheckBalance, CreateRequest,
     AnnounceSubmitted, ReadForWithdrawal, Withdraw, AbandonCall, ledgerVars, requestVars
<1> QED
  BY <1>1, <1>2, <1>3
     DEF Next, vars, ledgerVars, requestVars, CreateGrant, Expires, FindExpiring,
         ExpireGrant, AbandonTick

\* The sums agree and the plans are complete in every reachable state.
LEMMA LedgerInvariant == Spec => []LedgerInv
<1>1. Init => LedgerInv
  <2> SUFFICES ASSUME Init PROVE LedgerInv
    OBVIOUS
  <2>1. IsFiniteSet(Grants) /\ IsFiniteSet(Requests)
    BY LeaveAssumption
  <2>2. (\A g \in Grants : drawn[g] = 0) /\ (\A r \in Requests : spent[r] = 0)
    BY DEF Init, NoDays
  <2>3. Sum(drawn, Grants) = 0 /\ Sum(spent, Requests) = 0
    BY <2>1, <2>2, SumZero
  <2> QED
    BY <2>3 DEF Init, LedgerInv, PlansCover
<1> QED
  BY <1>1, LedgerStep, LeaveTypeCorrect, PTL DEF Spec

\* The entries of the grants and those of the requests are the same days, whatever
\* decisions run at once or are abandoned.
THEOREM LeaveLedgerReconciles == Spec => []LedgerReconciles
<1>1. LedgerInv => LedgerReconciles
  BY DEF LedgerInv, LedgerReconciles, Sum
<1> QED
  BY <1>1, LedgerInvariant, PTL

-----------------------------------------------------------------------------
(* Overdrafts *)

\* What the other managers plan to take from a grant stays the same when only one
\* manager's plan changes, and is within the grant for each of them.
LEMMA PlannedSplit ==
  ASSUME TypeOK, NEW m \in Managers, NEW g \in Grants,
         plan'[m][g] \in Nat, \A k \in Managers \ {m} : plan'[k][g] = plan[k][g],
         \A k \in Managers : plan[k][g] <= granted[g]
  PROVE  \E rest \in Nat :
           /\ Sum(Planned(g), Managers) = plan[m][g] + rest
           /\ Sum(Planned(g)', Managers) = plan'[m][g] + rest
           /\ rest <= (Cardinality(Managers) - 1) * granted[g]
<1> DEFINE P == Planned(g)
           Q == Planned(g)'
           Others == Managers \ {m}
<1>1. IsFiniteSet(Managers) /\ IsFiniteSet(Others)
      /\ Cardinality(Others) = Cardinality(Managers) - 1
  BY LeaveAssumption, FS_RemoveElement
<1>2. granted[g] \in Nat
  BY DEF TypeOK
<1>3. \A k \in Managers : P[k] \in Nat /\ Q[k] \in Nat
  BY DEF TypeOK, Planned
<1>4. \A k \in Others : P[k] \in Nat /\ Q[k] = P[k] /\ P[k] \in 0..granted[g]
  BY <1>2, <1>3 DEF Planned
<1>5. P[m] = plan[m][g] /\ Q[m] = plan'[m][g]
  BY DEF Planned
<1> HIDE DEF P, Q
<1>6. Sum(P, Managers) = P[m] + Sum(P, Others) /\ Sum(Q, Managers) = Q[m] + Sum(Q, Others)
  BY <1>1, <1>3, SumSplit
<1>7. Sum(Q, Others) = Sum(P, Others)
  BY <1>1, <1>4, SumEqual
<1>8. Sum(P, Others) \in Nat
  BY <1>1, <1>4, SumType
<1>9. Sum(P, Others) <= Cardinality(Others) * granted[g]
  BY <1>1, <1>2, <1>4, SumBounded
<1> USE DEF P, Q
<1> QED
  BY <1>1, <1>5, <1>6, <1>7, <1>8, <1>9

\* A grant can be overdrawn once more by a plan that is made on what is left of it.
LEMMA PlanOverdraws ==
  ASSUME NEW N \in Nat \ {0}, NEW G \in Nat, NEW D \in Nat, NEW p \in Nat, NEW rest \in Nat,
         D + rest <= N * G, rest <= (N - 1) * G, p = 0 \/ D + p <= G
  PROVE  D + (p + rest) <= N * G
<1>1. (N - 1) * G + G = N * G /\ N * G \in Nat /\ (N - 1) * G \in Nat
  OBVIOUS
<1> DEFINE A == (N - 1) * G
           B == N * G
<1>2. A + G = B /\ A \in Nat /\ B \in Nat /\ D + rest <= B /\ rest <= A
  BY <1>1
<1> HIDE DEF A, B
<1>3. D + (p + rest) <= B
  BY <1>2
<1> QED
  BY <1>3 DEF B

\* Every step keeps the overdrafts, committed and planned, within the bound.
LEMMA OverdraftStep == TypeOK /\ LedgerInv /\ OverdraftInv /\ [Next]_vars => OverdraftInv'
<1> SUFFICES ASSUME TypeOK, LedgerInv, OverdraftInv, [Next]_vars PROVE OverdraftInv'
  OBVIOUS
<1> DEFINE N == Cardinality(Managers)
<1>1. IsFiniteSet(Managers) /\ N \in Nat
  BY LeaveAssumption, FS_CardinalityType
<1>2. CASE UNCHANGED <<granted, drawn, plan>>
  BY <1>2 DEF OverdraftInv, Planned
<1>3. ASSUME NEW g \in Grants, CreateGrant(g) PROVE OverdraftInv'
  <2>1. UNCHANGED <<drawn, plan>> /\ \A h \in Grants : granted'[h] >= granted[h]
    BY <1>3, GrantCreated
  <2> SUFFICES ASSUME NEW h \in Grants
               PROVE  /\ \A m \in Managers : plan'[m][h] <= granted'[h]
                      /\ drawn'[h] + Sum(Planned(h)', Managers) <= N * granted'[h]
    BY DEF OverdraftInv
  <2>2. granted[h] \in Nat /\ granted'[h] \in Nat /\ granted'[h] >= granted[h]
    BY <1>3, GrantCreated
  <2>3. N * granted[h] <= N * granted'[h]
    BY <1>1, <2>2
  <2>4. drawn[h] + Sum(Planned(h), Managers) <= N * granted[h] /\ drawn[h] \in Nat
    BY DEF OverdraftInv, TypeOK
  <2>5. Sum(Planned(h), Managers) \in Nat
    BY <1>1, SumType DEF Planned, TypeOK
  <2>6. Planned(h)' = Planned(h)
    BY <2>1 DEF Planned
  <2>7. N * granted[h] \in Nat /\ N * granted'[h] \in Nat
    BY <1>1, <2>2
  <2>8. \A m \in Managers : plan'[m][h] <= granted'[h]
    BY <2>1, <2>2 DEF OverdraftInv, TypeOK
  <2> QED
    BY <2>1, <2>3, <2>4, <2>5, <2>6, <2>7, <2>8
<1>4. ASSUME NEW m \in Managers, ManagerStep(m) PROVE OverdraftInv'
  <2>1. ASSUME UNCHANGED granted, \A k \in Managers \ {m} : plan'[k] = plan[k],
               \A g \in Grants :
                 /\ plan'[m][g] \in Nat /\ drawn'[g] \in Nat
                 /\ plan'[m][g] <= granted[g]
                 /\ \/ drawn'[g] + plan'[m][g] <= drawn[g] + plan[m][g]
                    \/ /\ plan[m][g] = 0
                       /\ drawn'[g] = drawn[g]
                       /\ plan'[m][g] = 0 \/ drawn[g] + plan'[m][g] <= granted[g]
        PROVE  OverdraftInv'
    <3> SUFFICES ASSUME NEW g \in Grants
                 PROVE  /\ \A k \in Managers : plan'[k][g] <= granted'[g]
                        /\ drawn'[g] + Sum(Planned(g)', Managers) <= N * granted'[g]
      BY DEF OverdraftInv
    <3>1. /\ granted[g] \in Nat /\ drawn[g] \in Nat /\ plan[m][g] \in Nat
          /\ plan'[m][g] \in Nat /\ drawn'[g] \in Nat
      BY <2>1 DEF TypeOK
    <3>2. /\ \A k \in Managers : plan[k][g] <= granted[g]
          /\ drawn[g] + Sum(Planned(g), Managers) <= N * granted[g]
      BY DEF OverdraftInv
    <3>3. PICK rest \in Nat :
             /\ Sum(Planned(g), Managers) = plan[m][g] + rest
             /\ Sum(Planned(g)', Managers) = plan'[m][g] + rest
             /\ rest <= (N - 1) * granted[g]
      BY <2>1, <3>1, <3>2, PlannedSplit
    <3>4. N \in Nat \ {0}
      BY <1>1, FS_EmptySet
    <3>5. N * granted[g] \in Nat
      BY <3>1, <3>4
    <3>6. drawn'[g] + (plan'[m][g] + rest) <= N * granted[g]
      <4>1. CASE drawn'[g] + plan'[m][g] <= drawn[g] + plan[m][g]
        BY <3>1, <3>2, <3>3, <3>5, <4>1
      <4>2. CASE /\ plan[m][g] = 0
                 /\ drawn'[g] = drawn[g]
                 /\ plan'[m][g] = 0 \/ drawn[g] + plan'[m][g] <= granted[g]
        BY <3>1, <3>2, <3>3, <3>4, <4>2, PlanOverdraws
      <4> QED
        BY <2>1, <4>1, <4>2
    <3>7. \A k \in Managers : plan'[k][g] <= granted[g]
      BY <2>1, <3>2
    <3> QED
      BY <2>1, <3>3, <3>6, <3>7
  <2>2. CASE \E r \in Requests, v \in Decided : ReadForDecision(m, r, v)
    BY <1>2, <2>2 DEF ReadForDecision, ledgerVars
  <2>3. CASE EndDecision(m) /\ UNCHANGED <<granted, drawn>>
    BY <2>1, <2>3 DEF EndDecision, TypeOK, NoDays
  <2>4. CASE PlanConsumption(m)
    <3>1. ASSUME NEW p \in Plans(Days[request[m]]), at[m] = "plan",
                 plan' = [plan EXCEPT ![m] = p]
          PROVE  OverdraftInv'
      <4>1. Days[request[m]] \in Nat
        BY <3>1, LeaveAssumption DEF TypeOK
      <4>2. plan[m] = NoDays
        BY <3>1 DEF LedgerInv, PlansCover
      <4>3. ASSUME NEW g \in Grants
            PROVE  /\ p[g] \in Nat /\ drawn[g] \in Nat /\ granted[g] \in Nat
                   /\ p[g] = 0 \/ drawn[g] + p[g] <= granted[g]
        <5>1. p[g] \in Nat /\ p[g] <= Available(g)
          BY <4>1, PlanWithinAvailable
        <5>2. /\ drawn[g] \in Nat /\ granted[g] \in Nat /\ lapsed[g] \in Nat
              /\ Available(g) \in Nat
              /\ Available(g) = 0 \/ drawn[g] + Available(g) <= granted[g]
          BY DEF Available, Larger, Remaining, TypeOK
        <5> QED
          BY <5>1, <5>2
      <4>4. /\ \A g \in Grants : plan'[m][g] = p[g] /\ plan[m][g] = 0
            /\ \A k \in Managers \ {m} : plan'[k] = plan[k]
        BY <3>1, <4>2 DEF TypeOK, NoDays
      <4>5. UNCHANGED <<granted, drawn>>
        BY <2>4 DEF PlanConsumption, ledgerVars
      <4>6. ASSUME NEW g \in Grants
            PROVE  /\ plan'[m][g] \in Nat /\ drawn'[g] \in Nat
                   /\ plan'[m][g] <= granted[g]
                   /\ plan[m][g] = 0
                   /\ drawn'[g] = drawn[g]
                   /\ plan'[m][g] = 0 \/ drawn[g] + plan'[m][g] <= granted[g]
        <5>1. /\ p[g] \in Nat /\ drawn[g] \in Nat /\ granted[g] \in Nat
              /\ p[g] = 0 \/ drawn[g] + p[g] <= granted[g]
          BY <4>3
        <5>2. plan'[m][g] = p[g] /\ plan[m][g] = 0
          BY <4>4
        <5>3. drawn'[g] = drawn[g]
          BY <4>5
        <5>4. p[g] <= granted[g]
          BY <5>1
        <5> QED
          BY <5>1, <5>2, <5>3, <5>4
      <4>7. UNCHANGED granted /\ \A k \in Managers \ {m} : plan'[k] = plan[k]
        BY <4>4, <4>5
      <4> QED
        BY <2>1, <4>6, <4>7
    <3> QED
      BY <2>3, <2>4, <3>1 DEF PlanConsumption, ledgerVars
  <2>5. CASE Consume(m)
    <3>1. \A g \in Grants : /\ drawn'[g] = drawn[g] + plan[m][g]
                             /\ plan'[m][g] = 0
                             /\ drawn[g] \in Nat /\ plan[m][g] \in Nat /\ granted[g] \in Nat
      BY <2>5 DEF Consume, TypeOK, NoDays
    <3>2. UNCHANGED granted /\ \A k \in Managers \ {m} : plan'[k] = plan[k]
      BY <2>5 DEF Consume, TypeOK
    <3> QED
      BY <2>1, <3>1, <3>2
  <2>6. CASE RecordDecision(m)
    BY <1>2, <2>6 DEF RecordDecision, ledgerVars
  <2>7. CASE AnnounceDecided(m)
    BY <2>3, <2>7 DEF AnnounceDecided, ledgerVars
  <2>8. CASE AbandonDecision(m)
    BY <2>3, <2>8 DEF AbandonDecision, ledgerVars
  <2> QED
    BY <1>4, <2>2, <2>4, <2>5, <2>6, <2>7, <2>8 DEF ManagerStep
<1>5. CASE \E r \in Requests : EmployeeStep(r)
  BY <1>2, <1>5 DEF EmployeeStep, CheckOverlap, CheckBalance, CreateRequest,
     AnnounceSubmitted, ReadForWithdrawal, Withdraw, AbandonCall, ledgerVars, reviewVars
<1> QED
  BY <1>2, <1>3, <1>4, <1>5
     DEF Next, vars, ledgerVars, reviewVars, Expires, FindExpiring, ExpireGrant,
         AbandonTick

\* n decisions in progress at once overdraw a grant n times at the most, for any n.
THEOREM LeaveOverdraftBounded == Spec => []OverdraftBounded
<1>1. Init => OverdraftInv
  <2> SUFFICES ASSUME Init, NEW g \in Grants
               PROVE  /\ \A m \in Managers : plan[m][g] <= granted[g]
                      /\ drawn[g] + Sum(Planned(g), Managers)
                           <= Cardinality(Managers) * granted[g]
    BY DEF OverdraftInv
  <2>1. IsFiniteSet(Managers) /\ Cardinality(Managers) \in Nat
    BY LeaveAssumption, FS_CardinalityType
  <2>2. /\ drawn[g] = 0 /\ granted[g] = 0
        /\ \A m \in Managers : plan[m][g] = 0 /\ Planned(g)[m] = 0
    BY DEF Init, NoDays, Planned
  <2>3. Sum(Planned(g), Managers) = 0
    BY <2>1, <2>2, SumZero
  <2> QED
    BY <2>1, <2>2, <2>3
<1>2. TypeOK /\ OverdraftInv => OverdraftBounded
  <2> SUFFICES ASSUME TypeOK, OverdraftInv, NEW g \in Grants
               PROVE  drawn[g] <= Cardinality(Managers) * granted[g]
    BY DEF OverdraftBounded
  <2>1. IsFiniteSet(Managers) /\ Cardinality(Managers) \in Nat
    BY LeaveAssumption, FS_CardinalityType
  <2>2. Sum(Planned(g), Managers) \in Nat
    BY <2>1, SumType DEF Planned, TypeOK
  <2>3. drawn[g] \in Nat /\ granted[g] \in Nat
    BY DEF TypeOK
  <2>4. Cardinality(Managers) * granted[g] \in Nat
    BY <2>1, <2>3
  <2> QED
    BY <2>2, <2>3, <2>4 DEF OverdraftInv
<1> QED
  BY <1>1, <1>2, OverdraftStep, LedgerInvariant, LeaveTypeCorrect, PTL DEF Spec

-----------------------------------------------------------------------------
(* The order of consumption *)

\* A plan that takes from a grant leaves nothing in the live grants older than it.
LEMMA PlanTakesOldest ==
  ASSUME TypeOK, NEW n \in Nat, NEW p \in Plans(n), NEW g \in Grants, NEW h \in Grants,
         p[g] > 0, h < g, granted[h] > 0, ~expired[h]
  PROVE  Remaining(h) <= p[h]
<1> SUFFICES ASSUME Remaining(h) > p[h] PROVE FALSE
  BY PlanWithinAvailable DEF Remaining, TypeOK
<1>1. /\ IsFiniteSet(Older(g)) /\ h \in Older(g) /\ Older(h) \subseteq Older(g) \ {h}
      /\ Older(g) \subseteq Grants
  <2>1. IsFiniteSet(Grants) /\ \A k \in Grants : k \in Nat
    BY LeaveAssumption
  <2>2. Older(g) \in SUBSET Grants
    BY DEF Older
  <2>3. IsFiniteSet(Older(g))
    BY <2>1, <2>2, FS_Subset
  <2> QED
    BY <2>1, <2>2, <2>3 DEF Older
<1>2. /\ p \in [Grants -> Nat]
      /\ Available(h) \in Nat /\ Available(g) \in Nat /\ Remaining(h) \in Int
  BY PlanWithinAvailable DEF Remaining, TypeOK
<1>3. Available(h) = Remaining(h)
  BY <1>2 DEF Available, Live, Larger
<1>4. \A k \in Grants : p[k] = Smaller(Available(k), n - Sum(p, Older(k)))
  BY DEF Plans, Sum
<1>5. Sum(p, Older(h)) + p[h] <= Sum(p, Older(g))
  BY <1>1, <1>2, SumLarger
<1>6. Sum(p, Older(h)) \in Nat /\ Sum(p, Older(g)) \in Nat
  <2>1. IsFiniteSet(Older(h)) /\ Older(h) \subseteq Grants
    BY <1>1, FS_Subset
  <2> QED
    BY <1>1, <1>2, <2>1, SumType
<1>7. p[h] = n - Sum(p, Older(h))
  BY <1>2, <1>3, <1>4, <1>6 DEF Smaller
<1>8. p[g] <= n - Sum(p, Older(g))
  BY <1>2, <1>4, <1>6 DEF Smaller
<1> QED
  BY <1>2, <1>5, <1>6, <1>7, <1>8

\* Every step keeps consumption in the order of the grants.
LEMMA OrderStep == TypeOK /\ OrderInv /\ [Next]_vars => OrderInv'
<1> SUFFICES ASSUME TypeOK, OrderInv, [Next]_vars PROVE OrderInv'
  OBVIOUS
<1> USE DEF OrderInv
<1>1. CASE UNCHANGED <<granted, drawn, lapsed, expired, plan, late>>
  BY <1>1 DEF OldestFirst, PlansInOrder, Remaining
<1>2. ASSUME NEW k \in Grants, CreateGrant(k) PROVE OrderInv'
  <2>1. /\ UNCHANGED <<drawn, lapsed, expired, plan>>
        /\ \A g \in Grants \ {k} : granted'[g] = granted[g]
        /\ \A g \in Newer(k) : InUse(g) => <<g, k>> \in late'
        /\ late \subseteq late'
    BY <1>2, GrantCreated
  <2>2. ASSUME NEW g \in Grants, NEW h \in Grants, h < g, granted'[h] > 0,
               <<g, h>> \notin late', InUse(g)
        PROVE  granted[h] > 0 /\ <<g, h>> \notin late /\ Remaining(h)' = Remaining(h)
    <3>1. h # k
      BY <2>1, <2>2 DEF Newer
    <3> QED
      BY <2>1, <2>2, <3>1 DEF Remaining
  <2>3. OldestFirst'
    BY <2>1, <2>2 DEF OldestFirst, InUse
  <2>4. PlansInOrder'
    BY <2>1, <2>2 DEF PlansInOrder, InUse
  <2> QED
    BY <2>3, <2>4
<1>3. ASSUME NEW k \in Grants, Expires(k) PROVE OrderInv'
  <2>1. /\ UNCHANGED <<granted, drawn, lapsed, plan, late>>
        /\ \A h \in Grants : expired[h] => expired'[h]
    BY <1>3 DEF Expires, TypeOK, reviewVars
  <2> QED
    BY <2>1 DEF OldestFirst, PlansInOrder, Remaining
<1>4. ASSUME NEW m \in Managers, ManagerStep(m) PROVE OrderInv'
  <2>1. CASE \E r \in Requests, v \in Decided : ReadForDecision(m, r, v)
    BY <1>1, <2>1 DEF ReadForDecision, ledgerVars
  <2>2. CASE EndDecision(m) /\ UNCHANGED <<ledgerVars, late>>
    <3>1. \A k \in Managers, g \in Grants :
            plan'[k][g] > 0 => plan[k][g] > 0 /\ plan'[k] = plan[k]
      BY <2>2 DEF EndDecision, TypeOK, NoDays
    <3> QED
      BY <2>2, <3>1 DEF ledgerVars, OldestFirst, PlansInOrder, Remaining
  <2>3. CASE PlanConsumption(m)
    <3>1. ASSUME NEW p \in Plans(Days[request[m]]), at[m] = "plan",
                 plan' = [plan EXCEPT ![m] = p]
          PROVE  OrderInv'
      <4>1. Days[request[m]] \in Nat
        BY <3>1, LeaveAssumption DEF TypeOK
      <4>2. UNCHANGED <<granted, drawn, lapsed, expired, late>>
        BY <2>3 DEF PlanConsumption, ledgerVars
      <4>3. plan'[m] = p /\ \A k \in Managers \ {m} : plan'[k] = plan[k]
        BY <3>1 DEF TypeOK
      <4>4. \A g \in Grants, h \in Grants :
              p[g] > 0 /\ h < g /\ granted[h] > 0 => expired[h] \/ Remaining(h) <= p[h]
        BY <4>1, PlanTakesOldest
      <4>5. OldestFirst'
        BY <4>2 DEF OldestFirst, Remaining
      <4>6. PlansInOrder'
        BY <4>2, <4>3, <4>4 DEF PlansInOrder, Remaining
      <4> QED
        BY <4>5, <4>6
    <3> QED
      BY <2>2, <2>3, <3>1 DEF PlanConsumption
  <2>4. CASE Consume(m)
    <3>1. /\ UNCHANGED <<granted, lapsed, expired, late>>
          /\ \A g \in Grants : /\ drawn'[g] = drawn[g] + plan[m][g]
                                /\ plan'[m][g] = 0
                                /\ drawn[g] \in Nat /\ plan[m][g] \in Nat
                                /\ granted[g] \in Nat /\ lapsed[g] \in Nat
          /\ \A k \in Managers \ {m} : plan'[k] = plan[k]
      BY <2>4 DEF Consume, TypeOK, NoDays
    <3>2. \A g \in Grants : /\ Remaining(g) \in Int
                             /\ Remaining(g)' = Remaining(g) - plan[m][g]
      BY <3>1 DEF Remaining
    <3>3. OldestFirst'
      <4> SUFFICES ASSUME NEW g \in Grants, NEW h \in Grants, drawn'[g] > 0, h < g,
                          granted[h] > 0, ~expired[h], <<g, h>> \notin late
                   PROVE  Remaining(h)' <= 0
        BY <3>1 DEF OldestFirst
      <4>1. CASE drawn[g] > 0
        <5>1. Remaining(h) <= 0
          BY <4>1 DEF OldestFirst
        <5> QED
          BY <3>1, <3>2, <5>1
      <4>2. CASE plan[m][g] > 0
        <5>1. Remaining(h) <= plan[m][h]
          BY <4>2 DEF PlansInOrder
        <5> QED
          BY <3>1, <3>2, <5>1
      <4> QED
        BY <3>1, <4>1, <4>2
    <3>4. PlansInOrder'
      <4> SUFFICES ASSUME NEW k \in Managers, NEW g \in Grants, NEW h \in Grants,
                          plan'[k][g] > 0, h < g, granted[h] > 0, ~expired[h],
                          <<g, h>> \notin late
                   PROVE  Remaining(h)' <= plan'[k][h]
        BY <3>1 DEF PlansInOrder
      <4>1. k # m /\ plan'[k] = plan[k]
        BY <3>1
      <4>2. Remaining(h) <= plan[k][h]
        BY <4>1 DEF PlansInOrder
      <4>3. plan[k][h] \in Nat
        BY DEF TypeOK
      <4> QED
        BY <3>1, <3>2, <4>1, <4>2, <4>3
    <3> QED
      BY <3>3, <3>4
  <2>5. CASE RecordDecision(m)
    BY <1>1, <2>5 DEF RecordDecision, ledgerVars
  <2>6. CASE AnnounceDecided(m)
    BY <2>2, <2>6 DEF AnnounceDecided
  <2>7. CASE AbandonDecision(m)
    BY <2>2, <2>7 DEF AbandonDecision
  <2> QED
    BY <1>4, <2>1, <2>3, <2>4, <2>5, <2>6, <2>7 DEF ManagerStep
<1>5. ASSUME NEW p \in Processes, NEW k \in Grants, ExpireGrant(p, k) PROVE OrderInv'
  <2>1. /\ UNCHANGED <<granted, drawn, expired, plan, late>>
        /\ \A h \in Grants : lapsed'[h] >= lapsed[h]
    BY <1>5 DEF ExpireGrant, TypeOK, reviewVars
  <2>2. ASSUME NEW h \in Grants
        PROVE  Remaining(h) \in Int /\ Remaining(h)' \in Int /\ Remaining(h)' <= Remaining(h)
    <3>1. /\ granted[h] \in Nat /\ drawn[h] \in Nat /\ lapsed[h] \in Nat
          /\ lapsed'[h] \in Nat /\ lapsed'[h] >= lapsed[h]
      BY <1>5, <2>1 DEF ExpireGrant, TypeOK
    <3> QED
      BY <2>1, <3>1 DEF Remaining
  <2>3. \A m \in Managers, h \in Grants : plan[m][h] \in Nat
    BY DEF TypeOK
  <2> QED
    BY <2>1, <2>2, <2>3 DEF OldestFirst, PlansInOrder
<1>6. CASE \E r \in Requests : EmployeeStep(r)
  BY <1>1, <1>6 DEF EmployeeStep, CheckOverlap, CheckBalance, CreateRequest,
     AnnounceSubmitted, ReadForWithdrawal, Withdraw, AbandonCall, ledgerVars, reviewVars
<1> QED
  BY <1>1, <1>2, <1>3, <1>4, <1>5, <1>6
     DEF Next, vars, ledgerVars, reviewVars, FindExpiring, AbandonTick

\* Days come off a newer grant only when the older ones that were there by then are used
\* up or expired: several plans are made on one balance and committed later, and grants
\* are committed and expire in any order.
THEOREM LeaveOldestFirst == Spec => []OldestFirst
<1>1. Init => OrderInv
  BY DEF Init, OrderInv, OldestFirst, PlansInOrder, NoDays
<1>2. OrderInv => OldestFirst
  BY DEF OrderInv
<1> QED
  BY <1>1, <1>2, OrderStep, LeaveTypeCorrect, PTL DEF Spec

-----------------------------------------------------------------------------
(* planConsumption *)

\* What each grant contributes, as a function.
Holding == [g \in Grants |-> Available(g)]

\* A finite set of grants has a newest one.
LEMMA GreatestNatural ==
  ASSUME NEW S, IsFiniteSet(S), S \subseteq Nat, S # {}
  PROVE  \E x \in S : \A y \in S : y <= x
<1> DEFINE Good == {T \in SUBSET S : T = {} \/ \E x \in T : \A y \in T : y <= x}
<1>1. ASSUME NEW T \in SUBSET S, \A x \in T : T \ {x} \in Good
      PROVE  T \in Good
  <2>1. CASE T = {}
    BY <2>1
  <2>2. CASE T # {}
    <3>1. PICK z \in T : TRUE
      BY <2>2
    <3>2. T \ {z} = {} \/ \E x \in T \ {z} : \A y \in T \ {z} : y <= x
      BY <1>1
    <3>3. CASE T \ {z} = {}
      <4>1. \A y \in T : y <= z
        BY <3>3
      <4> QED
        BY <3>1, <4>1
    <3>4. ASSUME NEW x \in T \ {z}, \A y \in T \ {z} : y <= x
          PROVE  \E w \in T : \A y \in T : y <= w
      <4>1. CASE z <= x
        BY <3>4, <4>1
      <4>2. CASE ~ (z <= x)
        <5>1. \A y \in T : y \in Nat
          OBVIOUS
        <5>2. \A y \in T : y <= z
          BY <3>4, <4>2, <5>1
        <5> QED
          BY <3>1, <5>2
      <4> QED
        BY <4>1, <4>2
    <3> QED
      BY <3>2, <3>3, <3>4
  <2> QED
    BY <2>1, <2>2
<1> HIDE DEF Good
<1>2. \A T \in SUBSET S : T \in Good
  BY <1>1, SubsetInduction
<1> QED
  BY <1>2 DEF Good

\* An overdrawn grant counts as empty, so every contribution is a number of days.
LEMMA HoldingType == TypeOK => Holding \in [Grants -> Nat]
BY DEF TypeOK, Holding, Available, Larger, Remaining

\* computeBalance sums the contributions.
LEMMA TotalIsHolding == TotalRemaining = Sum(Holding, Grants)
<1> DEFINE F(iter) == [s \in SUBSET Grants |->
             IF s = {} THEN 0
             ELSE Available(CHOOSE x \in s : TRUE) + iter[s \ {CHOOSE x \in s : TRUE}]]
           G(iter) == [s \in SUBSET Grants |->
             IF s = {} THEN 0
             ELSE Holding[CHOOSE x \in s : TRUE] + iter[s \ {CHOOSE x \in s : TRUE}]]
<1>1. TotalRemaining = (CHOOSE iter : iter = F(iter))[Grants]
  BY DEF TotalRemaining, MapThenSumSet, MapThenFoldSet
<1>2. Sum(Holding, Grants) = (CHOOSE iter : iter = G(iter))[Grants]
  BY DEF Sum, MapThenSumSet, MapThenFoldSet
<1>3. ASSUME NEW iter PROVE F(iter) = G(iter)
  <2>1. ASSUME NEW s \in SUBSET Grants, s # {}
        PROVE  Available(CHOOSE x \in s : TRUE) = Holding[CHOOSE x \in s : TRUE]
    BY <2>1 DEF Holding
  <2> QED
    BY <2>1
<1> HIDE DEF F, G
<1>4. (CHOOSE iter : iter = F(iter)) = (CHOOSE iter : iter = G(iter))
  BY <1>3
<1> QED
  BY <1>1, <1>2, <1>4

\* What a plan of n days takes from a grant, given what the older ones hold.
Share(n, g) == Smaller(Holding[g], n - Smaller(n, Sum(Holding, Older(g))))

\* The grants older than one of them are older than every later one.
LEMMA OlderClosed ==
  ASSUME NEW g \in Grants
  PROVE  Older(g) \in SUBSET Grants /\ \A h \in Older(g) : Older(h) \subseteq Older(g)
<1>1. \A h \in Grants : h \in Nat
  BY LeaveAssumption
<1>2. ASSUME NEW h \in Older(g), NEW k \in Older(h) PROVE k \in Older(g)
  BY <1>1 DEF Older
<1> QED
  BY <1>2 DEF Older

\* Whether the share is computed from what the older grants hold, or from what the
\* plan takes from them as the loop of planConsumption does, the oldest grants give
\* together the days that are asked or all they have.  By induction over the sets of
\* oldest grants, taking out the newest of them.
LEMMA SharesSum ==
  ASSUME TypeOK, NEW n \in Nat, NEW p,
         \A g \in Grants : \/ p[g] = Share(n, g)
                           \/ p[g] = Smaller(Holding[g], n - Sum(p, Older(g)))
  PROVE  \A T \in SUBSET Grants :
           (\A g \in T : Older(g) \subseteq T)
             => /\ \A g \in T : p[g] \in Nat
                /\ Sum(p, T) = Smaller(n, Sum(Holding, T))
<1> DEFINE Conclusion(T) == /\ \A g \in T : p[g] \in Nat
                            /\ Sum(p, T) = Smaller(n, Sum(Holding, T))
           Good == {T \in SUBSET Grants : (\A g \in T : Older(g) \subseteq T) => Conclusion(T)}
<1>1. ASSUME NEW T \in SUBSET Grants, \A g \in T : T \ {g} \in Good,
             \A g \in T : Older(g) \subseteq T
      PROVE  Conclusion(T)
  <2>1. CASE T = {}
    BY <2>1, SumEmpty DEF Smaller
  <2>2. CASE T # {}
    <3>1. IsFiniteSet(T) /\ T \subseteq Nat
      BY LeaveAssumption, FS_Subset
    <3>2. PICK g \in T : \A h \in T : h <= g
      BY <2>2, <3>1, GreatestNatural
    <3>3. T \ {g} = Older(g)
      <4>1. \A h \in T : h \in Nat /\ h \in Grants
        BY <3>1
      <4>2. ASSUME NEW h \in T \ {g} PROVE h \in Older(g)
        BY <3>2, <4>1, <4>2 DEF Older
      <4>3. ASSUME NEW h \in Older(g) PROVE h \in T /\ h # g
        BY <1>1, <4>1 DEF Older
      <4> QED
        BY <4>2, <4>3
    <3>4. \A h \in Older(g) : Older(h) \subseteq Older(g)
      BY OlderClosed
    <3>5. Conclusion(Older(g))
      BY <1>1, <3>3, <3>4
    <3>6. Holding[g] \in Nat /\ \A h \in T : Holding[h] \in Nat
      BY HoldingType
    <3>7. Sum(Holding, Older(g)) \in Nat
      BY <3>1, <3>3, <3>6, SumType, FS_RemoveElement
    <3>8. p[g] = Smaller(Holding[g], n - Smaller(n, Sum(Holding, Older(g))))
      BY <3>5 DEF Share
    <3>9. p[g] \in Nat
      BY <3>6, <3>7, <3>8 DEF Smaller
    <3>10. \A h \in T : p[h] \in Nat
      BY <3>3, <3>5, <3>9
    <3>11. Sum(p, T) = p[g] + Sum(p, Older(g))
      <4>1. Sum(p, T) = p[g] + Sum(p, T \ {g})
        BY <3>1, <3>10, SumSplit
      <4> QED
        BY <3>3, <4>1
    <3>12. Sum(Holding, T) = Holding[g] + Sum(Holding, Older(g))
      <4>1. Sum(Holding, T) = Holding[g] + Sum(Holding, T \ {g})
        BY <3>1, <3>6, SumSplit
      <4> QED
        BY <3>3, <4>1
    <3>13. Sum(p, T) = Smaller(n, Sum(Holding, T))
      BY <3>5, <3>6, <3>7, <3>8, <3>11, <3>12 DEF Smaller
    <3> QED
      BY <3>10, <3>13
  <2> QED
    BY <2>1, <2>2
<1> HIDE DEF Conclusion
<1>2. \A T \in SUBSET Grants : (\A g \in T : T \ {g} \in Good) => T \in Good
  BY <1>1
<1> HIDE DEF Good
<1>3. \A T \in SUBSET Grants : T \in Good
  BY <1>2, LeaveAssumption, SubsetInduction
<1> QED
  BY <1>3 DEF Good, Conclusion

\* The results of planConsumption, with the sums named.
LEMMA PlanUnfolds ==
  ASSUME NEW n, NEW p
  PROVE  p \in Plans(n) <=> /\ p \in [Grants -> 0..n]
                            /\ \A g \in Grants : p[g] = Smaller(Available(g), n - Sum(p, Older(g)))
                            /\ Sum(p, Grants) = n
BY DEF Plans, Sum

\* planConsumption gives every grant its share, so it has one result at most.
LEMMA PlanIsShares ==
  ASSUME TypeOK, NEW n \in Nat, NEW p \in Plans(n)
  PROVE  /\ p = [g \in Grants |-> Share(n, g)]
         /\ Smaller(n, TotalRemaining) = n
<1>1. \A g \in Grants : p[g] = Smaller(Holding[g], n - Sum(p, Older(g)))
  BY PlanUnfolds DEF Holding
<1>2. \A T \in SUBSET Grants :
           (\A g \in T : Older(g) \subseteq T) => Sum(p, T) = Smaller(n, Sum(Holding, T))
  BY <1>1, SharesSum
<1>3. ASSUME NEW g \in Grants PROVE p[g] = Share(n, g)
  <2>1. Sum(p, Older(g)) = Smaller(n, Sum(Holding, Older(g)))
    BY <1>2, OlderClosed
  <2> QED
    BY <1>1, <2>1 DEF Share
<1>4. Sum(p, Grants) = Smaller(n, Sum(Holding, Grants))
  BY <1>2 DEF Older
<1> QED
  BY <1>3, <1>4, PlanUnfolds, TotalIsHolding

\* planConsumption is a function of the ledger: the loop of the code has one result,
\* and the set Plans that stands for it has one element at most.
THEOREM LeavePlanUnique ==
  ASSUME TypeOK, NEW n \in Nat, NEW p \in Plans(n), NEW q \in Plans(n)
  PROVE  p = q
<1>1. p = [g \in Grants |-> Share(n, g)]
  BY PlanIsShares
<1>2. q = [g \in Grants |-> Share(n, g)]
  BY PlanIsShares
<1> QED
  BY <1>1, <1>2

\* computeBalance and planConsumption agree: with the same ledger, there is a plan of
\* n days (no insufficient_balance) exactly when the balance that createRequest
\* compares with the days of a request is at least n.
THEOREM LeavePlanExists ==
  ASSUME TypeOK, NEW n \in Nat
  PROVE  Plans(n) # {} <=> TotalRemaining >= n
<1>1. TotalRemaining \in Nat
  BY LeaveAssumption, HoldingType, TotalIsHolding, SumType
<1>2. ASSUME NEW p \in Plans(n) PROVE TotalRemaining >= n
  <2>1. Smaller(n, TotalRemaining) = n
    BY PlanIsShares
  <2> QED
    BY <1>1, <2>1 DEF Smaller
<1>3. ASSUME TotalRemaining >= n PROVE Plans(n) # {}
  <2> DEFINE p == [g \in Grants |-> Share(n, g)]
  <2>1. \A g \in Grants : p[g] = Share(n, g)
    OBVIOUS
  <2> HIDE DEF p
  <2>2. \A T \in SUBSET Grants :
           (\A g \in T : Older(g) \subseteq T) => Sum(p, T) = Smaller(n, Sum(Holding, T))
    BY <2>1, SharesSum
  <2>3. Sum(p, Grants) = Smaller(n, TotalRemaining)
    BY <2>2, TotalIsHolding DEF Older
  <2>4. Sum(p, Grants) = n
    BY <1>1, <1>3, <2>3 DEF Smaller
  <2>5. ASSUME NEW g \in Grants
        PROVE  p[g] = Smaller(Available(g), n - Sum(p, Older(g))) /\ p[g] \in 0..n
    <3>1. Sum(p, Older(g)) = Smaller(n, Sum(Holding, Older(g)))
      BY <2>2, OlderClosed
    <3>2. Holding[g] = Available(g) /\ Holding[g] \in Nat
      BY HoldingType DEF Holding
    <3>3. IsFiniteSet(Older(g)) /\ \A h \in Older(g) : Holding[h] \in Nat
      BY LeaveAssumption, HoldingType, OlderClosed, FS_Subset
    <3>4. Sum(Holding, Older(g)) \in Nat
      BY <3>3, SumType
    <3> QED
      BY <2>1, <3>1, <3>2, <3>4 DEF Share, Smaller
  <2>6. p \in [Grants -> 0..n]
    <3>1. p = [g \in Grants |-> p[g]]
      BY DEF p
    <3> QED
      BY <2>5, <3>1
  <2> QED
    BY <2>4, <2>5, <2>6, PlanUnfolds
<1> QED
  BY <1>2, <1>3
=============================================================================
