----------------------- MODULE NotificationRelayProofs -----------------------
(***************************************************************************)
(* Proofs about NotificationRelay for any deliveries, users, processes,    *)
(* attempt ceiling and batch size.                                         *)
(***************************************************************************)
EXTENDS NotificationRelay, TLAPS

\* A claim in a relay's memory never counts more attempts than the row does.
ClaimsNotAhead ==
  \A p \in Processes, d \in Deliveries : claimed[p][d] <= attempts[d]

\* Only recorded deliveries are ever claimed.
ClaimsRecorded ==
  \A p \in Processes : \A d \in batch[p] : status[d] # "ABSENT"

\* Whom a delivery is owed to is named, active and has not muted its type.
OwedAreCurrent ==
  \A d \in Deliveries, u \in Users :
    u \in owed[d] => u \in named[d] /\ u \in active /\ u \notin muted

\* A delivery that is not recorded yet has no attempt.
AbsentUntouched ==
  \A d \in Deliveries : status[d] = "ABSENT" => attempts[d] = 0

\* From the first read of the recipients on, everyone owed is notified, still to
\* be notified, or still to be found by the read that comes next; after the
\* fan-out, everyone owed is notified.
FanOutCovers ==
  \A p \in Processes, d \in Deliveries, u \in Users :
    IsCurrent(p, d) /\ u \in owed[d] /\ feed[<<d, u>>] = "NONE" =>
      /\ pc[p] = "report" => u \in todo[p] \cup ReportTo
      /\ pc[p] = "active" => u \in todo[p] \cup candidate[p]
      /\ pc[p] \in {"deliver", "insert"} => u \in todo[p]
      /\ pc[p] # "succeed"

\* The three inductive invariants: attempts, recipients, frames.
CountInv ==
  /\ AttemptsBounded
  /\ FailedOnlyWhenExhausted
  /\ ClaimsNotAhead
  /\ ClaimsRecorded
  /\ AbsentUntouched

ReachInv ==
  /\ OwedAreCurrent
  /\ FanOutCovers
  /\ SucceededReachedEveryone

RelayInv == TypeOK /\ CountInv /\ ReachInv /\ PushedAtMostOnce

-----------------------------------------------------------------------------
(* Type correctness *)

\* The initial state is well typed.
LEMMA TypeOKInit == Init => TypeOK
BY DEF Init, TypeOK, Statuses, Marks, Places, Processing

\* Every step keeps the types.
LEMMA TypeOKStep == TypeOK /\ [Next]_vars => TypeOK'
<1> SUFFICES ASSUME TypeOK, [Next]_vars PROVE TypeOK'
  OBVIOUS
<1> USE RelayAssumption DEF TypeOK, Statuses, Marks, Places, Processing
<1>1. ASSUME NEW d \in Deliveries, NEW us \in SUBSET Users, Append(d, us)
      PROVE  TypeOK'
  BY <1>1 DEF Append, feedVars, relayVars
<1>2. ASSUME NEW d \in Deliveries, ComesDue(d) PROVE TypeOK'
  BY <1>2 DEF ComesDue, feedVars, relayVars, peopleVars
<1>3. ASSUME NEW p \in Processes, ClaimBatch(p) PROVE TypeOK'
  <2>1. Oldest \subseteq Deliveries
    BY DEF Oldest, Claimable
  <2>2. status' \in [Deliveries -> Statuses] /\ attempts' \in [Deliveries -> Nat]
    BY <1>3 DEF ClaimBatch
  <2>5. due' \in [Deliveries -> BOOLEAN]
    <3>1. \A d \in Deliveries : (IF d \in Oldest THEN FALSE ELSE due[d]) \in BOOLEAN
      OBVIOUS
    <3>2. due' = [d \in Deliveries |-> IF d \in Oldest THEN FALSE ELSE due[d]]
      BY <1>3 DEF ClaimBatch
    <3> HIDE DEF TypeOK
    <3> QED
      BY <3>1, <3>2, Zenon
  <2>3. /\ claimed' \in [Processes -> [Deliveries -> Nat]]
        /\ batch' \in [Processes -> SUBSET Deliveries]
        /\ pc' \in [Processes -> Places]
    BY <1>3, <2>1 DEF ClaimBatch
  <2>4. ASSUME NEW q \in Processes
        PROVE  /\ pc'[q] = "idle" <=> batch'[q] = {}
               /\ pc'[q] \notin Processing \ {"process"} => todo'[q] = {}
               /\ pc'[q] \notin {"active", "insert"} => candidate'[q] = {}
    BY <1>3, <2>1 DEF ClaimBatch
  <2> QED
    BY <1>3, <2>2, <2>3, <2>4, <2>5 DEF ClaimBatch, feedVars, peopleVars
<1>4. ASSUME NEW p \in Processes, RelayStep(p) PROVE TypeOK'
  <2>1. ASSUME NEW d \in Deliveries, ResolveRecipients(p, d) PROVE TypeOK'
    BY <2>1 DEF ResolveRecipients, IsCurrent, tableVars, feedVars, peopleVars
  <2>2. ASSUME NEW u \in Users, SkipMuted(p, u) PROVE TypeOK'
    BY <2>2 DEF SkipMuted, tableVars, feedVars, peopleVars
  <2>3. ASSUME NEW d \in Deliveries, NEW u \in Users, CreateAndPublish(p, d, u)
        PROVE  TypeOK'
    BY <2>3 DEF CreateAndPublish, CreateIfAbsent, IsCurrent, tableVars, peopleVars
  <2>4. ASSUME NEW d \in Deliveries, NEW u \in Users, CreateReplyLost(p, d, u)
        PROVE  TypeOK'
    BY <2>4 DEF CreateReplyLost, CreateIfAbsent, IsCurrent, tableVars, peopleVars
  <2>5. CASE ProcessEventFails(p)
    BY <2>5 DEF ProcessEventFails, tableVars, feedVars, peopleVars
  <2>6. CASE ProcessEventReturns(p)
    BY <2>6 DEF ProcessEventReturns, tableVars, feedVars, peopleVars
  <2>7. ASSUME NEW d \in Deliveries, MarkSucceeded(p, d) PROVE TypeOK'
    BY <2>7 DEF MarkSucceeded, NextDelivery, IsCurrent, feedVars, peopleVars
  <2>8. ASSUME NEW d \in Deliveries, MarkSucceededFails(p, d) PROVE TypeOK'
    BY <2>8 DEF MarkSucceededFails, IsCurrent, feedVars, peopleVars
  <2>9. ASSUME NEW d \in Deliveries, MarkFailed(p, d) PROVE TypeOK'
    BY <2>9 DEF MarkFailed, NextDelivery, IsCurrent, feedVars, peopleVars
  <2>10. CASE MarkFailedFails(p)
    BY <2>10 DEF MarkFailedFails, Forget, tableVars, feedVars, peopleVars
  <2>11. ASSUME NEW d \in Deliveries, ReadReportTo(p, d) PROVE TypeOK'
    BY <2>11 DEF ReadReportTo, IsCurrent, tableVars, feedVars, peopleVars
  <2>12. CASE ReadReportToActive(p)
    BY <2>12 DEF ReadReportToActive, tableVars, feedVars, peopleVars
  <2>13. ASSUME NEW u \in Users, FindUnmuted(p, u) PROVE TypeOK'
    BY <2>13 DEF FindUnmuted, tableVars, feedVars, peopleVars
  <2> QED
    BY <1>4, <2>1, <2>2, <2>3, <2>4, <2>5, <2>6, <2>7, <2>8, <2>9, <2>10, <2>11,
       <2>12, <2>13
       DEF RelayStep
<1>5. ASSUME NEW p \in Processes, Crash(p) PROVE TypeOK'
  BY <1>5 DEF Crash, Forget, tableVars, feedVars, peopleVars
<1>6. CASE PeopleStep
  <2> USE DEF tableVars, feedVars, relayVars, peopleVars
  <2>1. ASSUME NEW d \in Deliveries, NEW u \in Users, Unname(d, u)
        PROVE  TypeOK'
    BY <2>1 DEF Unname
  <2>2. ASSUME NEW d \in Deliveries, NEW u \in Users, Name(d, u)
        PROVE  TypeOK'
    BY <2>2 DEF Name
  <2>8. ASSUME NEW u \in Users, Deactivate(u) PROVE TypeOK'
    BY <2>8 DEF Deactivate, NoLongerOwed
  <2>9. ASSUME NEW u \in Users, Reactivate(u) PROVE TypeOK'
    BY <2>9 DEF Reactivate
  <2>3. ASSUME NEW u \in Users, Mute(u) PROVE TypeOK'
    BY <2>3 DEF Mute, NoLongerOwed
  <2>4. ASSUME NEW u \in Users, Unmute(u) PROVE TypeOK'
    BY <2>4 DEF Unmute
  <2>5. ASSUME NEW d \in Deliveries, NEW u \in Users, MarkRead(d, u)
        PROVE  TypeOK'
    BY <2>5 DEF MarkRead
  <2>6. ASSUME NEW u \in Users, MarkAllRead(u) PROVE TypeOK'
    BY <2>6 DEF MarkAllRead
  <2>7. ASSUME NEW d \in Deliveries, NEW u \in Users, Dismiss(d, u)
        PROVE  TypeOK'
    BY <2>7 DEF Dismiss
  <2> QED
    BY <1>6, <2>1, <2>2, <2>3, <2>4, <2>5, <2>6, <2>7, <2>8, <2>9 DEF PeopleStep
<1>7. CASE UNCHANGED vars
  BY <1>7 DEF vars, tableVars, feedVars, relayVars, peopleVars
<1> QED
  BY <1>1, <1>2, <1>3, <1>4, <1>5, <1>6, <1>7 DEF Next

\* Every reachable state is well typed.
THEOREM RelayTypeCorrect == Spec => []TypeOK
BY TypeOKInit, TypeOKStep, PTL DEF Spec

-----------------------------------------------------------------------------
(* Attempts *)

\* No delivery has an attempt or a claim at first.
LEMMA CountInit == Init => CountInv
BY RelayAssumption DEF Init, CountInv, AttemptsBounded, FailedOnlyWhenExhausted,
   ClaimsNotAhead, ClaimsRecorded, AbsentUntouched

\* Every step keeps attempts within the ceiling and claims behind the row.
LEMMA CountStep == TypeOK /\ CountInv /\ [Next]_vars => CountInv'
<1> SUFFICES ASSUME TypeOK, CountInv, [Next]_vars PROVE CountInv'
  OBVIOUS
<1> USE RelayAssumption
    DEF CountInv, AttemptsBounded, FailedOnlyWhenExhausted, ClaimsNotAhead,
        ClaimsRecorded, AbsentUntouched
<1>1. ASSUME NEW d \in Deliveries, NEW us \in SUBSET Users, Append(d, us)
      PROVE  CountInv'
  BY <1>1 DEF Append, TypeOK, relayVars
<1>2. ASSUME NEW p \in Processes, ClaimBatch(p) PROVE CountInv'
  <2>1. \A d \in Oldest : /\ d \in Deliveries
                          /\ status[d] = "PENDING"
                          /\ attempts[d] < MaxAttempts
    BY DEF Oldest, Claimable, Exhausted, TypeOK
  <2>2. ASSUME NEW d \in Deliveries, d \in Exhausted
        PROVE  status[d] = "PENDING" /\ attempts[d] = MaxAttempts
    <3>1. status[d] = "PENDING" /\ attempts[d] >= MaxAttempts
      BY <2>2 DEF Exhausted
    <3>2. attempts[d] \in Nat /\ MaxAttempts \in Nat
      BY DEF TypeOK
    <3> QED
      BY <3>1, <3>2
  <2>3. \A d \in Deliveries :
          /\ attempts'[d] = IF d \in Oldest THEN attempts[d] + 1 ELSE attempts[d]
          /\ status'[d] = IF d \in Exhausted THEN "FAILED" ELSE status[d]
    BY <1>2 DEF ClaimBatch
  <2>4. ASSUME NEW d \in Deliveries
        PROVE  /\ attempts'[d] <= MaxAttempts
               /\ status'[d] = "FAILED" => attempts'[d] = MaxAttempts
               /\ status'[d] = "ABSENT" => attempts'[d] = 0
    <3>1. attempts[d] \in Nat /\ MaxAttempts \in Nat
      BY DEF TypeOK
    <3>2. CASE d \in Oldest
      <4>1. status[d] = "PENDING" /\ attempts[d] < MaxAttempts
        BY <2>1, <3>2
      <4>2. d \notin Exhausted
        BY <2>2, <3>1, <4>1
      <4>3. status'[d] = "PENDING" /\ attempts'[d] = attempts[d] + 1
        BY <2>3, <3>2, <4>1, <4>2
      <4> QED
        BY <3>1, <4>1, <4>3
    <3>3. CASE d \notin Oldest
      BY <2>2, <2>3, <3>1, <3>3
    <3> QED
      BY <3>2, <3>3
  <2>5. ASSUME NEW q \in Processes, NEW d \in Deliveries
        PROVE  claimed'[q][d] <= attempts'[d]
    <3>1. CASE q = p
      BY <1>2, <2>1, <2>3, <3>1 DEF ClaimBatch, TypeOK
    <3>2. CASE q # p
      BY <1>2, <2>3, <3>2 DEF ClaimBatch, TypeOK
    <3> QED
      BY <3>1, <3>2
  <2>6. ASSUME NEW q \in Processes, NEW d \in batch'[q]
        PROVE  status'[d] # "ABSENT"
    <3>1. CASE q = p
      BY <1>2, <2>1, <2>3, <3>1 DEF ClaimBatch, TypeOK
    <3>2. CASE q # p
      BY <1>2, <2>3, <3>2 DEF ClaimBatch, TypeOK
    <3> QED
      BY <3>1, <3>2
  <2> QED
    BY <2>4, <2>5, <2>6
<1>3. ASSUME NEW p \in Processes, NEW d \in Deliveries, MarkSucceeded(p, d)
      PROVE  CountInv'
  BY <1>3 DEF MarkSucceeded, NextDelivery, IsCurrent, TypeOK
<1>4. ASSUME NEW p \in Processes, NEW d \in Deliveries, MarkSucceededFails(p, d)
      PROVE  CountInv'
  BY <1>4 DEF MarkSucceededFails, IsCurrent, TypeOK
<1>5. ASSUME NEW p \in Processes, NEW d \in Deliveries, MarkFailed(p, d)
      PROVE  CountInv'
  <2>1. claimed[p][d] \in Nat /\ attempts[d] \in Nat /\ d \in batch[p]
    BY <1>5 DEF MarkFailed, IsCurrent, TypeOK
  <2>2. claimed[p][d] >= MaxAttempts => attempts[d] = MaxAttempts
    BY <2>1
  <2>3. \A q \in Processes : batch'[q] \subseteq batch[q]
    BY <1>5 DEF MarkFailed, NextDelivery, TypeOK
  <2>4. \A q \in Processes, e \in Deliveries : claimed'[q][e] <= attempts[e]
    BY <1>5 DEF MarkFailed, NextDelivery, TypeOK
  <2>5. \A e \in Deliveries :
          \/ status'[e] = status[e]
          \/ e = d /\ status'[e] = "FAILED" /\ claimed[p][d] >= MaxAttempts
    BY <1>5 DEF MarkFailed, TypeOK
  <2>6. attempts' = attempts
    BY <1>5 DEF MarkFailed
  <2> QED
    BY <2>1, <2>2, <2>3, <2>4, <2>5, <2>6 DEF TypeOK
<1>6. ASSUME NEW p \in Processes, Forget(p) PROVE CountInv'
  BY <1>6 DEF Forget, tableVars, TypeOK
<1>7. CASE UNCHANGED <<status, attempts, batch, claimed>>
  BY <1>7
<1> QED
  BY <1>1, <1>2, <1>3, <1>4, <1>5, <1>6, <1>7
     DEF Next, RelayStep, PeopleStep, ComesDue, ResolveRecipients, ReadReportTo,
         ReadReportToActive, FindUnmuted, SkipMuted,
         CreateAndPublish, CreateReplyLost, ProcessEventFails,
         ProcessEventReturns, MarkFailedFails, Crash, Unname, Name,
         Deactivate, Reactivate, Mute, Unmute, MarkRead, MarkAllRead, Dismiss, vars,
         tableVars, relayVars

\* No delivery is ever attempted more often than the ceiling, for any number of
\* processes and deliveries.
THEOREM RelayAttemptsBounded == Spec => []AttemptsBounded
<1>1. CountInv => AttemptsBounded
  BY DEF CountInv
<1> QED
  BY <1>1, CountInit, CountStep, RelayTypeCorrect, PTL DEF Spec

\* No delivery is FAILED before its last attempt has been claimed, by a sweep or by
\* a relay whose claim is stale.
THEOREM RelayFailedOnlyWhenExhausted == Spec => []FailedOnlyWhenExhausted
<1>1. CountInv => FailedOnlyWhenExhausted
  BY DEF CountInv
<1> QED
  BY <1>1, CountInit, CountStep, RelayTypeCorrect, PTL DEF Spec

\* A settled delivery stays settled and is never claimed again; only a relay that
\* claimed it before can still replace its outcome, and a success by a failure only
\* as the last allowed attempt.
THEOREM RelaySettledStaysSettled == Spec => SettledStaysSettled
<1> DEFINE Keeps(d) ==
      status[d] \in Settled =>
        /\ status'[d] \in Settled
        /\ attempts'[d] = attempts[d]
        /\ \A p \in Processes : d \in batch'[p] => d \in batch[p]
        /\ status'[d] # status[d] =>
             \E p \in Processes :
               /\ d \in batch[p]
               /\ status'[d] = "FAILED" => claimed[p][d] >= MaxAttempts
<1>1. ASSUME TypeOK, [Next]_vars, NEW d \in Deliveries PROVE Keeps(d)
  <2>1. CASE \E e \in Deliveries, us \in SUBSET Users : Append(e, us)
    BY <1>1, <2>1 DEF Append, TypeOK, Settled, relayVars
  <2>2. CASE \E p \in Processes : ClaimBatch(p)
    BY <1>1, <2>2 DEF ClaimBatch, Exhausted, Oldest, Claimable, TypeOK, Settled
  <2>3. ASSUME NEW p \in Processes, NEW e \in Deliveries,
               MarkSucceeded(p, e) \/ MarkSucceededFails(p, e)
        PROVE  Keeps(d)
    BY <1>1, <2>3 DEF MarkSucceeded, MarkSucceededFails, NextDelivery, IsCurrent,
                      TypeOK, Settled
  <2>4. ASSUME NEW p \in Processes, NEW e \in Deliveries, MarkFailed(p, e)
        PROVE  Keeps(d)
    BY <1>1, <2>4 DEF MarkFailed, NextDelivery, IsCurrent, TypeOK, Settled
  <2>5. ASSUME NEW p \in Processes, Forget(p) PROVE Keeps(d)
    BY <1>1, <2>5 DEF Forget, TypeOK, tableVars
  <2>6. CASE UNCHANGED <<status, attempts, batch>>
    BY <2>6
  <2> QED
    BY <1>1, <2>1, <2>2, <2>3, <2>4, <2>5, <2>6
       DEF Next, RelayStep, PeopleStep, ComesDue, ResolveRecipients, ReadReportTo,
           ReadReportToActive, FindUnmuted, SkipMuted, CreateAndPublish,
           CreateReplyLost, ProcessEventFails, ProcessEventReturns,
           MarkFailedFails, Crash, Unname, Name, Deactivate, Reactivate, Mute,
           Unmute, MarkRead, MarkAllRead, Dismiss, vars, tableVars, relayVars
<1>2. TypeOK /\ [Next]_vars => [\A d \in Deliveries : Keeps(d)]_vars
  BY <1>1
<1> QED
  BY <1>2, RelayTypeCorrect, PTL DEF Spec, SettledStaysSettled

-----------------------------------------------------------------------------
(* Recipients *)

\* Nobody is owed anything at first.
LEMMA ReachInit == Init => ReachInv
BY DEF Init, ReachInv, OwedAreCurrent, FanOutCovers, SucceededReachedEveryone,
   IsCurrent

\* A process works on one delivery of its batch at a time.
LEMMA OneCurrent ==
  ASSUME TypeOK, NEW p \in Processes, NEW d \in Deliveries, NEW e \in Deliveries,
         IsCurrent(p, d), IsCurrent(p, e)
  PROVE  d = e
<1>1. d \in Nat /\ e \in Nat
  BY RelayAssumption
<1>2. d <= e /\ e <= d
  BY DEF IsCurrent
<1> QED
  BY <1>1, <1>2

\* A step of one relay that only changes its place, its recipients and its
\* candidate keeps those owed covered if it does so for what that relay is at.
LEMMA CoveredByOne ==
  ASSUME TypeOK, ReachInv, NEW p \in Processes,
         UNCHANGED <<tableVars, feedVars, batch, peopleVars>>,
         \A q \in Processes : q # p => /\ pc'[q] = pc[q]
                                      /\ todo'[q] = todo[q]
                                      /\ candidate'[q] = candidate[q],
         \A d \in Deliveries, u \in Users :
           IsCurrent(p, d) /\ u \in owed[d] /\ feed[<<d, u>>] = "NONE" =>
             /\ pc'[p] = "report" => u \in todo'[p] \cup ReportTo
             /\ pc'[p] = "active" => u \in todo'[p] \cup candidate'[p]
             /\ pc'[p] \in {"deliver", "insert"} => u \in todo'[p]
             /\ pc'[p] # "succeed"
  PROVE  ReachInv'
<1> USE DEF ReachInv, tableVars, feedVars, peopleVars
<1>1. OwedAreCurrent' /\ SucceededReachedEveryone'
  BY DEF OwedAreCurrent, SucceededReachedEveryone
<1>2. \A q \in Processes, d \in Deliveries : IsCurrent(q, d)' <=> IsCurrent(q, d)
  BY DEF IsCurrent
<1>3. FanOutCovers'
  <2> SUFFICES ASSUME NEW q \in Processes, NEW d \in Deliveries, NEW u \in Users,
                      IsCurrent(q, d), u \in owed[d], feed[<<d, u>>] = "NONE"
               PROVE  /\ pc'[q] = "report" => u \in todo'[q] \cup ReportTo
                      /\ pc'[q] = "active" => u \in todo'[q] \cup candidate'[q]
                      /\ pc'[q] \in {"deliver", "insert"} => u \in todo'[q]
                      /\ pc'[q] # "succeed"
    BY <1>2 DEF FanOutCovers
  <2>1. CASE q = p
    BY <2>1
  <2>2. CASE q # p
    <3>1. pc'[q] = pc[q] /\ todo'[q] = todo[q] /\ candidate'[q] = candidate[q]
      BY <2>2
    <3> QED
      BY <3>1 DEF FanOutCovers
  <2> QED
    BY <2>1, <2>2
<1> QED
  BY <1>1, <1>3

\* Every step keeps those owed a delivery notified, or still to be notified by
\* each relay that is fanning it out.
LEMMA ReachStep == TypeOK /\ CountInv /\ ReachInv /\ [Next]_vars => ReachInv'
<1> SUFFICES ASSUME TypeOK, CountInv, ReachInv, [Next]_vars PROVE ReachInv'
  OBVIOUS
<1> USE DEF ReachInv, OwedAreCurrent, FanOutCovers, SucceededReachedEveryone
<1>1. ASSUME NEW d \in Deliveries, NEW us \in SUBSET Users, Append(d, us)
      PROVE  ReachInv'
  <2>1. \A p \in Processes : ~ IsCurrent(p, d)
    BY <1>1 DEF Append, CountInv, ClaimsRecorded, IsCurrent
  <2>2. \A p \in Processes, e \in Deliveries : IsCurrent(p, e)' => IsCurrent(p, e)
    BY <1>1 DEF Append, relayVars, IsCurrent
  <2>3. OwedAreCurrent'
    BY <1>1 DEF Append, TypeOK
  <2>4. FanOutCovers'
    BY <1>1, <2>1, <2>2 DEF Append, TypeOK, feedVars, relayVars
  <2>5. SucceededReachedEveryone'
    BY <1>1 DEF Append, TypeOK, feedVars
  <2> QED
    BY <2>3, <2>4, <2>5
<1>2. ASSUME NEW p \in Processes, ClaimBatch(p) PROVE ReachInv'
  BY <1>2 DEF ClaimBatch, TypeOK, feedVars, peopleVars, IsCurrent
<1>3. ASSUME NEW p \in Processes, RelayStep(p) PROVE ReachInv'
  <2>1. ASSUME NEW d \in Deliveries, ResolveRecipients(p, d) PROVE ReachInv'
    <3>1. ASSUME NEW e \in Deliveries, NEW u \in Users, IsCurrent(p, e), u \in owed[e]
          PROVE  u \in todo'[p] \cup ReportTo /\ (ReportTo = {} => u \in todo'[p])
      <4>1. e = d
        BY <2>1, <3>1, OneCurrent DEF ResolveRecipients
      <4>2. u \in named[d] /\ u \in active
        BY <3>1, <4>1
      <4> QED
        BY <2>1, <4>2 DEF ResolveRecipients, TypeOK
    <3>2. pc'[p] = IF ReportTo = {} THEN "deliver" ELSE "report"
      BY <2>1 DEF ResolveRecipients, TypeOK
    <3>3. \A q \in Processes : q # p => /\ pc'[q] = pc[q]
                                       /\ todo'[q] = todo[q]
                                       /\ candidate'[q] = candidate[q]
      BY <2>1 DEF ResolveRecipients, TypeOK
    <3>4. UNCHANGED <<tableVars, feedVars, batch, peopleVars>>
      BY <2>1 DEF ResolveRecipients
    <3> QED
      BY <3>1, <3>2, <3>3, <3>4, CoveredByOne
  <2>2. ASSUME NEW u \in Users, SkipMuted(p, u) PROVE ReachInv'
    BY <2>2 DEF SkipMuted, TypeOK, tableVars, feedVars, peopleVars, IsCurrent
  <2>3. ASSUME NEW d \in Deliveries, NEW u \in Users, CreateAndPublish(p, d, u)
        PROVE  ReachInv'
    BY <2>3, OneCurrent
       DEF CreateAndPublish, CreateIfAbsent, TypeOK, tableVars, peopleVars, IsCurrent
  <2>4. ASSUME NEW d \in Deliveries, NEW u \in Users, CreateReplyLost(p, d, u)
        PROVE  ReachInv'
    BY <2>4 DEF CreateReplyLost, CreateIfAbsent, TypeOK, tableVars, peopleVars, IsCurrent
  <2>5. CASE ProcessEventFails(p)
    BY <2>5 DEF ProcessEventFails, TypeOK, tableVars, feedVars, peopleVars, IsCurrent
  <2>6. CASE ProcessEventReturns(p)
    BY <2>6 DEF ProcessEventReturns, TypeOK, tableVars, feedVars, peopleVars, IsCurrent
  <2>7. ASSUME NEW d \in Deliveries, MarkSucceeded(p, d) PROVE ReachInv'
    BY <2>7 DEF MarkSucceeded, NextDelivery, TypeOK, feedVars, peopleVars, IsCurrent
  <2>8. ASSUME NEW d \in Deliveries, MarkSucceededFails(p, d) PROVE ReachInv'
    BY <2>8 DEF MarkSucceededFails, TypeOK, feedVars, peopleVars, IsCurrent
  <2>9. ASSUME NEW d \in Deliveries, MarkFailed(p, d) PROVE ReachInv'
    BY <2>9 DEF MarkFailed, NextDelivery, TypeOK, feedVars, peopleVars, IsCurrent
  <2>10. CASE MarkFailedFails(p)
    BY <2>10 DEF MarkFailedFails, Forget, TypeOK, tableVars, feedVars, peopleVars,
                 IsCurrent
  <2>11. ASSUME NEW d \in Deliveries, ReadReportTo(p, d) PROVE ReachInv'
    <3>1. ASSUME NEW e \in Deliveries, NEW u \in Users, IsCurrent(p, e),
                 u \in owed[e], feed[<<e, u>>] = "NONE"
          PROVE  /\ u \in todo'[p] \cup candidate'[p]
                 /\ named[d] \cap ReportTo = {} => u \in todo'[p]
      <4>1. e = d
        BY <2>11, <3>1, OneCurrent DEF ReadReportTo
      <4>2. u \in named[d] /\ u \in todo[p] \cup ReportTo
        BY <2>11, <3>1, <4>1 DEF ReadReportTo
      <4> QED
        BY <2>11, <4>2 DEF ReadReportTo, TypeOK
    <3>2. pc'[p] = IF named[d] \cap ReportTo = {} THEN "deliver" ELSE "active"
      BY <2>11 DEF ReadReportTo, TypeOK
    <3>3. \A q \in Processes : q # p => /\ pc'[q] = pc[q]
                                       /\ todo'[q] = todo[q]
                                       /\ candidate'[q] = candidate[q]
      BY <2>11 DEF ReadReportTo, TypeOK
    <3>4. UNCHANGED <<tableVars, feedVars, batch, peopleVars>>
      BY <2>11 DEF ReadReportTo
    <3> QED
      BY <3>1, <3>2, <3>3, <3>4, CoveredByOne
  <2>12. CASE ReadReportToActive(p)
    BY <2>12 DEF ReadReportToActive, TypeOK, tableVars, feedVars, peopleVars, IsCurrent
  <2>13. ASSUME NEW u \in Users, FindUnmuted(p, u) PROVE ReachInv'
    BY <2>13 DEF FindUnmuted, TypeOK, tableVars, feedVars, peopleVars, IsCurrent
  <2> QED
    BY <1>3, <2>1, <2>2, <2>3, <2>4, <2>5, <2>6, <2>7, <2>8, <2>9, <2>10, <2>11,
       <2>12, <2>13
       DEF RelayStep
<1>4. ASSUME NEW p \in Processes, Crash(p) PROVE ReachInv'
  BY <1>4 DEF Crash, Forget, TypeOK, tableVars, feedVars, peopleVars, IsCurrent
<1>5. CASE PeopleStep
  <2> USE DEF TypeOK, tableVars, feedVars, relayVars, peopleVars, IsCurrent
  <2>1. ASSUME NEW d \in Deliveries, NEW u \in Users, Unname(d, u)
        PROVE  ReachInv'
    BY <2>1 DEF Unname
  <2>2. ASSUME NEW d \in Deliveries, NEW u \in Users, Name(d, u)
        PROVE  ReachInv'
    BY <2>2 DEF Name
  <2>8. ASSUME NEW u \in Users, Deactivate(u) PROVE ReachInv'
    BY <2>8 DEF Deactivate, NoLongerOwed
  <2>9. ASSUME NEW u \in Users, Reactivate(u) PROVE ReachInv'
    BY <2>9 DEF Reactivate
  <2>3. ASSUME NEW u \in Users, Mute(u) PROVE ReachInv'
    BY <2>3 DEF Mute, NoLongerOwed
  <2>4. ASSUME NEW u \in Users, Unmute(u) PROVE ReachInv'
    BY <2>4 DEF Unmute
  <2>5. ASSUME NEW d \in Deliveries, NEW u \in Users, MarkRead(d, u)
        PROVE  ReachInv'
    BY <2>5 DEF MarkRead
  <2>6. ASSUME NEW u \in Users, MarkAllRead(u) PROVE ReachInv'
    BY <2>6 DEF MarkAllRead
  <2>7. ASSUME NEW d \in Deliveries, NEW u \in Users, Dismiss(d, u)
        PROVE  ReachInv'
    BY <2>7 DEF Dismiss
  <2> QED
    BY <1>5, <2>1, <2>2, <2>3, <2>4, <2>5, <2>6, <2>7, <2>8, <2>9 DEF PeopleStep
<1>6. ASSUME NEW d \in Deliveries, ComesDue(d) PROVE ReachInv'
  BY <1>6 DEF ComesDue, feedVars, relayVars, peopleVars, IsCurrent
<1>7. CASE UNCHANGED vars
  BY <1>7 DEF vars, tableVars, feedVars, relayVars, peopleVars, IsCurrent
<1> QED
  BY <1>1, <1>2, <1>3, <1>4, <1>5, <1>6, <1>7 DEF Next

\* A delivery is SUCCEEDED only once everyone steadily owed it has been
\* notified, whatever relays shared the work and whichever of them died.
THEOREM RelaySucceededReachedEveryone == Spec => []SucceededReachedEveryone
<1>1. ReachInv => SucceededReachedEveryone
  BY DEF ReachInv
<1> QED
  BY <1>1, ReachInit, ReachStep, CountInit, CountStep, RelayTypeCorrect, PTL DEF Spec

-----------------------------------------------------------------------------
(* Frames and feeds *)

\* Every step publishes a frame only for a row that it creates.
LEMMA PushStep == TypeOK /\ PushedAtMostOnce /\ [Next]_vars => PushedAtMostOnce'
<1> SUFFICES ASSUME TypeOK, PushedAtMostOnce, [Next]_vars
             PROVE  PushedAtMostOnce'
  OBVIOUS
<1> USE DEF PushedAtMostOnce, TypeOK, Marks
<1>1. ASSUME NEW p \in Processes, NEW d \in Deliveries, NEW u \in Users,
             CreateAndPublish(p, d, u)
      PROVE  PushedAtMostOnce'
  BY <1>1 DEF CreateAndPublish, CreateIfAbsent
<1>2. ASSUME NEW p \in Processes, NEW d \in Deliveries, NEW u \in Users,
             CreateReplyLost(p, d, u)
      PROVE  PushedAtMostOnce'
  BY <1>2 DEF CreateReplyLost, CreateIfAbsent
<1>3. ASSUME NEW d \in Deliveries, NEW u \in Users, MarkRead(d, u) \/ Dismiss(d, u)
      PROVE  PushedAtMostOnce'
  BY <1>3 DEF MarkRead, Dismiss
<1>4. ASSUME NEW u \in Users, MarkAllRead(u) PROVE PushedAtMostOnce'
  BY <1>4 DEF MarkAllRead
<1>5. CASE UNCHANGED feedVars
  BY <1>5 DEF feedVars
<1> QED
  BY <1>1, <1>2, <1>3, <1>4, <1>5
     DEF Next, RelayStep, PeopleStep, Append, ClaimBatch, ComesDue,
         ResolveRecipients, ReadReportTo, ReadReportToActive, FindUnmuted,
         SkipMuted, ProcessEventFails, ProcessEventReturns,
         MarkSucceeded, MarkSucceededFails, MarkFailed, MarkFailedFails, Forget,
         Crash, Unname, Name, Deactivate, Reactivate, Mute, Unmute, vars

\* No recipient is sent two creation frames for one notification, however many
\* relays and retries work on its event.
THEOREM RelayPushedAtMostOnce == Spec => []PushedAtMostOnce
<1>1. Init => PushedAtMostOnce
  BY DEF Init, PushedAtMostOnce
<1> QED
  BY <1>1, PushStep, RelayTypeCorrect, PTL DEF Spec

\* A notification is never deleted, and neither a retry nor another relay makes a
\* read or dismissed one resurface.
THEOREM RelayNeverResurfaces == Spec => NeverResurfaces
<1> DEFINE Keeps(n) == /\ feed[n] # "NONE" => feed'[n] # "NONE"
                       /\ feed[n] = "READ" => feed'[n] \in {"READ", "DISMISSED"}
                       /\ feed[n] = "DISMISSED" => feed'[n] = "DISMISSED"
<1>1. ASSUME TypeOK, [Next]_vars, NEW n \in Deliveries \X Users PROVE Keeps(n)
  <2>1. ASSUME NEW p \in Processes, NEW d \in Deliveries, NEW u \in Users,
               CreateAndPublish(p, d, u) \/ CreateReplyLost(p, d, u)
        PROVE  Keeps(n)
    BY <1>1, <2>1 DEF CreateAndPublish, CreateReplyLost, CreateIfAbsent, TypeOK
  <2>2. ASSUME NEW d \in Deliveries, NEW u \in Users, MarkRead(d, u) \/ Dismiss(d, u)
        PROVE  Keeps(n)
    BY <1>1, <2>2 DEF MarkRead, Dismiss, TypeOK
  <2>3. ASSUME NEW u \in Users, MarkAllRead(u) PROVE Keeps(n)
    BY <1>1, <2>3 DEF MarkAllRead, TypeOK
  <2>4. CASE feed' = feed
    BY <2>4
  <2> QED
    BY <1>1, <2>1, <2>2, <2>3, <2>4
       DEF Next, RelayStep, PeopleStep, Append, ClaimBatch, ComesDue,
           ResolveRecipients, ReadReportTo, ReadReportToActive, FindUnmuted,
         SkipMuted, ProcessEventFails, ProcessEventReturns,
           MarkSucceeded, MarkSucceededFails, MarkFailed, MarkFailedFails, Forget,
           Crash, Unname, Name, Deactivate, Reactivate, Mute, Unmute, vars, feedVars
<1>2. TypeOK /\ [Next]_vars => [\A n \in Deliveries \X Users : Keeps(n)]_vars
  BY <1>1
<1> QED
  BY <1>2, RelayTypeCorrect, PTL DEF Spec, NeverResurfaces

-----------------------------------------------------------------------------
(* Refinement *)

\* The initial states of the relay are initial states of the promise.
LEMMA PromiseKeptInit == Init => Promised!PromiseInit
BY DEF Init, Promised!PromiseInit, NotifiedPairs, WorkedOn

\* A step that changes one relay's batch changes what is worked on accordingly.
LEMMA WorkedOnByOne ==
  ASSUME NEW p \in Processes,
         \A q \in Processes : q # p => batch'[q] = batch[q]
  PROVE  /\ batch'[p] \subseteq batch[p] => WorkedOn' \in SUBSET WorkedOn
         /\ batch[p] = {} => WorkedOn' = WorkedOn \cup batch'[p]
         /\ \A d \in batch[p] : batch'[p] = batch[p] \ {d} =>
              WorkedOn' \in {WorkedOn, WorkedOn \ {d}}
<1>1. \A e : e \in WorkedOn <=> \E q \in Processes : e \in batch[q]
  BY DEF WorkedOn
<1>2. \A e : e \in WorkedOn' <=> \E q \in Processes : e \in batch'[q]
  BY DEF WorkedOn
<1>3. ASSUME batch'[p] \subseteq batch[p] PROVE WorkedOn' \in SUBSET WorkedOn
  BY <1>1, <1>2, <1>3
<1>4. ASSUME batch[p] = {} PROVE WorkedOn' = WorkedOn \cup batch'[p]
  BY <1>1, <1>2, <1>4
<1>5. ASSUME NEW d \in batch[p], batch'[p] = batch[p] \ {d}
      PROVE  WorkedOn' \in {WorkedOn, WorkedOn \ {d}}
  <2>1. \A e : e # d => (e \in WorkedOn' <=> e \in WorkedOn)
    BY <1>1, <1>2, <1>5
  <2>2. d \in WorkedOn
    BY <1>1
  <2>3. CASE d \in WorkedOn'
    <3>1. WorkedOn' = WorkedOn
      BY <2>1, <2>2, <2>3
    <3> QED
      BY <3>1
  <2>4. CASE d \notin WorkedOn'
    <3>1. WorkedOn' = WorkedOn \ {d}
      BY <2>1, <2>4
    <3> QED
      BY <3>1
  <2> QED
    BY <2>3, <2>4
<1> QED
  BY <1>3, <1>4, <1>5

\* Every step of the relay is a step of the promise or leaves it as it is.
LEMMA PromiseKeptStep ==
  TypeOK /\ CountInv /\ ReachInv /\ PushedAtMostOnce /\ [Next]_vars
    => [Promised!PromiseNext]_(Promised!promiseVars)
<1> SUFFICES ASSUME TypeOK, CountInv, ReachInv, PushedAtMostOnce, [Next]_vars
             PROVE  \/ Promised!PromiseNext
                    \/ UNCHANGED <<status, owed, NotifiedPairs, pushes, WorkedOn>>
  BY DEF Promised!promiseVars
<1> DEFINE Kept == \/ Promised!PromiseNext
                   \/ UNCHANGED <<status, owed, NotifiedPairs, pushes, WorkedOn>>
<1> USE DEF TypeOK
<1>1. ASSUME NEW d \in Deliveries, NEW us \in SUBSET Users, Append(d, us)
      PROVE  Kept
  <2>1. (us \cap active) \ muted \in SUBSET Users
    OBVIOUS
  <2>2. Promised!Promise(d, (us \cap active) \ muted)
    BY <1>1 DEF Append, feedVars, relayVars, NotifiedPairs, WorkedOn, Promised!Promise
  <2> QED
    BY <2>1, <2>2 DEF Promised!PromiseNext
<1>2. ASSUME NEW p \in Processes, ClaimBatch(p) PROVE Kept
  <2>1. Exhausted \in SUBSET Deliveries /\ Oldest \in SUBSET Deliveries
    BY DEF Exhausted, Oldest, Claimable
  <2>2. \A d \in Oldest \cup Exhausted : status[d] = "PENDING"
    BY DEF Exhausted, Oldest, Claimable
  <2>3. WorkedOn' = WorkedOn \cup Oldest
    BY <1>2, WorkedOnByOne DEF ClaimBatch
  <2>4. Promised!TakeUp(Oldest, Exhausted)
    BY <1>2, <2>2, <2>3
       DEF ClaimBatch, feedVars, peopleVars, NotifiedPairs, Promised!TakeUp
  <2> QED
    BY <2>1, <2>4 DEF Promised!PromiseNext
<1>3. ASSUME NEW p \in Processes, NEW d \in Deliveries, NEW u \in Users,
             CreateAndPublish(p, d, u) \/ CreateReplyLost(p, d, u)
      PROVE  Kept
  <2>1. status' = status /\ owed' = owed /\ WorkedOn' = WorkedOn
    BY <1>3 DEF CreateAndPublish, CreateReplyLost, tableVars, peopleVars, WorkedOn
  <2>2. \A n \in Deliveries \X Users :
          feed'[n] # "NONE" <=> n = <<d, u>> \/ feed[n] # "NONE"
    BY <1>3 DEF CreateAndPublish, CreateReplyLost, CreateIfAbsent
  <2>3. NotifiedPairs' = NotifiedPairs \cup {<<d, u>>}
    BY <2>2 DEF NotifiedPairs
  <2>4. d \in WorkedOn
    BY <1>3 DEF CreateAndPublish, CreateReplyLost, IsCurrent, WorkedOn
  <2>5. CASE <<d, u>> \in NotifiedPairs
    <3>1. pushes' = pushes
      BY <1>3, <2>5 DEF CreateAndPublish, CreateReplyLost, NotifiedPairs
    <3> QED
      BY <2>1, <2>3, <2>5, <3>1
  <2>6. CASE <<d, u>> \notin NotifiedPairs
    <3>1. feed[<<d, u>>] = "NONE" /\ pushes[<<d, u>>] = 0
      BY <2>6 DEF NotifiedPairs, PushedAtMostOnce
    <3>2. pushes' \in {pushes, [pushes EXCEPT ![<<d, u>>] = 1]}
      BY <1>3, <3>1 DEF CreateAndPublish, CreateReplyLost
    <3>3. Promised!Notify(d, u)
      BY <2>1, <2>3, <2>4, <2>6, <3>2 DEF Promised!Notify
    <3> QED
      BY <3>3 DEF Promised!PromiseNext
  <2> QED
    BY <2>5, <2>6
<1>4. ASSUME NEW p \in Processes, NEW d \in Deliveries,
             MarkSucceeded(p, d) \/ MarkSucceededFails(p, d)
      PROVE  Kept
  <2>1. owed' = owed /\ NotifiedPairs' = NotifiedPairs /\ pushes' = pushes
    BY <1>4 DEF MarkSucceeded, MarkSucceededFails, feedVars, peopleVars, NotifiedPairs
  <2>2. d \in batch[p] /\ d \in WorkedOn
    BY <1>4 DEF MarkSucceeded, MarkSucceededFails, IsCurrent, WorkedOn
  <2>3. WorkedOn' \in {WorkedOn, WorkedOn \ {d}}
    <3>1. CASE MarkSucceeded(p, d)
      BY <2>2, <3>1, WorkedOnByOne DEF MarkSucceeded, NextDelivery
    <3>2. CASE MarkSucceededFails(p, d)
      BY <3>2 DEF MarkSucceededFails, WorkedOn
    <3> QED
      BY <1>4, <3>1, <3>2
  <2>4. CASE status' = [status EXCEPT ![d] = "SUCCEEDED"]
    <3>1. \A u \in owed[d] : <<d, u>> \in NotifiedPairs
      BY <1>4 DEF MarkSucceeded, MarkSucceededFails, ReachInv, FanOutCovers,
                  NotifiedPairs
    <3>2. Promised!Succeed(d)
      BY <2>1, <2>2, <2>3, <2>4, <3>1
         DEF Promised!Succeed, Promised!NotifiedOf, Promised!MayLeave
    <3> QED
      BY <3>2 DEF Promised!PromiseNext
  <2>5. CASE MarkSucceededFails(p, d) /\ status' = status
    BY <2>1, <2>5 DEF MarkSucceededFails, WorkedOn
  <2> QED
    BY <1>4, <2>4, <2>5 DEF MarkSucceeded, MarkSucceededFails
<1>5. ASSUME NEW p \in Processes, NEW d \in Deliveries, MarkFailed(p, d)
      PROVE  Kept
  <2>1. owed' = owed /\ NotifiedPairs' = NotifiedPairs /\ pushes' = pushes
    BY <1>5 DEF MarkFailed, feedVars, peopleVars, NotifiedPairs
  <2>2. d \in batch[p] /\ d \in WorkedOn
    BY <1>5 DEF MarkFailed, IsCurrent, WorkedOn
  <2>3. WorkedOn' \in {WorkedOn, WorkedOn \ {d}}
    BY <1>5, <2>2, WorkedOnByOne DEF MarkFailed, NextDelivery
  <2>4. CASE status' = status
    <3>1. Promised!Drop
      BY <2>1, <2>3, <2>4 DEF Promised!Drop
    <3> QED
      BY <3>1 DEF Promised!PromiseNext
  <2>5. CASE status' = [status EXCEPT ![d] = "FAILED"]
    <3>1. Promised!GiveUp(d)
      BY <2>1, <2>2, <2>3, <2>5 DEF Promised!GiveUp, Promised!MayLeave
    <3> QED
      BY <3>1 DEF Promised!PromiseNext
  <2> QED
    BY <1>5, <2>4, <2>5 DEF MarkFailed
<1>6. ASSUME NEW p \in Processes, Forget(p) PROVE Kept
  <2>1. WorkedOn' \in SUBSET WorkedOn
    BY <1>6, WorkedOnByOne DEF Forget
  <2>2. Promised!Drop
    BY <1>6, <2>1
       DEF Forget, tableVars, feedVars, peopleVars, NotifiedPairs, Promised!Drop
  <2> QED
    BY <2>2 DEF Promised!PromiseNext
<1>7. ASSUME NEW u \in Users,
             \/ \E d \in Deliveries : Unname(d, u)
             \/ Deactivate(u)
             \/ Mute(u)
      PROVE  Kept
  <2>1. \A d \in Deliveries : owed'[d] \subseteq owed[d]
    BY <1>7 DEF Unname, Deactivate, Mute, NoLongerOwed
  <2>2. owed' \in [Deliveries -> SUBSET Users]
    BY <1>7 DEF Unname, Deactivate, Mute, NoLongerOwed
  <2>3. Promised!Release
    BY <1>7, <2>1, <2>2 DEF Unname, Deactivate, Mute, NoLongerOwed, tableVars, feedVars,
                relayVars, NotifiedPairs, WorkedOn, Promised!Release
  <2> QED
    BY <2>3 DEF Promised!PromiseNext
<1>8. ASSUME NEW d \in Deliveries, NEW u \in Users,
             MarkRead(d, u) \/ Dismiss(d, u) \/ MarkAllRead(u)
      PROVE  Kept
  <2>1. \A n \in Deliveries \X Users : feed'[n] # "NONE" <=> feed[n] # "NONE"
    BY <1>8 DEF MarkRead, Dismiss, MarkAllRead
  <2>2. NotifiedPairs' = NotifiedPairs
    BY <2>1 DEF NotifiedPairs
  <2> QED
    BY <1>8, <2>2 DEF MarkRead, Dismiss, MarkAllRead, tableVars, relayVars,
                      peopleVars, WorkedOn
<1>9. CASE UNCHANGED <<status, owed, feed, pushes, batch>>
  BY <1>9 DEF NotifiedPairs, WorkedOn
<1> QED
  BY <1>1, <1>2, <1>3, <1>4, <1>5, <1>6, <1>7, <1>8, <1>9
     DEF Next, RelayStep, PeopleStep, ComesDue, ResolveRecipients, ReadReportTo,
         ReadReportToActive, FindUnmuted, SkipMuted, ProcessEventFails,
         ProcessEventReturns, MarkFailedFails, Crash, Name, Reactivate, Unmute,
         MarkAllRead, vars, tableVars, feedVars, relayVars, peopleVars

\* The relay implements NotificationPromise.
THEOREM RelayKeepsPromise == Spec => KeepsPromise
<1>1. Init => PushedAtMostOnce
  BY DEF Init, PushedAtMostOnce
<1> USE DEF Promised!PromiseSpec
<1> QED
  BY <1>1, PromiseKeptInit, PromiseKeptStep, CountInit, CountStep, ReachInit,
     ReachStep, PushStep, RelayTypeCorrect, PTL DEF Spec, KeepsPromise

=============================================================================
