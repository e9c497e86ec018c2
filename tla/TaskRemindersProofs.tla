------------------------ MODULE TaskRemindersProofs ------------------------
(***************************************************************************)
(* Proofs about TaskReminders for any tasks, schedulers and bounds.        *)
(***************************************************************************)
EXTENDS TaskReminders, TLAPS

\* What a scheduler has read is of the rule its loop fires, was past its
\* deadline when the tick started, and was claimed due if it is overdue.
FoundInv ==
  \A s \in Schedulers :
    /\ asOf[s] <= now
    /\ \A o \in found[s] :
         /\ phase[s] \in {"matching", "overdue", "due"}
         /\ phase[s] \in {"matching", "overdue"} =>
              o.rule = OVERDUE /\ o.scheduledFor < asOf[s]
         /\ phase[s] = "due" => o.rule = DUE /\ o.scheduledFor <= asOf[s]
         /\ phase[s] = "overdue" => DueOf(o) \in claims

\* The outbox and the claim table tell the same story.
OutboxInv ==
  /\ AnnouncedOnce
  /\ ClaimedIsAnnounced
  /\ \A i \in 1 .. Len(outbox) : outbox[i] \in claims
  /\ OverdueFollowsDue
  /\ NeverEarly

IInv == TypeOK /\ FoundInv /\ OutboxInv

-----------------------------------------------------------------------------
(* Type correctness *)

\* An open task with a deadline stands for an occurrence of either rule.
LEMMA OccType ==
  ASSUME TypeOK, NEW t \in Tasks, NEW rule \in {DUE, OVERDUE}, dueAt[t] # NoDeadline
  PROVE  Occ(rule, t) \in Occurrence
BY DEF TypeOK, Occ, Occurrence

\* A deadline that an instant of the clock has reached is not NoDeadline.
LEMMA Reached ==
  ASSUME TypeOK, NEW t \in Tasks, NEW s \in Schedulers, dueAt[t] <= asOf[s]
  PROVE  dueAt[t] # NoDeadline
BY RemindersAssumption DEF TypeOK, NoDeadline, Instants

\* Init establishes the types.
LEMMA TypeOKInit == Init => TypeOK
BY RemindersAssumption DEF Init, TypeOK, Phases, Instants

\* Claiming keeps both tables typed, whatever the claim finds.
LEMMA TryClaimType ==
  ASSUME TypeOK, NEW o \in Occurrence, TryClaim(o)
  PROVE  claims' \subseteq Occurrence /\ outbox' \in Seq(Occurrence)
<1>1. CASE o \in claims
  BY <1>1 DEF TypeOK, TryClaim
<1>2. CASE o \notin claims
  BY <1>2 DEF TypeOK, TryClaim
<1> QED
  BY <1>1, <1>2

\* Every step preserves the types.
LEMMA TypeOKStep == TypeOK /\ [Next]_vars => TypeOK'
<1> SUFFICES ASSUME TypeOK, [Next]_vars PROVE TypeOK'
  OBVIOUS
<1> USE DEF Goto, Found, tickVars, taskVars, Phases
<1>1. ASSUME NEW s \in Schedulers, StartTick(s) PROVE TypeOK'
  BY <1>1 DEF TypeOK, StartTick
<1>2. ASSUME NEW s \in Schedulers, FindOverdueTasks(s) PROVE TypeOK'
  <2>1. \A t \in open : dueAt[t] < asOf[s] => Occ(OVERDUE, t) \in Occurrence
    <3> SUFFICES ASSUME NEW t \in open, dueAt[t] < asOf[s] PROVE Occ(OVERDUE, t) \in Occurrence
      OBVIOUS
    <3>1. t \in Tasks /\ dueAt[t] <= asOf[s]
      BY RemindersAssumption DEF TypeOK, Instants, NoDeadline
    <3> QED
      BY <3>1, OccType, Reached
  <2> QED
    BY <1>2, <2>1 DEF TypeOK, FindOverdueTasks
<1>3. ASSUME NEW s \in Schedulers, MatchDueClaims(s) PROVE TypeOK'
  BY <1>3 DEF TypeOK, MatchDueClaims
<1>4. ASSUME NEW s \in Schedulers, FindDueTasks(s) PROVE TypeOK'
  <2>1. \A t \in open : dueAt[t] # NoDeadline => Occ(DUE, t) \in Occurrence
    BY OccType DEF TypeOK
  <2> QED
    BY <1>4, <2>1 DEF TypeOK, FindDueTasks
<1>5. ASSUME NEW s \in Schedulers, NEW o \in found[s], ClaimAndFire(s, o) PROVE TypeOK'
  <2>1. o \in Occurrence
    BY <1>5 DEF TypeOK
  <2>2. claims' \subseteq Occurrence /\ outbox' \in Seq(Occurrence)
    BY <1>5, <2>1, TryClaimType DEF ClaimAndFire
  <2> QED
    BY <1>5, <2>2 DEF TypeOK, ClaimAndFire
<1>6. ASSUME NEW s \in Schedulers, EndTick(s) PROVE TypeOK'
  BY <1>6, RemindersAssumption DEF TypeOK, EndTick, Instants
<1>7. ASSUME NEW s \in Schedulers, TickFails(s) PROVE TypeOK'
  BY <1>7, RemindersAssumption DEF TypeOK, TickFails, Abandon, Instants
<1>8. ASSUME NEW s \in Schedulers, NEW o \in found[s], CommitReplyLost(s, o) PROVE TypeOK'
  <2>1. o \in Occurrence
    BY <1>8 DEF TypeOK
  <2>2. claims' \subseteq Occurrence /\ outbox' \in Seq(Occurrence)
    BY <1>8, <2>1, TryClaimType DEF CommitReplyLost
  <2> QED
    BY <1>8, <2>2, RemindersAssumption DEF TypeOK, CommitReplyLost, Abandon, Instants
<1>9. ASSUME NEW t \in Tasks, CloseTask(t) PROVE TypeOK'
  BY <1>9 DEF TypeOK, CloseTask
<1>10. ASSUME NEW t \in Tasks, NEW d \in Instants \union {NoDeadline}, Reschedule(t, d)
       PROVE  TypeOK'
  BY <1>10 DEF TypeOK, Reschedule
<1>11. ASSUME Tick PROVE TypeOK'
  BY <1>11, RemindersAssumption DEF TypeOK, Tick, Instants
<1>12. ASSUME UNCHANGED vars PROVE TypeOK'
  BY <1>12 DEF TypeOK, vars
<1> QED
  BY <1>1, <1>2, <1>3, <1>4, <1>5, <1>6, <1>7, <1>8, <1>9, <1>10, <1>11, <1>12
  DEF Next, Works, Fails

\* Every reachable state of the schedulers is well typed.
THEOREM RemindersTypeCorrect == Spec => []TypeOK
<1>1. TypeOK /\ [Next]_vars => TypeOK'
  BY TypeOKStep
<1> QED
  BY TypeOKInit, <1>1, PTL DEF Spec

-----------------------------------------------------------------------------
(* What a tick holds *)

LEMMA FoundInvInit == Init => FoundInv
BY DEF Init, FoundInv

\* No step withdraws a claim or turns the clock back.
LEMMA Grows ==
  ASSUME TypeOK, [Next]_vars
  PROVE  claims \subseteq claims' /\ now <= now' /\ now \in Nat /\ now' \in Nat
<1>1. claims \subseteq claims'
  BY DEF Next, Works, Fails, StartTick, FindOverdueTasks, MatchDueClaims, FindDueTasks,
     ClaimAndFire, EndTick, TickFails, CommitReplyLost, CloseTask, Reschedule, Tick, TryClaim,
     vars
<1>2. now' = now \/ now' = now + 1
  BY DEF Next, Works, Fails, StartTick, FindOverdueTasks, MatchDueClaims, FindDueTasks,
     ClaimAndFire, EndTick, TickFails, CommitReplyLost, CloseTask, Reschedule, Tick, vars
<1>3. now \in Nat
  BY RemindersAssumption DEF TypeOK, Instants
<1> QED
  BY <1>1, <1>2, <1>3

\* A step of one scheduler does not touch what another one holds, and the
\* tasks and the clock do not touch what any of them holds.
LEMMA FoundInvStep == TypeOK /\ FoundInv /\ [Next]_vars => FoundInv'
<1> SUFFICES ASSUME TypeOK, FoundInv, [Next]_vars PROVE FoundInv'
  OBVIOUS
<1> DEFINE Holds(s) ==
      /\ asOf[s] <= now
      /\ \A o \in found[s] :
           /\ phase[s] \in {"matching", "overdue", "due"}
           /\ phase[s] \in {"matching", "overdue"} =>
                o.rule = OVERDUE /\ o.scheduledFor < asOf[s]
           /\ phase[s] = "due" => o.rule = DUE /\ o.scheduledFor <= asOf[s]
           /\ phase[s] = "overdue" => DueOf(o) \in claims
<1>1. /\ claims \subseteq claims' /\ now <= now' /\ now \in Nat /\ now' \in Nat
  BY Grows
<1>2. \A r \in Schedulers : asOf[r] \in Nat
  BY RemindersAssumption DEF TypeOK, Instants
<1>3. ASSUME NEW r \in Schedulers, asOf'[r] = asOf[r], phase'[r] = phase[r],
             found'[r] \subseteq found[r]
      PROVE  Holds(r)'
  BY <1>1, <1>2, <1>3 DEF FoundInv
<1>4. ASSUME NEW r \in Schedulers, found'[r] = {}, asOf'[r] \in {asOf[r], now, 0}
      PROVE  Holds(r)'
  BY <1>1, <1>2, <1>4 DEF FoundInv
<1> USE DEF Goto, Found
<1>5. ASSUME NEW s \in Schedulers, StartTick(s), NEW r \in Schedulers PROVE Holds(r)'
  <2>1. CASE r = s
    <3>1. found[s] = {}
      BY <1>5 DEF StartTick, FoundInv
    <3> QED
      BY <1>4, <1>5, <2>1, <3>1 DEF StartTick, TypeOK
  <2>2. CASE r # s
    BY <1>3, <1>5, <2>2 DEF StartTick, TypeOK
  <2> QED
    BY <2>1, <2>2
<1>6. ASSUME NEW s \in Schedulers, FindOverdueTasks(s), NEW r \in Schedulers PROVE Holds(r)'
  <2>1. CASE r = s
    BY <1>1, <1>6, <2>1 DEF FindOverdueTasks, FoundInv, TypeOK, Occ
  <2>2. CASE r # s
    BY <1>3, <1>6, <2>2 DEF FindOverdueTasks, TypeOK
  <2> QED
    BY <2>1, <2>2
<1>7. ASSUME NEW s \in Schedulers, MatchDueClaims(s), NEW r \in Schedulers PROVE Holds(r)'
  <2>1. CASE r = s
    BY <1>1, <1>7, <2>1 DEF MatchDueClaims, FoundInv, TypeOK
  <2>2. CASE r # s
    BY <1>3, <1>7, <2>2 DEF MatchDueClaims, TypeOK
  <2> QED
    BY <2>1, <2>2
<1>8. ASSUME NEW s \in Schedulers, FindDueTasks(s), NEW r \in Schedulers PROVE Holds(r)'
  <2>1. CASE r = s
    BY <1>1, <1>8, <2>1 DEF FindDueTasks, FoundInv, TypeOK, Occ
  <2>2. CASE r # s
    BY <1>3, <1>8, <2>2 DEF FindDueTasks, TypeOK
  <2> QED
    BY <2>1, <2>2
<1>9. ASSUME NEW s \in Schedulers, NEW o \in found[s], ClaimAndFire(s, o), NEW r \in Schedulers
      PROVE  Holds(r)'
  BY <1>3, <1>9 DEF ClaimAndFire, TypeOK
<1>10. ASSUME NEW s \in Schedulers, EndTick(s), NEW r \in Schedulers PROVE Holds(r)'
  <2>1. CASE r = s
    BY <1>4, <1>10, <2>1 DEF EndTick, TypeOK
  <2>2. CASE r # s
    BY <1>3, <1>10, <2>2 DEF EndTick, TypeOK
  <2> QED
    BY <2>1, <2>2
<1>11. ASSUME NEW s \in Schedulers, Abandon(s), NEW r \in Schedulers PROVE Holds(r)'
  <2>1. CASE r = s
    BY <1>4, <1>11, <2>1 DEF Abandon, TypeOK
  <2>2. CASE r # s
    BY <1>3, <1>11, <2>2 DEF Abandon, TypeOK
  <2> QED
    BY <2>1, <2>2
<1>12. ASSUME UNCHANGED tickVars, NEW r \in Schedulers PROVE Holds(r)'
  BY <1>3, <1>12 DEF tickVars
<1>13. \A r \in Schedulers : Holds(r)'
  BY <1>5, <1>6, <1>7, <1>8, <1>9, <1>10, <1>11, <1>12
  DEF Next, Works, Fails, TickFails, CommitReplyLost, CloseTask, Reschedule, Tick, vars
<1> QED
  BY <1>13 DEF FoundInv

-----------------------------------------------------------------------------
(* The outbox *)

\* The claim table and the outbox change only by a claim of what a tick holds.
LEMMA OutboxSteps ==
  ASSUME [Next]_vars
  PROVE  \/ UNCHANGED <<claims, outbox>>
         \/ \E s \in Schedulers : \E o \in found[s] :
              phase[s] \in {"overdue", "due"} /\ TryClaim(o) /\ UNCHANGED now
BY DEF Next, Works, Fails, StartTick, FindOverdueTasks, MatchDueClaims, FindDueTasks,
   ClaimAndFire, EndTick, TickFails, CommitReplyLost, CloseTask, Reschedule, Tick, vars

LEMMA OutboxInvInit == Init => OutboxInv
BY DEF Init, OutboxInv, AnnouncedOnce, ClaimedIsAnnounced, OverdueFollowsDue, NeverEarly

\* A new claim appends its occurrence behind all the others.
LEMMA Appended ==
  ASSUME TypeOK, NEW o \in Occurrence, o \notin claims, TryClaim(o)
  PROVE  /\ Len(outbox') = Len(outbox) + 1 /\ Len(outbox) \in Nat
         /\ outbox'[Len(outbox) + 1] = o
         /\ \A i \in 1 .. Len(outbox) : outbox'[i] = outbox[i]
         /\ claims' = claims \union {o}
BY DEF TypeOK, TryClaim

\* What a claim announces is past the deadline it names.
LEMMA FoundIsDue ==
  ASSUME TypeOK, FoundInv, NEW s \in Schedulers, NEW o \in found[s],
         phase[s] \in {"overdue", "due"}
  PROVE  /\ o \in Occurrence
         /\ o.scheduledFor <= now
         /\ o.rule = OVERDUE => o.scheduledFor < now /\ DueOf(o) \in claims
<1>1. o \in Occurrence /\ asOf[s] \in Nat /\ now \in Nat /\ o.scheduledFor \in Nat
  BY RemindersAssumption DEF TypeOK, Occurrence, Instants
<1>2. asOf[s] <= now
  BY DEF FoundInv
<1>3. CASE phase[s] = "overdue"
  BY <1>1, <1>2, <1>3 DEF FoundInv
<1>4. CASE phase[s] = "due"
  BY <1>1, <1>2, <1>4 DEF FoundInv, DUE, OVERDUE
<1> QED
  BY <1>1, <1>3, <1>4

LEMMA OutboxInvStep == TypeOK /\ FoundInv /\ OutboxInv /\ [Next]_vars => OutboxInv'
<1> SUFFICES ASSUME TypeOK, FoundInv, OutboxInv, [Next]_vars PROVE OutboxInv'
  OBVIOUS
<1>1. now \in Nat /\ now' \in Nat /\ now <= now'
  BY Grows
<1>2. ASSUME UNCHANGED <<claims, outbox>> PROVE OutboxInv'
  <2>1. \A i \in 1 .. Len(outbox) : outbox[i].scheduledFor \in Nat
    <3>1. \A i \in 1 .. Len(outbox) : outbox[i] \in Occurrence
      BY DEF TypeOK
    <3>2. \A o \in Occurrence : o.scheduledFor \in Nat
      BY RemindersAssumption DEF Occurrence, Instants
    <3> QED
      BY <3>1, <3>2
  <2>2. NeverEarly'
    BY <1>1, <1>2, <2>1 DEF OutboxInv, NeverEarly
  <2> QED
    BY <1>2, <2>2 DEF OutboxInv, AnnouncedOnce, ClaimedIsAnnounced, OverdueFollowsDue
<1>3. ASSUME NEW s \in Schedulers, NEW o \in found[s],
             phase[s] \in {"overdue", "due"}, TryClaim(o), UNCHANGED now
      PROVE  OutboxInv'
  <2>1. CASE o \in claims
    BY <1>2, <1>3, <2>1 DEF TryClaim
  <2>2. CASE o \notin claims
    <3> DEFINE n == Len(outbox)
    <3>1. /\ o \in Occurrence
          /\ o.scheduledFor <= now
          /\ o.rule = OVERDUE => o.scheduledFor < now /\ DueOf(o) \in claims
      BY <1>3, FoundIsDue
    <3>2. /\ Len(outbox') = n + 1 /\ n \in Nat
          /\ outbox'[n + 1] = o
          /\ \A i \in 1 .. n : outbox'[i] = outbox[i]
          /\ claims' = claims \union {o}
      BY <1>3, <2>2, <3>1, Appended
    <3>3. \A i \in 1 .. n : outbox[i] \in claims /\ outbox[i] # o
      BY <2>2 DEF OutboxInv
    <3> HIDE DEF n
    <3>4. \A i \in 1 .. (n + 1) : i \in 1 .. n \/ i = n + 1
      BY <3>2
    <3>5. \A i \in 1 .. n : i \in 1 .. (n + 1)
      BY <3>2
    <3>6. n + 1 \in 1 .. (n + 1) /\ n + 1 \notin 1 .. n
      BY <3>2
    <3>7. AnnouncedOnce'
      BY <3>2, <3>3, <3>4 DEF OutboxInv, AnnouncedOnce, n
    <3>8. ClaimedIsAnnounced'
      BY <3>2, <3>5, <3>6 DEF OutboxInv, ClaimedIsAnnounced, n
    <3>9. (\A i \in 1 .. Len(outbox) : outbox[i] \in claims)'
      BY <3>2, <3>3, <3>4
    <3>10. ASSUME NEW j \in 1 .. (n + 1), outbox'[j].rule = OVERDUE
           PROVE  \E i \in 1 .. (j - 1) : outbox'[i] = DueOf(outbox'[j])
      <4>1. CASE j \in 1 .. n
        <5>1. PICK i \in 1 .. (j - 1) : outbox[i] = DueOf(outbox[j])
          BY <3>2, <3>10, <4>1 DEF OutboxInv, OverdueFollowsDue, n
        <5>2. i \in 1 .. n
          BY <3>2, <4>1, <5>1
        <5> QED
          BY <3>2, <4>1, <5>1, <5>2
      <4>2. CASE j = n + 1
        <5>1. DueOf(o) \in claims
          BY <3>1, <3>2, <3>10, <4>2
        <5>2. PICK i \in 1 .. n : outbox[i] = DueOf(o)
          BY <5>1 DEF OutboxInv, ClaimedIsAnnounced, n
        <5>3. i \in 1 .. (j - 1)
          BY <3>2, <4>2, <5>2
        <5> QED
          BY <3>2, <4>2, <5>2, <5>3
      <4> QED
        BY <3>4, <4>1, <4>2
    <3>11. OverdueFollowsDue'
      BY <3>2, <3>10 DEF OverdueFollowsDue
    <3>12. NeverEarly'
      BY <1>3, <3>1, <3>2, <3>4 DEF OutboxInv, NeverEarly, n
    <3> QED
      BY <3>7, <3>8, <3>9, <3>11, <3>12 DEF OutboxInv
  <2> QED
    BY <2>1, <2>2
<1> QED
  BY <1>2, <1>3, OutboxSteps

LEMMA IInvHolds == Spec => []IInv
<1>1. Init => IInv
  BY TypeOKInit, FoundInvInit, OutboxInvInit DEF IInv
<1>2. IInv /\ [Next]_vars => IInv'
  BY TypeOKStep, FoundInvStep, OutboxInvStep DEF IInv
<1> QED
  BY <1>1, <1>2, PTL DEF Spec

\* However many schedulers scan, fail and start again, no occurrence is
\* announced twice.
THEOREM RemindersAnnouncedOnce == Spec => []AnnouncedOnce
<1>1. IInv => AnnouncedOnce
  BY DEF IInv, OutboxInv
<1> QED
  BY <1>1, IInvHolds, PTL

\* No claim is left without its event.
THEOREM RemindersClaimedIsAnnounced == Spec => []ClaimedIsAnnounced
<1>1. IInv => ClaimedIsAnnounced
  BY DEF IInv, OutboxInv
<1> QED
  BY <1>1, IInvHolds, PTL

\* TASK_OVERDUE never precedes TASK_DUE of the same task and deadline.
THEOREM RemindersOverdueFollowsDue == Spec => []OverdueFollowsDue
<1>1. IInv => OverdueFollowsDue
  BY DEF IInv, OutboxInv
<1> QED
  BY <1>1, IInvHolds, PTL

\* No reminder precedes the deadline it names.
THEOREM RemindersNeverEarly == Spec => []NeverEarly
<1>1. IInv => NeverEarly
  BY DEF IInv, OutboxInv
<1> QED
  BY <1>1, IInvHolds, PTL

=============================================================================
