--------------------------- MODULE TaskReminders ---------------------------
(***************************************************************************)
(* The TASK_DUE / TASK_OVERDUE producer of apps/api/src/tasks.  Every API  *)
(* process runs its own scheduler: a timer starts a tick, the tick reads   *)
(* the tasks whose deadline has passed, and each occurrence it found is    *)
(* claimed and announced in a transaction of its own.  Nothing but the     *)
(* unique key of the claim table keeps the processes apart, and the tasks  *)
(* are edited, completed and rescheduled while a tick is between two of    *)
(* its statements.                                                         *)
(***************************************************************************)
EXTENDS Naturals, Sequences

CONSTANTS
  Tasks,        \* the tasks that exist
  Schedulers,   \* the API processes, one scheduler each
  MaxTime,      \* bound: the clock stops here
  MaxFailures   \* bound: ticks that fail or die with their process

ASSUME RemindersAssumption == MaxTime \in Nat /\ MaxFailures \in Nat

VARIABLES
  now,       \* the clock, read by new Date()
  open,      \* tasks whose status is neither COMPLETED nor CANCELLED
  dueAt,     \* Task.dueAt, NoDeadline for null
  claims,    \* rows of scheduled_occurrence_claims
  outbox,    \* the events appended for the notifications consumer, in order
  phase,     \* where each scheduler's tick stands; "idle" when not ticking
  asOf,      \* the instant a tick started at
  found,     \* occurrences the running tick has read and not yet fired
  failures

taskVars == <<open, dueAt>>
tickVars == <<phase, asOf, found>>
vars == <<now, taskVars, claims, outbox, tickVars, failures>>

Instants == 0 .. MaxTime
NoDeadline == MaxTime + 1     \* null: no instant ever reaches it
DUE == "task.due"
OVERDUE == "task.overdue"

(* One row of the claim table, and the occurrence key of one event: the    *)
(* rule, the task and the deadline the occurrence stands for.  Both rules  *)
(* have a single version.                                                  *)
Occurrence == [rule : {DUE, OVERDUE}, task : Tasks, scheduledFor : Instants]

Occ(rule, t) == [rule |-> rule, task |-> t, scheduledFor |-> dueAt[t]]
DueOf(o) == [o EXCEPT !.rule = DUE]

Phases == {"idle", "finding", "matching", "overdue", "due"}

Init ==
  /\ now = 0
  /\ open = Tasks
  /\ dueAt \in [Tasks -> Instants \union {NoDeadline}]
  /\ claims = {}
  /\ outbox = <<>>
  /\ phase = [s \in Schedulers |-> "idle"]
  /\ asOf = [s \in Schedulers |-> 0]
  /\ found = [s \in Schedulers |-> {}]
  /\ failures = 0

Goto(s, p) == phase' = [phase EXCEPT ![s] = p]
Found(s, occurrences) == found' = [found EXCEPT ![s] = occurrences]

-----------------------------------------------------------------------------
(* The tick of one scheduler, statement by statement.                      *)

(* The timer fires; while a tick is running it does nothing.               *)
StartTick(s) ==
  /\ phase[s] = "idle"
  /\ Goto(s, "finding")
  /\ asOf' = [asOf EXCEPT ![s] = now]
  /\ UNCHANGED <<now, taskVars, claims, outbox, found, failures>>

\* Mutant: dueAt lte instead of lt.
FindOverdueAtDeadline(s) ==
  /\ phase[s] = "finding"
  /\ Found(s, {Occ(OVERDUE, t) : t \in {u \in open : dueAt[u] <= asOf[s]}})
  /\ Goto(s, "matching")
  /\ UNCHANGED <<now, taskVars, claims, outbox, asOf, failures>>

(* findOverdueCandidates, first query: open tasks past their deadline.     *)
FindOverdueTasks(s) ==
  /\ phase[s] = "finding"
  /\ Found(s, {Occ(OVERDUE, t) : t \in {u \in open : dueAt[u] < asOf[s]}})
  /\ Goto(s, "matching")
  /\ UNCHANGED <<now, taskVars, claims, outbox, asOf, failures>>

\* Mutant: the due claim is looked up by the task alone.
MatchByTask(s) ==
  /\ phase[s] = "matching"
  /\ Found(s, {o \in found[s] : \E c \in claims : c.rule = DUE /\ c.task = o.task})
  /\ Goto(s, "overdue")
  /\ UNCHANGED <<now, taskVars, claims, outbox, asOf, failures>>

(* findOverdueCandidates, second query: of those, the ones whose TASK_DUE  *)
(* was claimed for the very deadline the first query read.                 *)
MatchDueClaims(s) ==
  /\ phase[s] = "matching"
  /\ Found(s, {o \in found[s] : DueOf(o) \in claims})
  /\ Goto(s, "overdue")
  /\ UNCHANGED <<now, taskVars, claims, outbox, asOf, failures>>

\* Mutant: tasks without a deadline are not left out.
FindDueWithoutDeadline(s) ==
  /\ phase[s] = "overdue"
  /\ found[s] = {}
  /\ Found(s, {Occ(DUE, t) :
                 t \in {u \in open : dueAt[u] = NoDeadline \/ dueAt[u] <= asOf[s]}})
  /\ Goto(s, "due")
  /\ UNCHANGED <<now, taskVars, claims, outbox, asOf, failures>>

(* findDueCandidates, once every overdue candidate was dealt with.         *)
FindDueTasks(s) ==
  /\ phase[s] = "overdue"
  /\ found[s] = {}
  /\ Found(s, {Occ(DUE, t) :
                 t \in {u \in open : dueAt[u] # NoDeadline /\ dueAt[u] <= asOf[s]}})
  /\ Goto(s, "due")
  /\ UNCHANGED <<now, taskVars, claims, outbox, asOf, failures>>

\* Mutant: the conflict is swallowed and the event appended all the same.
FireWithoutClaim(o) ==
  claims' = claims \union {o} /\ outbox' = Append(outbox, o)

\* Mutant: scheduled_for is missing from the unique key.
ClaimPerTask(o) ==
  IF \E c \in claims : c.rule = o.rule /\ c.task = o.task
  THEN UNCHANGED <<claims, outbox>>
  ELSE claims' = claims \union {o} /\ outbox' = Append(outbox, o)

(* The transaction of claimAndFire: the row and the event, or neither.  A  *)
(* conflict with a row another process committed is not an error, and then *)
(* nothing is appended.                                                    *)
TryClaim(o) ==
  IF o \in claims
  THEN UNCHANGED <<claims, outbox>>
  ELSE claims' = claims \union {o} /\ outbox' = Append(outbox, o)

(* One candidate of either loop; the queries do not order their rows.      *)
ClaimAndFire(s, o) ==
  /\ phase[s] \in {"overdue", "due"}
  /\ o \in found[s]
  /\ TryClaim(o)
  /\ Found(s, found[s] \ {o})
  /\ UNCHANGED <<now, taskVars, phase, asOf, failures>>

EndTick(s) ==
  /\ phase[s] = "due"
  /\ found[s] = {}
  /\ Goto(s, "idle")
  /\ asOf' = [asOf EXCEPT ![s] = 0]
  /\ UNCHANGED <<now, taskVars, claims, outbox, found, failures>>

(* The tick ends early: a statement threw, or the process died and was     *)
(* started again.  What the tick had read is gone.                         *)
Abandon(s) ==
  /\ failures < MaxFailures
  /\ failures' = failures + 1
  /\ Goto(s, "idle")
  /\ asOf' = [asOf EXCEPT ![s] = 0]
  /\ Found(s, {})

(* It ends before a statement took effect; an open transaction is rolled   *)
(* back.                                                                   *)
TickFails(s) ==
  /\ phase[s] # "idle"
  /\ Abandon(s)
  /\ UNCHANGED <<now, taskVars, claims, outbox>>

\* Mutant: the claim is committed before the event is appended.
ClaimThenDie(s, o) ==
  /\ phase[s] \in {"overdue", "due"}
  /\ o \in found[s]
  /\ claims' = claims \union {o}
  /\ Abandon(s)
  /\ UNCHANGED <<now, taskVars, outbox>>

(* Or the claim commits and the process never hears of it.                 *)
CommitReplyLost(s, o) ==
  /\ phase[s] \in {"overdue", "due"}
  /\ o \in found[s]
  /\ TryClaim(o)
  /\ Abandon(s)
  /\ UNCHANGED <<now, taskVars>>

-----------------------------------------------------------------------------
(* What happens to the tasks meanwhile.                                    *)

(* A transition to CANCELLED or an approving review: final, no transition  *)
(* leaves either status.                                                   *)
CloseTask(t) ==
  /\ t \in open
  /\ open' = open \ {t}
  /\ UNCHANGED <<now, dueAt, claims, outbox, tickVars, failures>>

(* update() moves or clears the deadline, of a closed task too.            *)
Reschedule(t, d) ==
  /\ d # dueAt[t]
  /\ dueAt' = [dueAt EXCEPT ![t] = d]
  /\ UNCHANGED <<now, open, claims, outbox, tickVars, failures>>

Tick ==
  /\ now < MaxTime
  /\ now' = now + 1
  /\ UNCHANGED <<taskVars, claims, outbox, tickVars, failures>>

-----------------------------------------------------------------------------
Works(s) ==
  \/ StartTick(s)
  \/ FindOverdueTasks(s)
  \/ MatchDueClaims(s)
  \/ FindDueTasks(s)
  \/ \E o \in found[s] : ClaimAndFire(s, o)
  \/ EndTick(s)

Fails(s) ==
  \/ TickFails(s)
  \/ \E o \in found[s] : CommitReplyLost(s, o)

Next ==
  \/ \E s \in Schedulers : Works(s) \/ Fails(s)
  \/ \E t \in Tasks : CloseTask(t)
  \/ \E t \in Tasks, d \in Instants \union {NoDeadline} : Reschedule(t, d)
  \/ Tick

Spec == Init /\ [][Next]_vars

(* The clock advances and every process keeps ticking: its timer is never  *)
(* cleared while it lives and every awaited statement returns or throws.   *)
FairSpec == Spec /\ WF_vars(Tick) /\ \A s \in Schedulers : WF_vars(Works(s))

-----------------------------------------------------------------------------
(* The variables keep their types; a candidate has a real deadline and is  *)
(* of the rule the running loop fires.                                     *)
TypeOK ==
  /\ now \in Instants
  /\ open \subseteq Tasks
  /\ dueAt \in [Tasks -> Instants \union {NoDeadline}]
  /\ claims \subseteq Occurrence
  /\ outbox \in Seq(Occurrence)
  /\ phase \in [Schedulers -> Phases]
  /\ asOf \in [Schedulers -> Instants]
  /\ found \in [Schedulers -> SUBSET Occurrence]
  /\ failures \in 0 .. MaxFailures

(* However many processes scan, fail and start again, one occurrence is    *)
(* announced at most once (tryClaim, claimAndFire).                        *)
AnnouncedOnce ==
  \A i, j \in 1 .. Len(outbox) : outbox[i] = outbox[j] => i = j

(* A claim is never left without its event: the claim stops every later    *)
(* tick from announcing that occurrence, so it would be lost for good.     *)
ClaimedIsAnnounced ==
  \A o \in claims : \E i \in 1 .. Len(outbox) : outbox[i] = o

(* TASK_OVERDUE is appended only after TASK_DUE of the same task for the   *)
(* same deadline, also when another process wrote the due claim, the tasks *)
(* are rescheduled between the two queries, or both were missed during     *)
(* downtime.                                                               *)
OverdueFollowsDue ==
  \A j \in 1 .. Len(outbox) : outbox[j].rule = OVERDUE =>
    \E i \in 1 .. (j - 1) : outbox[i] = DueOf(outbox[j])

(* No reminder is announced before the deadline it names, and none of an   *)
(* overdue task at the deadline itself.                                    *)
NeverEarly ==
  \A i \in 1 .. Len(outbox) :
    /\ outbox[i].scheduledFor <= now
    /\ outbox[i].rule = OVERDUE => outbox[i].scheduledFor < now

Announced(o) == \E i \in 1 .. Len(outbox) : outbox[i] = o

(* A task that stays open with one deadline is announced due and, once the *)
(* clock is past the deadline, overdue, whatever ticks failed before.      *)
DeadlinesAreAnnounced ==
  \A t \in Tasks, d \in Instants :
    LET Stays == t \in open /\ dueAt[t] = d
        Occurred(rule) == Announced([rule |-> rule, task |-> t, scheduledFor |-> d])
    IN  <>[]Stays => /\ <>Occurred(DUE)
                     /\ d < MaxTime => <>Occurred(OVERDUE)

=============================================================================
