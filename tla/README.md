# Verification of the Event Management and Creative Operations Platform

TLA+ models of the platform's API (`src/apps/api`), TLC configurations that check
them on small instances, and TLAPS proofs for instances of any size. Paths below
are relative to the repository root, `src/` in this project's `PROJECT.json`.

## 1. Inventory of the system

The platform is a NestJS API over one PostgreSQL database (through Prisma), an
object store for files, Socket.IO for real-time frames, and a Next.js client.
Nothing stops several API processes from running: every timer (relay, schedulers,
leave expiry) runs in every process, and the code says so where it matters
("concurrent scanner instance", `tasks-scheduler.repository.ts:94`). Every
transaction runs at PostgreSQL's default READ COMMITTED; no `isolationLevel` is
set anywhere. Where correctness under concurrency is intended, it rests on unique
indexes, CHECK constraints, conditional updates and `FOR UPDATE SKIP LOCKED`.

| Component | State | Operations | What is hard | What makes it correct |
| --- | --- | --- | --- | --- |
| outbox (`outbox/`) | `outbox_events`, `outbox_deliveries` | append, claimBatch with a sweep, markSucceeded, markFailed | leases, crashes, stale outcomes, retries | bounded attempts, final outcomes, no lost delivery |
| notification relay and fan-out (`notifications/`) | notifications, preferences; relay memory | poll, processEvent, createAndPublish, markRead, dismiss, preferences | partial fan-out, duplicates, changing audience | everyone owed is reached, once; read rows stay read |
| leave (`leave/`) | grants, append-only ledger, requests | grant, request, withdraw, decide, expiry tick | check-then-act over several statements, stale remainders | FIFO consumption, no overdraft, approved means paid |
| schedulers (tasks, meetings, todo, events, partners, reports) | `scheduled_occurrence_claims`, source rows | minute tick, claim and append in one transaction | overlapping ticks, rescheduling, catch-up | one event per occurrence, none for a superseded one |
| file management (`file-management/`) | `managed_files`, attachments, object store | intent, finalize, detach, cleanup | two stores without a common transaction | an available file has its object |
| attendance (`attendance/`) | sessions, punches, exceptions, overtime | kiosk and mobile check-in and check-out, review | duplicate punches, concurrent devices | one open session per employee |
| tasks (`tasks/`) | tasks, assignees, checklist, progress, reviews | transition, submit, review, assign, re-designate, edit the checklist | checks on a task read before the lock | each submission decided once, by the designated reviewer, on what was submitted |
| talent (`talent/`) | talent, assignments | assign, confirm, cancel | overlapping bookings | no double booking |
| auth, realtime (`auth/`, `realtime/`) | sessions, refresh tokens, rooms | login, rotate, revoke, join | rotation races, revoked sockets | a revoked session receives nothing |
| database (`database/`) | read-concurrency budget | acquire, release | everyone waiting on everyone | permits are returned |
| letters, documents, sharing | letters, numbers, grants | issue, share, revoke | numbering races | unique numbers, revoked is revoked |
| expenses, reports | rows with a status | submit, decide | concurrent decisions | one decision |
| access control (`rbac/`, users, departments, teams, employees) | roles, grants | evaluate, administer | - | pure evaluation |
| work containers, calendar, discuss, dashboards, analytics, audit, platform | rows | CRUD, read models | - | - |
| web client, shared packages | caches | rendering | - | - |

How they interact: a use case changes its rows and appends an event to the outbox
(in the same transaction, or, in several places, in a following one); the
schedulers do the same on a timer; the relay of some process claims the delivery,
hands the event to the notifications service, which reads the recipients from
current state, inserts one notification each and publishes a real-time frame.
Leave requests and decisions are such producers; attendance reads approved leave.

## 2. Modules

| Module | What it is |
| --- | --- |
| `NotificationPromise` | abstract specification of what the outbox and relay promise |
| `NotificationRelay` | outbox table, relays, fan-out and feeds |
| `NotificationRelayProofs` | its theorems, and that it implements `NotificationPromise` |
| `MCNotificationRelay` | its instances for TLC |
| `LeaveLedger` | grants, ledger, requests, decisions and the expiry job |
| `LeaveLedgerProofs` | its theorems |
| `MCLeaveLedger` | its instances for TLC |
| `TaskReminders` | the TASK_DUE and TASK_OVERDUE schedulers of all processes |
| `TaskRemindersProofs` | its theorems |
| `TaskReview` | one task: status, assignees, reviewer, checklist and reviews |
| `TaskReviewProofs` | its theorems |
| `MCTaskReview` | its instances for TLC |
| `ManagedFiles` | uploaded files: rows, attachments, object storage, cleanup |
| `ManagedFilesProofs` | its theorems |
| `MCManagedFiles` | its instances for TLC |
| `TaskProgress` | progress of tasks and subtasks under concurrent transactions |
| `TaskProgressProofs` | its theorems |
| `MCTaskProgress` | its instances for TLC |
| `Attendance` | punches, sessions and overtime approvals of one employee |
| `AttendanceProofs` | its theorems |
| `MCAttendance` | its instances for TLC |
| `SumProofs` | lemmas on sums over finite sets, for the proofs about leave and progress |

How steps are cut: one action is one awaited database statement or one committed
transaction. Between two of them any other process may act, the process may die
(`Crash`, `Abandon...`), and a statement may fail. A transaction that reads and
then writes at READ COMMITTED is two steps, the read and the commit, unless row
locks or a single statement make it one. What a handler holds between two awaits
is a variable of its process, lost in a crash.

### 2.1 NotificationRelay

`status`, `attempts` and `due` are the columns of `outbox_deliveries`; `due[d]`
stands for `next_attempt_at <= now()`, so that a lease, its lapse and a backoff are
one flag that `ComesDue` sets at any time: no bound relates the 30 second lease to
how long a batch takes. `ClaimBatch` is the transaction of
`OutboxRepository.claimBatch`: it sweeps exhausted rows to FAILED, takes the oldest
`BatchSize` due rows `FOR UPDATE SKIP LOCKED` (claims of two relays are therefore
atomic to each other) and increments `attempts`. The relay then handles its batch in
order. `ResolveRecipients` is the query an event handler starts with, for active users the
source record names; where it has to look further, as TASK_OVERDUE does for the user the
task reports to, `ReadReportTo` and `ReadReportToActive` are the two queries that follow.
Then comes, per recipient in any order, `SkipMuted`, or `FindUnmuted` and the insert
`CreateAndPublish` (`candidate` is the user one statement selected for the next), and at the
end `MarkSucceeded` or, on any error, `MarkFailed`. `CreateReplyLost` and
`MarkSucceededFails` are statements that commit and whose reply is lost. `feed` is the
`notifications` table under its unique key (recipient, type, occurrence key); `pushes`
counts creation frames. `named` is whom the source record names, by whatever relation;
those in `ReportTo` are found by the second read (`ReportTo = {}` for the events that have
none); somebody who passes from the one relation to the other counts as not named all
along. `active` are the active accounts and `muted` the preferences. All of it changes at any
time. `owed` is history: who has been named, active and unmuted ever since the event was
recorded.

Not modelled: the payload and the wording of notifications, the forty handlers one
by one (they share this shape), unread counts, pagination. One clock is assumed for
`next_attempt_at`, though the sweep uses the process's clock and the claim the
database's (listed as a hazard).

`NotificationPromise` knows deliveries that are owed to people, notified pairs, the frames
that told of them, an outcome, and which deliveries somebody works on; nothing of batches,
leases, attempts and crashes. Its safety half, `PromiseSpec`: notifications come from work
and are never taken back, a frame goes out at the moment its notification comes into being
or never, a success is recorded by somebody at work and only when everyone owed is
notified, and an outcome is final once nobody works on the delivery any more. Until then a
second worker may overwrite it in either direction, as the code can. Its liveness half,
`PromiseSettles`, is that every recorded delivery gets an outcome. The refinement maps
`outcome` to `status`, `notified` to the pairs with a row, `told` to `pushes` and `working`
to the deliveries in some relay's batch; `KeepsPromise` is the first half and
`EveryDeliverySettles` the second.

### 2.2 LeaveLedger

One employee and one leave type. The append-only ledger is kept as what it sums to:
`granted`, `drawn` and `lapsed` days per grant (GRANT, CONSUMPTION and EXPIRY
entries) and `spent`, the same CONSUMPTION entries per request. `Plans(n)` is
`planConsumption`: a set with the one FIFO plan for n days, or empty for
`insufficient_balance`. Grants are numbered in the order of `granted_at`, and nothing follows
from that order for when they are committed or expire: the timestamp is taken
(`leave.service.ts:167`) before the transaction that inserts the grant, so an older one may
be committed after a newer one was consumed, and `twoYearsLater` is not strictly monotone
around February 29. `CreateGrant` and `Expires` (`expired[g]` is `expires_at <= now`) are
therefore enabled in any order. `late` is history: pairs of a newer grant and an older one
that was committed while the newer was in use, drawn from or planned on; `OldestFirst` makes
no claim about those.

`decideRequest` is five steps: `ReadForDecision` (the row is PENDING),
`PlanConsumption` (the read in `consumeForRequest`), `Consume` (its commit),
`RecordDecision` (update by id), `AnnounceDecided` (the event, in a transaction of
its own). `AbandonDecision` ends it anywhere. `createRequest` is `CheckOverlap`,
`CheckBalance`, `CreateRequest`, `AnnounceSubmitted`; `withdrawRequest` is
`ReadForWithdrawal` and `Withdraw`, whose update fails on a decided row because of
the CHECK constraint `leave_requests_review_consistency`. The expiry job reads its
candidates with their remainders (`FindExpiring`) and writes them one at a time
(`ExpireGrant`), guarded by the unique index on EXPIRY entries.

Not modelled: leave types and their administration, the permission checks (they
decide who may be a `Manager`), RETURNED_FOR_CHANGES apart from REJECTED (no code
treats them differently), reasons and notes, the calendar and listings.

### 2.3 TaskReminders

`claims` is the table `scheduled_occurrence_claims` under its unique key, `outbox` the
sequence of events appended for the notifications consumer. A scheduler's `phase`
walks through `tick`: `StartTick` takes the instant `asOf`, `FindOverdueTasks` and
`MatchDueClaims` are the two queries of `findOverdueCandidates`, `ClaimAndFire` handles
one candidate of either loop in any order (no query orders its rows), `FindDueTasks` is
the second scan, `EndTick` the `finally`. `TryClaim` is the transaction: the row and the
event, or, when another process committed that row, nothing. `TickFails` stands for a
statement that throws and for the death of a process, which lose the same thing;
`CommitReplyLost` for a claim that commits unheard. Tasks are closed (`CloseTask`) and
rescheduled (`Reschedule`, to any instant or none) at any time.

Not modelled: clock skew between the processes (one clock), and the length of a tick and
of the interval, which nothing depends on: a tick may start whenever none is running.

### 2.4 TaskReview

One task. An API call is two steps: what the service reads and checks (`ReadFor...`),
remembered in `call`, and the repository's transaction (`SetStatus`, `RecordReview`,
`SetReportTo`, `WriteChecklist`). The transactions lock the task's row with
`FOR UPDATE` before anything else (`lockMutationAccess`), so each is one step; what they
look at again under the lock is their guard, and `Abandon` is every other way a call
ends. `AddAssignee` and `RemoveAssignee` read nothing of the task beforehand and are one
step. `Visible` is checked again at the commit, so a removed assignee's call is refused.

Not modelled: grants and roles (`Managers` are the active users who see and may review
the task, for as long as the behaviour lasts), who may edit whose checklist item, the
activity, audit and outbox rows (written in the same transaction), the text and order of
the checklist, progress and subtasks (2.6), comments and attachments.

### 2.5 ManagedFiles

`intent` is the parent a file was uploaded for, `state` the column of `managed_files`
(with "ABSENT" before and "DELETED" after the row), `objects` what is in storage, `links`
the rows of the nine tables that refer to a file, `deleted` the soft-deleted letters and
documents. Time is what it has made of a file: `age` runs from the upload grant (10 minutes)
to the expiry of the intent (24 hours), `due` holds unavailable files whose retention (7 or
30 days) has passed.

An intent is `CreatePending`, one action per kind of parent, then `CreateUploadGrant`, or
`DeletePending` when no grant could be issued. `Upload` is the client's, at any time while the
grant lasts. A finalization is `FindPending` (the row and the comparison with
`intentExpiresAt`), `ReadObject` (the object's metadata and the verification, an outcome),
then, for parents whose transaction locks a row first, `Lock...`, for the two kinds that
take the time earlier, `TakeTime`, and the commit: `MakeAvailable...`, `Settle` (which
expires an intent that is out of date by then) or `ReplaceTalentImage`. `Detach` and
`SoftDelete` belong to the parents. Cleanup is `FindCleanupCandidates`, then `DeleteObject`
and `DeleteCleanupCandidate` per candidate; `DeleteObjectFails` and `CleanupStops` end the
batch, as one rejected deletion does in the code. `RequireAttachment` is the deferred
constraint trigger of the migrations, `onTime` history: which files were attached before
their intent expired.

What the code does and a reader may not expect: cleanup is exported but no timer calls it,
so nothing is claimed about it ever running; a deleted document keeps its file AVAILABLE and
attached, where ADR 0002 section 5 has parents release their files; intents for documents of
leave requests exist in the schema only; an expired talent intent answers with a conflict and
stays PENDING; and when two photos of one talent are finalized at once, the second retires
the one it read, not the one that is current by then (`AvailableIsOwned` holds nevertheless,
since the deferred trigger refuses to commit a file left available with no row).

Not modelled: media types, sizes and scanning (an outcome of `ReadObject`), downloads and
lists (reads), permissions (a call has passed them, and may be overtaken by a deletion).

### 2.6 TaskProgress

`tasks`, `parent`, `progress` and, of each checklist, how many items are `open` and `done`.
A transaction of `createChecklistItem`, `removeChecklistItem`,
`setChecklistItemCompletion` or `createSubtask` runs at READ COMMITTED and is cut where it
reads rows it has not locked: `Begin` takes the row lock (`FOR UPDATE` of the task it edits,
or the foreign key's `KEY SHARE` of the parent it inserts under), makes its change and reads
what `recomputeAndPersistProgress` reads of its target: checklist, children and current
progress, which the code sends together. Whether the row is written is decided by that
read (`differs`, the code's `from !== to`), however the row changes before the write.
`AggregateParent` makes that write, if it is to be made, and reads the same of the parent;
`Commit` waits for the parent's row, writes it if it differed and commits; `Abandon`
rolls back. What is not committed is held in `call`, invisible to the others; waiting for
a row is a guard (`FreeToWrite`). `CreateTask` is one step.

`muddled` is history: tasks last recomputed by a transaction that overlapped another one in
the same family, or whose grandchildren changed since. `ProgressFollowsRule` says that every
other task has just the progress the rule gives. The muddled ones are real: two children that
change at once each read the other's old progress, and the later commit leaves the parent
with a mean that matches neither, where `docs/product/permission-catalog-and-role-matrix.md:219`
says the parent's progress is the mean of its subtasks' own; and since subtasks of subtasks
are allowed while the cascade goes up one level, a grandparent stays stale until something
below it is edited directly. The next transaction that has the family to itself heals it.

`Ratio` is `Math.round((completed / total) * 100)` in doubles. It differs from exact rounding
only where the share should be a half percent and falls short of it: `TiesDown` names those
checklists, which are rounded down. Up to 60 items there is one, 23 of 40, given as 57 percent
instead of 58. The proofs hold for any `TiesDown`.

Not modelled: the refusal of checklist edits while a review is open (`TaskReview`); and
`MaxItems` bounds a checklist. The three reads of one recomputation are one step: in the code
another transaction may commit between them, which only adds to what overlapping
transactions can spoil.

### 2.7 Attendance

One employee, who punches at a kiosk and on a phone. A punch is unique per type and client
request, so a session is known by the request that opened it: `status`, `checkOut`,
`potential`, and `approval` and `requested` of its overtime approval; `punched` are the
CHECK_OUT punches. `checkIn` is one step, since the unique indexes on punches and on open
sessions serialize it. `checkOut` is `FindPunch`, `FindOpenSession` and `CloseSession`, three
statements of a READ COMMITTED transaction that lock nothing; its minutes are arbitrary,
because the call may stall and the shift may be rescheduled in between. `ReadForDecision` and
`DecideOvertime` are the two statements of an overtime decision. `Abandon` is every other end.
The additional check a mobile punch makes beforehand only refuses more. `closedBy` is history.

Divergences this model shows without a run of their own (the properties are stated so as to
hold in spite of them): two check-outs with different request ids at once both close one
session, the second overwriting the first's punch and minutes, possibly after the employee
has checked in again, so that two sessions overlap in time, and possibly zeroing the
potential minutes while the approval for them stays; a retried mobile check-out is refused
by the search for an open session before it reaches the idempotent branch, and a kiosk retry
that runs concurrently fails on the unique index, where the comment at
`attendance.repository.ts:388` says that a retry resolves to the session already closed; and
overtime decisions update by id alone, so a second one at the same time overwrites the first,
where `schema.prisma:3493` says that the decision is immutable once made.

Not modelled: location exceptions (inserted by a statement of their own after the punch has
committed: a crash in between loses one although `mobile-attendance.repository.ts:134` says
it is "never silently dropped", and a retried check-in may record it twice), the kiosk's
password, the geofence, shifts and their assignments, the work calendar, summaries, and the
refusal of check-ins during approved leave (a read made beforehand, stale by nature).

## 3. Runs

Every run that passes finishes; every property has a mutant in `PROJECT.json`, a
plausible bug under which TLC finds it violated. Mutants stand in the modules just
before the definition they would replace.

| Run | Instance | Shows |
| --- | --- | --- |
| `relay_fan_out` | 1 delivery, 2 users found by separate reads, 2 processes, 2 attempts | `SucceededReachedEveryone`, `PushedAtMostOnce`, `NeverResurfaces`, and `KeepsPromise` (refinement) |
| `relay_queue` | 2 deliveries, 2 processes, 3 attempts, batches of 2, fairness | `AttemptsBounded`, `FailedOnlyWhenExhausted`, `SettledStaysSettled`, `EveryDeliverySettles` |
| `leave_decisions` | 1 request of 2 days, grants of 1 and 2 days, 2 managers, 2 expiry jobs, fairness | `ApprovedIsPaid`, `OldestFirst`, `LedgerReconciles`, `OverdraftBounded`, `EventsAreTrue`, `DecisionsStand`, `LapsedWithinGrant`, `UnusedDaysLapse` |
| `task_reminders` | 1 task, 2 schedulers, 2 instants, 2 failures, fairness | `AnnouncedOnce`, `ClaimedIsAnnounced`, `OverdueFollowsDue`, `NeverEarly`, `DeadlinesAreAnnounced` |
| `task_review` | 3 users (2 managers), 2 calls at once, 1 checklist item, 2 submissions | `SubmissionsDecided`, `CompletedByApproval`, `WorkFrozen` |
| `managed_files` | 2 files of one parent, 2 possible parents, 2 finalizations at once, all 8 kinds | `AvailableIsOwned`, `NoOrphanObject`, `AttachedKeepsObject`, `NothingAttachedToDeleted` |
| `task_progress` | 3 tasks, 2 transactions, 1 open and 1 completed item each | `ProgressFollowsRule`, `SomeoneProceeds`, and that TLC finds no deadlock |
| `attendance` | 3 requests, 3 calls at once, 0 to 2 minutes of overtime | `PunchesUsedOnce`, `OvertimeIsRequested` |

One run of each module also checks its `TypeOK`.

Runs that find the code to differ from what its documents or comments say (each is
listed under "findings"):

| Run | Claim | What happens |
| --- | --- | --- |
| `relay_exhausted` | an exhausted delivery "remains durably failed" (ADR 0003, section 3) | a relay that outlived the lease of the last attempt marks it SUCCEEDED after the sweep has marked it FAILED: `markSucceeded` updates by id |
| `leave_double_spend` | `consumeForRequest` "can never double-spend" | two approvals plan on the same days |
| `task_review_by_designated` | only the designated reviewer decides, never an assignee | the reviewer is assigned or replaced between the checks and the transaction |
| `managed_files_served` | an available file has its object, since cleanup only takes what expired | the intent expires during finalization, cleanup deletes the object, and `makeAvailable`, which looks at `state` alone, commits |

More divergences can be read off the models and have no run of their own, besides those in
2.5 to 2.7:

- The reverse of `relay_exhausted` happens too: a relay at its last allowed attempt marks a
  delivery FAILED that another relay had marked SUCCEEDED, or that it had itself, when the
  reply of `markSucceeded` was lost. `SettledStaysSettled` says what holds: a settled delivery
  is never open nor claimed again, and what changes its outcome is a relay that had claimed it
  before, to FAILED only as the last allowed attempt.
- ADR 0003 section 3 has the notification and the outcome of its delivery written atomically;
  they are separate statements (harmless: the retry meets the unique key).
- ADR 0003 section 2 wants recipients active when the notification is created; whether they
  are is read before the first is notified, and they are notified one by one.
- A decided leave request is decided again by a second decision that read it PENDING: the
  update is by id, and the second overwrites the first. `DecisionsStand` says what remains.
- The expiry job writes off a remainder it read before an approval consumed it, so that
  used days lapse as well; `LapsedWithinGrant` bounds what it can write.
- Overlapping leave requests are refused by a check before the insert; two at once both pass.
- Leave requests and decisions record their events in a second transaction, where
  `OutboxWriterService` says that a mutation and its event commit atomically: an event can be
  lost, and `EventsAreTrue` shows that none is false.

Bounds. Two processes (or managers) are enough for each race found so far: a stale
actor and one that moves on. Two deliveries distinguish "this one" from "the one
before it" in the queue and fit one batch, so that a failing `markFailed` drops the other; that
a delivery which keeps failing cannot starve younger ones would take more deliveries than a
batch holds, and is not exercised. Two recipients, one per read, make a fan-out partial.
Attempts are bounded by the code itself: two let one be a retry and the other the last.
Grants of one and two days and a request of two make plans that fit one grant, spill over
to the next, or do not fit. Two instants let a deadline be
now, past or still to come, be moved either way, and be due and overdue in turn; one task
is enough because neither queries nor claims relate two tasks. Two submissions let a call
that read the first meet the second. `CHECK_DEADLOCK FALSE` is
set where the system may rest: every delivery settled with no user to act, or every
request decided and no grant left to make, every file deleted, every request id used. In
`managed_files` two files meet for one document or one talent, and in one cleanup batch; the
constraint `OneParent` leaves out only behaviours in which the files belong to different
parents, which share nothing but the batch (the proofs have no such bound). Three tasks make
a chain of three or two siblings, and two transactions make each pair that can meet; one item
of each sort gives a checklist 0, 50 and 100 percent or none. Three requests and three calls
let a check-out, its retry and another one overlap a later session.

Fairness. `relay_queue` assumes that time passes (`ComesDue`), that every process
keeps polling on its two second timer and that each started statement returns or
throws; nothing is assumed about failures, crashes or producers. The bound on
attempts makes settling certain even if everything fails. `leave_decisions` assumes
that ticks keep starting in some process (weak) and that the expiry of a grant, if it is
tried again and again by one process or another, succeeds at last (strong): a database that
fails for ever expires nothing. `task_reminders` assumes
that the clock advances and that every process keeps taking its next step: the timer is
never cleared while the process lives, a restart starts it again, and awaited statements
return or throw; failures are bounded in number, not in place. `task_review`,
`task_progress` and `attendance` claim no liveness: their steps are people's; nor does
`managed_files`, whose cleanup no timer starts.

## 4. Proofs

`NotificationRelayProofs` (for any deliveries, users, processes, ceiling, batch size):
type correctness; `RelayAttemptsBounded` and `RelayFailedOnlyWhenExhausted`;
`RelaySettledStaysSettled`; `RelaySucceededReachedEveryone`; `RelayPushedAtMostOnce`; `RelayNeverResurfaces`;
and `RelayKeepsPromise`, the refinement. The invariants are strengthened by what a
relay remembers: a claim never counts more attempts than its row
(`ClaimsNotAhead`, which is why a stale claim cannot fail a row early), only recorded rows are claimed, and during a fan-out everyone
owed is notified, still in `todo`, or among those a later read will find (`FanOutCovers`),
which is what makes a SUCCEEDED delivery complete although several relays may work on it at
once and find its recipients by separate reads. A step of one relay concerns only what that
relay has in hand (`CoveredByOne`, `WorkedOnByOne`), which reduces both that invariant and
the refinement to one process at a time.

`LeaveLedgerProofs` (for any grants, requests, managers, processes): type
correctness; `LeaveApprovedIsPaid`, by the fact that an approval about to be recorded
has already spent its days (`DecisionIsPaid`); `LeaveDecisionsStand` and
`LeaveEventsAreTrue`, by what calls in progress know of their row (`CreatesAbsent`,
`ReviewsCreated`, `AnnouncesTrue`); and `LeaveLapsedWithinGrant`, by the bound on
remainders that ticks hold.

That no grant is overdrawn is not a theorem, since the code does not keep it
(`leave_double_spend`). What holds of the ledger, for any number of overlapping decisions, is
`LeaveLedgerReconciles`, `LeaveOverdraftBounded` and `LeaveOldestFirst`. The first needs that a plan waiting to be
committed gives just the days of its request, and that there is none otherwise
(`PlansCover`). The second counts the plans in progress against the bound: what is drawn
from a grant and what all managers plan to draw is at most the number of managers times the
grant (`OverdraftInv`); a new plan fits because it was within the grant when it was made,
and its manager had none. The third is about stale plans: a plan that takes from a grant
takes all that was left of the older ones (`PlansInOrder`), and whatever is committed in the
meantime only leaves less of them, but for an older grant that was not there when the plan
was made: those pairs are in `late`. `LeavePlanExists` and `LeavePlanUnique` are about
`planConsumption` itself: with one and the same ledger it finds a plan exactly when the
balance that `computeBalance` reports is enough, so that `insufficient_balance` after an
accepted request always means that the ledger has changed; and the set `Plans` that stands
for its loop has one element at most. The argument gives each grant a share computed from what
the older grants hold and shows, for every set of oldest grants, that shares and the loop
give the same sum (`SharesSum`).

`SumProofs` has the sums. `MapThenSumSet` and `FoldFunction` take the elements in an order
given by `CHOOSE`; a sum of natural numbers is shown to be the number of its units
(`SumCounts`, a cardinality), after which one element can be taken out of it (`SumSplit`),
sums add up (`SumAdd`) and are bounded (`SumBounded`) whatever that order. Induction is over
the subsets of a finite set, with the formula given as the set of those it holds for
(`SubsetInduction`, from the well-foundedness of inclusion), since an operator cannot be
instantiated.

`TaskRemindersProofs` (for any tasks, schedulers, instants, failures): type correctness;
`RemindersAnnouncedOnce`, `RemindersClaimedIsAnnounced`, `RemindersOverdueFollowsDue` and
`RemindersNeverEarly`. The invariant adds what a tick holds (`FoundInv`): candidates were
past their deadline when the tick started, are of the rule their loop fires, and an
overdue one has its due claim, which is never withdrawn; and that claims and events name
the same occurrences (`OutboxInv`).

`TaskReviewProofs` (for any users, items, calls, submissions): type correctness;
`ReviewSubmissionsDecided`, `ReviewCompletedByApproval`, `ReviewWorkFrozen`, and
`ReviewFinalStays` (a final status is never left), which no run repeats. The invariant adds that a status change on its way leaves TODO,
IN_PROGRESS or BLOCKED and never leads to COMPLETED (`CallInv`); the lemma `StatusSteps`
then says that status, reviews and submissions only change together.
Who decides is not among them: `DecidedByDesignated` fails (`task_review_by_designated`).

`ManagedFilesProofs` (for any files, parents and calls): type correctness;
`AvailableFilesAreOwned`, `ObjectsHaveRows`, `AttachedFilesKeepObjects` and
`DeletedStayUntouched`. The invariant adds what states and times of a file exclude (`RowInv`),
that a cleanup batch holds only files whose intent has expired, none of which was seen
pending and is attached on time (`BatchInv`: why acting on rows read earlier is safe), what a
finalization in progress remembers (`CallInv`) and that references point to the parent the
file was uploaded for (`OwnerInv`). `AvailableHasObject` fails just for files attached after
their intent expired (`managed_files_served`); `AttachedFilesKeepObjects` is the part that holds.

`TaskProgressProofs` (for any tasks, transactions and sizes of checklists):
`ProgressIsDerived`, that is `ProgressFollowsRule`; `ProgressTypeCorrect`; and
`ProgressSomeoneProceeds`. In the first the mean and the ratio stay unexpanded: what matters
is that the values written were computed from what is there at the commit. The invariant says what the parent links are (`TreeInv`), what a transaction
holds and which locks exclude which (`HoldInv`, `LockInv`), that a transaction that is `alone`
shares no task with another (`AloneInv`), and that its computed values are then up to date
(`ValueInv`), as is the decision not to write them (`OwnStands`). The type correctness says what they are: a rounded mean of percentages and a
rounded ratio are percentages (`ComputeInPercent`), for which there must be finitely many
tasks at a time (`TypeInv`). That transactions never all wait for each other follows from
the tree having no cycle, stated as a rank that grows from parent to subtask (`ForestInv`):
of the running transactions whose task has the least rank, one holds that task's row and
finds nobody holding its parent's, or none holds it (`HighestProceeds`).

`AttendanceProofs` (for any requests, calls and minutes): type correctness;
`PunchesAreUsedOnce` and `OvertimeReachesReview`. The invariant adds that the check-outs that
closed a session have punched (`PunchInv`), and that the session or approval a call has read
exists (`CallInv`).

Assumptions are those named in the modules: deliveries and grants are natural numbers
(their order), requests and what grants give are positive, `ReportTo` are users, grants, requests and managers are finitely many
(rows of a table and reviews in progress), ceilings and batch sizes are positive; instants and
other bounds are natural numbers; the creator of a task is one of its managers; `None` and
`Null` are none of the values they stand beside.

Only model-checked: liveness (`EveryDeliverySettles`, `UnusedDaysLapse`,
`DeadlinesAreAnnounced`), which needs fairness and is beyond the prover. Every invariant and
every action property of the passing runs is a theorem.

## 5. Plan

1. Done: the relay and its abstract promise; the leave ledger; the task reminder
   schedulers; the review of a task; its progress and that of its subtasks; managed files;
   attendance sessions and overtime.
2. Location exceptions of attendance; talent assignments and their overlap checks.
3. Auth and realtime: rotation of refresh tokens, revocation and rooms; the
   read-concurrency budget.
4. Composition: `TaskReminders` over the status and deadline of `TaskReview`, its events
   delivered by `NotificationRelay`, so that an occurrence becomes at most one
   notification per recipient and a stale one is seen for what it is. The other
   schedulers (meetings, to-do, events, partners, reports) as instances of its shape.
5. Letter numbering, sharing and revocation; the review of an expense.

## 6. Not modelled

Permission evaluation (pure, an input of the models), single-statement CRUD, read
models, dashboards, analytics, the web client, and generated code. Each is listed
with its reason in `PROJECT.json`.
