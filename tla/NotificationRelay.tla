-------------------------- MODULE NotificationRelay --------------------------
(***************************************************************************)
(* The durable outbox and its only consumer: the outbox_deliveries table,  *)
(* the relay loop of every API process, the fan-out of one event to its    *)
(* recipients, and each recipient's notification feed.                     *)
(*                                                                         *)
(* A relay's step is one awaited database statement.  Between two of them  *)
(* any other process, producer or user may act, the process may die, and   *)
(* the statement may fail - or commit and lose its reply.  Time is the     *)
(* flag due[d]: next_attempt_at has been reached.  Nothing bounds how long *)
(* a batch takes, so a lease may lapse while its holder is still working.  *)
(***************************************************************************)
EXTENDS Naturals, FiniteSets

CONSTANTS Deliveries,   \* naturals: a delivery's place in (created_at, id) order
          Users,        \* possible recipients
          ReportTo,     \* those a second read finds: who an overdue task reports to
          Processes,    \* API processes, each running one relay
          MaxAttempts,  \* MAX_ATTEMPTS
          BatchSize     \* BATCH_SIZE

ASSUME RelayAssumption ==
  /\ Deliveries \subseteq Nat
  /\ ReportTo \subseteq Users
  /\ MaxAttempts \in Nat \ {0}
  /\ BatchSize \in Nat \ {0}

VARIABLES
  (* The outbox_deliveries table *)
  status,      \* [Deliveries -> Statuses], ABSENT before it is recorded
  attempts,    \* [Deliveries -> Nat], the attempts column
  due,         \* [Deliveries -> BOOLEAN], next_attempt_at <= now()
  (* Who the source records name, and what recipients chose *)
  named,       \* [Deliveries -> SUBSET Users], whom the source record names
  active,      \* SUBSET Users, users with status ACTIVE
  muted,       \* SUBSET Users, notification_preferences rows of this type
  (* The notifications table and the frames sent about it *)
  feed,        \* [Deliveries \X Users -> Marks], NONE while there is no row
  pushes,      \* [Deliveries \X Users -> Nat], creation frames published
  (* The relay of each process; memory, lost in a crash *)
  pc,          \* [Processes -> where the poll is]
  batch,       \* [Processes -> SUBSET Deliveries], claimed and not yet handled
  claimed,     \* [Processes -> [Deliveries -> Nat]], attempts as claimed
  todo,        \* [Processes -> SUBSET Users], recipients still to notify
  candidate,   \* [Processes -> SUBSET Users], whom one read selected for the next
  (* History: who was named, active and unmuted ever since it was recorded *)
  owed

tableVars == <<status, attempts, due>>
feedVars  == <<feed, pushes>>
relayVars == <<pc, batch, claimed, todo, candidate>>
peopleVars == <<named, active, muted, owed>>
vars == <<tableVars, feedVars, relayVars, peopleVars>>

Statuses == {"ABSENT", "PENDING", "SUCCEEDED", "FAILED"}
Settled  == {"SUCCEEDED", "FAILED"}
Marks    == {"NONE", "UNREAD", "READ", "DISMISSED"}
Places   == {"idle", "process", "report", "active", "deliver", "insert",
             "succeed", "fail"}
Processing == {"process", "report", "active", "deliver", "insert"}

Init ==
  /\ status = [d \in Deliveries |-> "ABSENT"]
  /\ attempts = [d \in Deliveries |-> 0]
  /\ due = [d \in Deliveries |-> FALSE]
  /\ named = [d \in Deliveries |-> {}]
  /\ active = Users
  /\ muted = {}
  /\ feed = [n \in Deliveries \X Users |-> "NONE"]
  /\ pushes = [n \in Deliveries \X Users |-> 0]
  /\ pc = [p \in Processes |-> "idle"]
  /\ batch = [p \in Processes |-> {}]
  /\ claimed = [p \in Processes |-> [d \in Deliveries |-> 0]]
  /\ todo = [p \in Processes |-> {}]
  /\ candidate = [p \in Processes |-> {}]
  /\ owed = [d \in Deliveries |-> {}]

-----------------------------------------------------------------------------
(* Producers and time *)

\* OutboxRepository.append: the delivery is due at once, with no attempt made.
Append(d, us) ==
  /\ status[d] = "ABSENT"
  /\ status' = [status EXCEPT ![d] = "PENDING"]
  /\ due' = [due EXCEPT ![d] = TRUE]
  /\ named' = [named EXCEPT ![d] = us]
  /\ owed' = [owed EXCEPT ![d] = (us \cap active) \ muted]
  /\ UNCHANGED <<attempts, active, muted, feedVars, relayVars>>

\* next_attempt_at passes: a first lease, a lapsed lease or a backoff is over.
ComesDue(d) ==
  /\ status[d] = "PENDING"
  /\ ~due[d]
  /\ due' = [due EXCEPT ![d] = TRUE]
  /\ UNCHANGED <<status, attempts, feedVars, relayVars, peopleVars>>

-----------------------------------------------------------------------------
(* The relay *)

\* Mutant: claims are not preceded by the sweep.
ExhaustedUnswept == {}

\* Rows that exhausted their attempts without a recorded outcome.
Exhausted == {d \in Deliveries : /\ status[d] = "PENDING"
                                 /\ due[d]
                                 /\ attempts[d] >= MaxAttempts}

Claimable == {d \in Deliveries : status[d] = "PENDING" /\ due[d]} \ Exhausted

\* The oldest BatchSize claimable rows: ORDER BY created_at, id LIMIT.
Oldest == {d \in Claimable :
             Cardinality({e \in Claimable : e < d}) < BatchSize}

\* Mutant: attempts are left to be counted when an outcome is recorded.
ClaimUncounted(p) ==
  /\ pc[p] = "idle"
  /\ Exhausted \cup Oldest # {}
  /\ status' = [d \in Deliveries |->
                  IF d \in Exhausted THEN "FAILED" ELSE status[d]]
  /\ due' = [d \in Deliveries |-> IF d \in Oldest THEN FALSE ELSE due[d]]
  /\ batch' = [batch EXCEPT ![p] = Oldest]
  /\ claimed' = [claimed EXCEPT ![p] =
                   [d \in Deliveries |-> IF d \in Oldest THEN attempts[d] + 1
                                                         ELSE 0]]
  /\ pc' = [pc EXCEPT ![p] = IF Oldest = {} THEN "idle" ELSE "process"]
  /\ UNCHANGED <<attempts, todo, candidate, feedVars, peopleVars>>

\* poll() up to and including claimBatch: one transaction that sweeps the
\* exhausted rows, claims the oldest due ones and leases them.
ClaimBatch(p) ==
  /\ pc[p] = "idle"
  /\ Exhausted \cup Oldest # {}
  /\ status' = [d \in Deliveries |->
                  IF d \in Exhausted THEN "FAILED" ELSE status[d]]
  /\ attempts' = [d \in Deliveries |->
                    IF d \in Oldest THEN attempts[d] + 1 ELSE attempts[d]]
  /\ due' = [d \in Deliveries |-> IF d \in Oldest THEN FALSE ELSE due[d]]
  /\ batch' = [batch EXCEPT ![p] = Oldest]
  /\ claimed' = [claimed EXCEPT ![p] =
                   [d \in Deliveries |-> IF d \in Oldest THEN attempts[d] + 1
                                                         ELSE 0]]
  /\ pc' = [pc EXCEPT ![p] = IF Oldest = {} THEN "idle" ELSE "process"]
  /\ UNCHANGED <<todo, candidate, feedVars, peopleVars>>

\* d is the delivery the loop of p is at: batches keep (created_at, id) order.
IsCurrent(p, d) == d \in batch[p] /\ \A e \in batch[p] : d <= e

\* processEvent reads the recipients from current state, not from the payload.
\* The first query joins the relation to active users.
ResolveRecipients(p, d) ==
  /\ pc[p] = "process"
  /\ IsCurrent(p, d)
  /\ todo' = [todo EXCEPT ![p] = (named[d] \cap active) \ ReportTo]
  /\ pc' = [pc EXCEPT ![p] = IF ReportTo = {} THEN "deliver" ELSE "report"]
  /\ UNCHANGED <<tableVars, feedVars, batch, claimed, candidate, peopleVars>>

\* TASK_OVERDUE: getTaskReportToId ...
ReadReportTo(p, d) ==
  /\ pc[p] = "report"
  /\ IsCurrent(p, d)
  /\ candidate' = [candidate EXCEPT ![p] = named[d] \cap ReportTo]
  /\ pc' = [pc EXCEPT ![p] =
              IF named[d] \cap ReportTo = {} THEN "deliver" ELSE "active"]
  /\ UNCHANGED <<tableVars, feedVars, batch, claimed, todo, peopleVars>>

\* ... and isUserActive, another read, of the user it returned.
ReadReportToActive(p) ==
  /\ pc[p] = "active"
  /\ todo' = [todo EXCEPT ![p] = @ \cup (candidate[p] \cap active)]
  /\ candidate' = [candidate EXCEPT ![p] = {}]
  /\ pc' = [pc EXCEPT ![p] = "deliver"]
  /\ UNCHANGED <<tableVars, feedVars, batch, claimed, peopleVars>>

\* isMuted: the recipient is passed over.
SkipMuted(p, u) ==
  /\ pc[p] = "deliver"
  /\ u \in todo[p] \cap muted
  /\ todo' = [todo EXCEPT ![p] = @ \ {u}]
  /\ UNCHANGED <<tableVars, feedVars, pc, batch, claimed, candidate, peopleVars>>

\* isMuted found no preference; the insert is the next statement.
FindUnmuted(p, u) ==
  /\ pc[p] = "deliver"
  /\ u \in todo[p] \ muted
  /\ candidate' = [candidate EXCEPT ![p] = {u}]
  /\ pc' = [pc EXCEPT ![p] = "insert"]
  /\ UNCHANGED <<tableVars, feedVars, batch, claimed, todo, peopleVars>>

\* Mutant: an upsert instead of an insert that tolerates its conflict.
UpsertUnread(d, u) == feed' = [feed EXCEPT ![<<d, u>>] = "UNREAD"]

\* createIfAbsent: the unique (recipient, type, occurrence) key decides.
CreateIfAbsent(d, u) ==
  feed' = [feed EXCEPT ![<<d, u>>] = IF @ = "NONE" THEN "UNREAD" ELSE @]

\* Mutant: the frame is published for a duplicate too.
CreateAndAlwaysPublish(p, d, u) ==
  /\ pc[p] = "insert"
  /\ IsCurrent(p, d)
  /\ u \in candidate[p]
  /\ CreateIfAbsent(d, u)
  /\ pushes' = [pushes EXCEPT ![<<d, u>>] = @ + 1]
  /\ todo' = [todo EXCEPT ![p] = @ \ {u}]
  /\ candidate' = [candidate EXCEPT ![p] = {}]
  /\ pc' = [pc EXCEPT ![p] = "deliver"]
  /\ UNCHANGED <<tableVars, batch, claimed, peopleVars>>

\* createAndPublish: a frame goes out only for the row this call created.
CreateAndPublish(p, d, u) ==
  /\ pc[p] = "insert"
  /\ IsCurrent(p, d)
  /\ u \in candidate[p]
  /\ CreateIfAbsent(d, u)
  /\ pushes' = IF feed[<<d, u>>] = "NONE"
                 THEN [pushes EXCEPT ![<<d, u>>] = @ + 1]
                 ELSE pushes
  /\ todo' = [todo EXCEPT ![p] = @ \ {u}]
  /\ candidate' = [candidate EXCEPT ![p] = {}]
  /\ pc' = [pc EXCEPT ![p] = "deliver"]
  /\ UNCHANGED <<tableVars, batch, claimed, peopleVars>>

\* The insert commits but its reply never arrives: no frame, and an error.
CreateReplyLost(p, d, u) ==
  /\ pc[p] = "insert"
  /\ IsCurrent(p, d)
  /\ u \in candidate[p]
  /\ CreateIfAbsent(d, u)
  /\ todo' = [todo EXCEPT ![p] = {}]
  /\ candidate' = [candidate EXCEPT ![p] = {}]
  /\ pc' = [pc EXCEPT ![p] = "fail"]
  /\ UNCHANGED <<tableVars, pushes, batch, claimed, peopleVars>>

\* Mutant: the consumer swallows its own errors.
ProcessEventSwallows(p) ==
  /\ pc[p] \in Processing
  /\ todo' = [todo EXCEPT ![p] = {}]
  /\ candidate' = [candidate EXCEPT ![p] = {}]
  /\ pc' = [pc EXCEPT ![p] = "succeed"]
  /\ UNCHANGED <<tableVars, feedVars, batch, claimed, peopleVars>>

\* processEvent throws: a read, a mute check or an insert failed.
ProcessEventFails(p) ==
  /\ pc[p] \in Processing
  /\ todo' = [todo EXCEPT ![p] = {}]
  /\ candidate' = [candidate EXCEPT ![p] = {}]
  /\ pc' = [pc EXCEPT ![p] = "fail"]
  /\ UNCHANGED <<tableVars, feedVars, batch, claimed, peopleVars>>

\* Mutant: the fan-out is not awaited.
ProcessEventUnawaited(p) ==
  /\ pc[p] = "deliver"
  /\ todo' = [todo EXCEPT ![p] = {}]
  /\ pc' = [pc EXCEPT ![p] = "succeed"]
  /\ UNCHANGED <<tableVars, feedVars, batch, claimed, candidate, peopleVars>>

ProcessEventReturns(p) ==
  /\ pc[p] = "deliver"
  /\ todo[p] = {}
  /\ pc' = [pc EXCEPT ![p] = "succeed"]
  /\ UNCHANGED <<tableVars, feedVars, batch, claimed, todo, candidate, peopleVars>>

\* The loop goes on with the rest of the batch, or the poll is over.
NextDelivery(p, d) ==
  /\ batch' = [batch EXCEPT ![p] = @ \ {d}]
  /\ claimed' = [claimed EXCEPT ![p] = [@ EXCEPT ![d] = 0]]
  /\ pc' = [pc EXCEPT ![p] = IF batch[p] \subseteq {d} THEN "idle" ELSE "process"]

\* markSucceeded: an update by id, whatever the row's status has become.
MarkSucceeded(p, d) ==
  /\ pc[p] = "succeed"
  /\ IsCurrent(p, d)
  /\ status' = [status EXCEPT ![d] = "SUCCEEDED"]
  /\ NextDelivery(p, d)
  /\ UNCHANGED <<attempts, due, feedVars, todo, candidate, peopleVars>>

\* markSucceeded throws, before or after its update committed: the same catch
\* block as for processEvent records a failure.
MarkSucceededFails(p, d) ==
  /\ pc[p] = "succeed"
  /\ IsCurrent(p, d)
  /\ \/ UNCHANGED status
     \/ status' = [status EXCEPT ![d] = "SUCCEEDED"]
  /\ pc' = [pc EXCEPT ![p] = "fail"]
  /\ UNCHANGED <<attempts, due, feedVars, batch, claimed, todo, candidate, peopleVars>>

\* Mutant: the ceiling is compared one attempt early.
MarkFailedEarly(p, d) ==
  /\ pc[p] = "fail"
  /\ IsCurrent(p, d)
  /\ IF claimed[p][d] + 1 >= MaxAttempts
       THEN status' = [status EXCEPT ![d] = "FAILED"] /\ UNCHANGED due
       ELSE due' = [due EXCEPT ![d] = FALSE] /\ UNCHANGED status
  /\ NextDelivery(p, d)
  /\ UNCHANGED <<attempts, feedVars, todo, candidate, peopleVars>>

\* Mutant: scheduling a retry also writes the status back to PENDING.
MarkFailedReopens(p, d) ==
  /\ pc[p] = "fail"
  /\ IsCurrent(p, d)
  /\ IF claimed[p][d] >= MaxAttempts
       THEN status' = [status EXCEPT ![d] = "FAILED"] /\ UNCHANGED due
       ELSE /\ due' = [due EXCEPT ![d] = FALSE]
            /\ status' = [status EXCEPT ![d] = "PENDING"]
  /\ NextDelivery(p, d)
  /\ UNCHANGED <<attempts, feedVars, todo, candidate, peopleVars>>

\* markFailed: FAILED once the attempt that was claimed was the last allowed,
\* else a later next_attempt_at.  Also an update by id.
MarkFailed(p, d) ==
  /\ pc[p] = "fail"
  /\ IsCurrent(p, d)
  /\ IF claimed[p][d] >= MaxAttempts
       THEN status' = [status EXCEPT ![d] = "FAILED"] /\ UNCHANGED due
       ELSE due' = [due EXCEPT ![d] = FALSE] /\ UNCHANGED status
  /\ NextDelivery(p, d)
  /\ UNCHANGED <<attempts, feedVars, todo, candidate, peopleVars>>

\* Mutant: the poll ends without dropping the batch it held.
ForgetPollOnly(p) ==
  /\ pc' = [pc EXCEPT ![p] = "idle"]
  /\ todo' = [todo EXCEPT ![p] = {}]
  /\ candidate' = [candidate EXCEPT ![p] = {}]
  /\ UNCHANGED <<tableVars, feedVars, batch, claimed, peopleVars>>

\* The process forgets its poll.
Forget(p) ==
  /\ pc' = [pc EXCEPT ![p] = "idle"]
  /\ batch' = [batch EXCEPT ![p] = {}]
  /\ claimed' = [claimed EXCEPT ![p] = [d \in Deliveries |-> 0]]
  /\ todo' = [todo EXCEPT ![p] = {}]
  /\ candidate' = [candidate EXCEPT ![p] = {}]
  /\ UNCHANGED <<tableVars, feedVars, peopleVars>>

\* markFailed throws: poll's outer catch drops the rest of the batch too.
MarkFailedFails(p) == pc[p] = "fail" /\ Forget(p)

\* The process dies and restarts.
Crash(p) == pc[p] # "idle" /\ Forget(p)

-----------------------------------------------------------------------------
(* The people behind the notifications *)

\* The source record stops naming a user (an assignee is removed, reports go to
\* someone else), or begins to.
Unname(d, u) ==
  /\ u \in named[d]
  /\ named' = [named EXCEPT ![d] = @ \ {u}]
  /\ owed' = [owed EXCEPT ![d] = @ \ {u}]
  /\ UNCHANGED <<tableVars, feedVars, relayVars, active, muted>>

Name(d, u) ==
  /\ status[d] # "ABSENT"
  /\ u \notin named[d]
  /\ named' = [named EXCEPT ![d] = @ \cup {u}]
  /\ UNCHANGED <<tableVars, feedVars, relayVars, active, muted, owed>>

\* Whatever reason somebody has for no longer being owed a notification.
NoLongerOwed(u) == owed' = [d \in Deliveries |-> owed[d] \ {u}]

\* An administrator deactivates an account, or activates it again.
Deactivate(u) ==
  /\ u \in active
  /\ active' = active \ {u}
  /\ NoLongerOwed(u)
  /\ UNCHANGED <<tableVars, feedVars, relayVars, named, muted>>

Reactivate(u) ==
  /\ u \in Users \ active
  /\ active' = active \cup {u}
  /\ UNCHANGED <<tableVars, feedVars, relayVars, named, muted, owed>>

\* setPreference
Mute(u) ==
  /\ u \notin muted
  /\ muted' = muted \cup {u}
  /\ NoLongerOwed(u)
  /\ UNCHANGED <<tableVars, feedVars, relayVars, named, active>>

Unmute(u) ==
  /\ u \in muted
  /\ muted' = muted \ {u}
  /\ UNCHANGED <<tableVars, feedVars, relayVars, named, active, owed>>

\* markRead: sets read_at only where it is null and the row is not dismissed.
MarkRead(d, u) ==
  /\ feed[<<d, u>>] = "UNREAD"
  /\ feed' = [feed EXCEPT ![<<d, u>>] = "READ"]
  /\ UNCHANGED <<tableVars, pushes, relayVars, peopleVars>>

MarkAllRead(u) ==
  /\ \E d \in Deliveries : feed[<<d, u>>] = "UNREAD"
  /\ feed' = [n \in Deliveries \X Users |->
                IF n[2] = u /\ feed[n] = "UNREAD" THEN "READ" ELSE feed[n]]
  /\ UNCHANGED <<tableVars, pushes, relayVars, peopleVars>>

\* dismiss: the row is hidden, never deleted, so that it still deduplicates.
Dismiss(d, u) ==
  /\ feed[<<d, u>>] \in {"UNREAD", "READ"}
  /\ feed' = [feed EXCEPT ![<<d, u>>] = "DISMISSED"]
  /\ UNCHANGED <<tableVars, pushes, relayVars, peopleVars>>

-----------------------------------------------------------------------------

RelayStep(p) ==
  \/ \E d \in Deliveries : ResolveRecipients(p, d)
  \/ \E d \in Deliveries : ReadReportTo(p, d)
  \/ ReadReportToActive(p)
  \/ \E u \in Users : SkipMuted(p, u)
  \/ \E u \in Users : FindUnmuted(p, u)
  \/ \E d \in Deliveries, u \in Users : CreateAndPublish(p, d, u)
  \/ \E d \in Deliveries, u \in Users : CreateReplyLost(p, d, u)
  \/ ProcessEventFails(p)
  \/ ProcessEventReturns(p)
  \/ \E d \in Deliveries : MarkSucceeded(p, d)
  \/ \E d \in Deliveries : MarkSucceededFails(p, d)
  \/ \E d \in Deliveries : MarkFailed(p, d)
  \/ MarkFailedFails(p)

PeopleStep ==
  \/ \E d \in Deliveries, u \in Users : Unname(d, u)
  \/ \E d \in Deliveries, u \in Users : Name(d, u)
  \/ \E u \in Users : Deactivate(u)
  \/ \E u \in Users : Reactivate(u)
  \/ \E u \in Users : Mute(u)
  \/ \E u \in Users : Unmute(u)
  \/ \E d \in Deliveries, u \in Users : MarkRead(d, u)
  \/ \E u \in Users : MarkAllRead(u)
  \/ \E d \in Deliveries, u \in Users : Dismiss(d, u)

Next ==
  \/ \E d \in Deliveries, us \in SUBSET Users : Append(d, us)
  \/ \E d \in Deliveries : ComesDue(d)
  \/ \E p \in Processes : ClaimBatch(p)
  \/ \E p \in Processes : RelayStep(p)
  \/ \E p \in Processes : Crash(p)
  \/ PeopleStep

Spec == Init /\ [][Next]_vars

\* The clock advances, every process keeps polling on its two-second timer and
\* every awaited statement returns or throws.  Nothing is asked of producers,
\* of users or of crashes.
Fairness ==
  /\ \A d \in Deliveries : WF_vars(ComesDue(d))
  /\ \A p \in Processes : WF_vars(ClaimBatch(p)) /\ WF_vars(RelayStep(p))

FairSpec == Spec /\ Fairness

-----------------------------------------------------------------------------
(* Properties *)

\* Every variable keeps its type; a relay holds deliveries exactly while it polls,
\* recipients still to notify only while it resolves them and fans out, and a
\* selected user only between the two statements that are about that user.
TypeOK ==
  /\ status \in [Deliveries -> Statuses]
  /\ attempts \in [Deliveries -> Nat]
  /\ due \in [Deliveries -> BOOLEAN]
  /\ named \in [Deliveries -> SUBSET Users]
  /\ active \in SUBSET Users
  /\ muted \in SUBSET Users
  /\ feed \in [Deliveries \X Users -> Marks]
  /\ pushes \in [Deliveries \X Users -> Nat]
  /\ pc \in [Processes -> Places]
  /\ batch \in [Processes -> SUBSET Deliveries]
  /\ claimed \in [Processes -> [Deliveries -> Nat]]
  /\ todo \in [Processes -> SUBSET Users]
  /\ candidate \in [Processes -> SUBSET Users]
  /\ owed \in [Deliveries -> SUBSET Users]
  /\ \A p \in Processes : /\ pc[p] = "idle" <=> batch[p] = {}
                          /\ pc[p] \notin Processing \ {"process"} => todo[p] = {}
                          /\ pc[p] \notin {"active", "insert"} => candidate[p] = {}

\* No interleaving of claims, lapsed leases, crashes and stale outcomes makes
\* a delivery attempted more often than MAX_ATTEMPTS.
AttemptsBounded == \A d \in Deliveries : attempts[d] <= MaxAttempts

\* A delivery is never given up before its last allowed attempt was claimed,
\* whoever gives it up: the sweep of a claim, or a relay whose claim is stale.
FailedOnlyWhenExhausted ==
  \A d \in Deliveries : status[d] = "FAILED" => attempts[d] = MaxAttempts

\* A delivery marked SUCCEEDED has reached everyone who was named, active and
\* unmuted all along, whichever of the separate reads finds them and however
\* many processes and partial attempts it took.
SucceededReachedEveryone ==
  \A d \in Deliveries, u \in Users :
    status[d] = "SUCCEEDED" /\ u \in owed[d] => feed[<<d, u>>] # "NONE"

\* Retries, overlapping relays and redelivery after a crash never send a
\* recipient a second creation frame for one notification.
PushedAtMostOnce ==
  \A n \in Deliveries \X Users :
    pushes[n] <= IF feed[n] = "NONE" THEN 0 ELSE 1

\* A delivery that was given an outcome is never open again nor claimed again, by
\* any process at any time.  The one thing that can still happen to it is that a
\* relay which claimed it earlier records its own outcome over the first one: a
\* success over a failure or, only as the last allowed attempt, a failure over a
\* success.
SettledStaysSettled ==
  [][\A d \in Deliveries :
       status[d] \in Settled =>
         /\ status'[d] \in Settled
         /\ attempts'[d] = attempts[d]
         /\ \A p \in Processes : d \in batch'[p] => d \in batch[p]
         /\ status'[d] # status[d] =>
              \E p \in Processes :
                /\ d \in batch[p]
                /\ status'[d] = "FAILED" => claimed[p][d] >= MaxAttempts]_vars


\* A redelivered event never deletes a notification nor makes one its recipient
\* has read or dismissed unread again.
NeverResurfaces ==
  [][\A n \in Deliveries \X Users :
       /\ feed[n] # "NONE" => feed'[n] # "NONE"
       /\ feed[n] = "READ" => feed'[n] \in {"READ", "DISMISSED"}
       /\ feed[n] = "DISMISSED" => feed'[n] = "DISMISSED"]_vars

\* The pairs that have a notification row, dismissed or not.
NotifiedPairs == {n \in Deliveries \X Users : feed[n] # "NONE"}

\* The deliveries some relay still holds a claim on.
WorkedOn == UNION {batch[p] : p \in Processes}

Promised == INSTANCE NotificationPromise
              WITH outcome <- status, notified <- NotifiedPairs,
                   told <- pushes, working <- WorkedOn

\* The relay implements the promise of the outbox, of which its leases, retries
\* and crashes are details: outcomes become final with the last claim, a frame
\* goes out with the notification it announces or never, and a success is
\* recorded only once everyone still owed the delivery has been notified.
KeepsPromise == Promised!PromiseSpec

\* Every recorded delivery is given an outcome, whatever fails and however often
\* processes crash: the half of the promise that needs fairness.
EveryDeliverySettles == Promised!PromiseSettles
=============================================================================
