----------------------------- MODULE TaskReview -----------------------------
(***************************************************************************)
(* The life of one task of apps/api/src/tasks: its status, its assignees,  *)
(* its designated reviewer, its checklist and its reviews.  Every call     *)
(* reads the task and decides whether it is allowed, and only then opens a *)
(* transaction that locks the row, looks again at part of what was read    *)
(* and writes.  Any other call may commit in between.                      *)
(*                                                                         *)
(* The activity rows, audit rows and outbox events of a change are written *)
(* in its transaction and are left out.                                    *)
(***************************************************************************)
EXTENDS Naturals, Sequences

CONSTANTS
  Users,
  Managers,        \* active users who may see, edit and review the task
  Creator,         \* Task.createdById
  NoOne,           \* null
  Items,           \* checklist items that may be added
  Calls,           \* API calls that can be in progress at once
  MaxSubmissions   \* bound: submissions for review

ASSUME ReviewAssumption ==
  /\ Managers \subseteq Users
  /\ Creator \in Managers
  /\ NoOne \notin Users
  /\ MaxSubmissions \in Nat

VARIABLES
  status,
  assignees,     \* rows of task_assignments
  reportTo,      \* Task.reportToId
  checklist,     \* each item: "absent", "open" or "completed"
  reviews,       \* rows of task_reviews, in order
  submissions,   \* how often the task was submitted for review
  call           \* what each call in progress has read and will write

vars == <<status, assignees, reportTo, checklist, reviews, submissions, call>>

Statuses == {"TODO", "IN_PROGRESS", "UNDER_REVIEW", "BLOCKED", "COMPLETED", "CANCELLED"}
Final == {"COMPLETED", "CANCELLED"}
ChecklistLocked == {"UNDER_REVIEW"} \union Final
Outcomes == {"APPROVED", "CHANGES_REQUESTED"}
ItemStates == {"absent", "open", "completed"}

Request ==
  [op : {"none"}]
    \union [op : {"setStatus"}, by : Users, from : Statuses, to : Statuses]
    \union [op : {"review"}, by : Users, outcome : Outcomes]
    \union [op : {"designate"}, to : Users]
    \union [op : {"checklist"}, by : Users, item : Items, from : ItemStates, to : ItemStates]

NoRequest == [op |-> "none"]

Review == [reviewer : Users, outcome : Outcomes]

Init ==
  /\ status = "TODO"
  /\ assignees = {}
  /\ reportTo \in {Creator, NoOne} \union Managers
  /\ checklist = [i \in Items |-> "absent"]
  /\ reviews = <<>>
  /\ submissions = 0
  /\ call = [c \in Calls |-> NoRequest]

-----------------------------------------------------------------------------
(* The rules.                                                              *)

(* visibleWhere: a manager sees the task, anyone else while assigned.      *)
Visible(u) == u \in Managers \union assignees

(* canAssigneeTransition                                                   *)
AssigneeTransitions ==
  [s \in Statuses |->
     CASE s = "TODO"        -> {"IN_PROGRESS", "BLOCKED", "CANCELLED"}
       [] s = "IN_PROGRESS" -> {"BLOCKED", "CANCELLED"}
       [] s = "BLOCKED"     -> {"TODO", "IN_PROGRESS", "CANCELLED"}
       [] OTHER             -> {}]

\* Mutant: the outcome is stored as it is.
ReviewTargetRaw(outcome) == outcome

(* reviewTarget                                                            *)
ReviewTarget(outcome) ==
  IF outcome = "APPROVED" THEN "COMPLETED" ELSE "IN_PROGRESS"

(* isEligibleReviewer                                                      *)
EligibleReviewer(u) == u \in Managers /\ u \notin assignees

(* resolveDesignatedReviewer: the stored recipient while eligible, for a   *)
(* task that has none its creator, otherwise nobody.                       *)
Designated ==
  LET named == IF reportTo = NoOne THEN Creator ELSE reportTo
  IN  IF EligibleReviewer(named) THEN named ELSE NoOne

(* What an item may become: created, toggled either way, removed.          *)
ItemEdits(state) == CASE state = "absent"    -> {"open"}
                      [] state = "open"      -> {"completed", "absent"}
                      [] state = "completed" -> {"open", "absent"}

-----------------------------------------------------------------------------
(* What a call does before its transaction.                                *)

Asks(c, request) ==
  /\ call[c] = NoRequest
  /\ call' = [call EXCEPT ![c] = request]
  /\ UNCHANGED <<status, assignees, reportTo, checklist, reviews, submissions>>

(* transition()                                                            *)
ReadForTransition(c, u, to) ==
  /\ Visible(u)
  /\ to \in AssigneeTransitions[status]
  /\ Asks(c, [op |-> "setStatus", by |-> u, from |-> status, to |-> to])

(* submit()                                                                *)
ReadForSubmit(c, u) ==
  /\ Visible(u)
  /\ status = "IN_PROGRESS"
  /\ Asks(c, [op |-> "setStatus", by |-> u, from |-> status, to |-> "UNDER_REVIEW"])

(* review(): only the designated reviewer, and never an assignee.          *)
ReadForReview(c, u, outcome) ==
  /\ u \in Managers
  /\ u \notin assignees
  /\ u = Designated
  /\ status = "UNDER_REVIEW"
  /\ Asks(c, [op |-> "review", by |-> u, outcome |-> outcome])

(* changeReviewer(), by a Super Admin                                      *)
ReadForDesignation(c, u) ==
  /\ EligibleReviewer(u)
  /\ Asks(c, [op |-> "designate", to |-> u])

(* addChecklistItem(), removeChecklistItem(), toggleChecklistItem().  Who  *)
(* owns an item is left out: anyone who sees the task may edit it.         *)
ReadForChecklist(c, u, i, to) ==
  /\ Visible(u)
  /\ status \notin ChecklistLocked
  /\ to \in ItemEdits(checklist[i])
  /\ Asks(c, [op |-> "checklist", by |-> u, item |-> i, from |-> checklist[i], to |-> to])

-----------------------------------------------------------------------------
(* The transactions.  Each locks the row of the task first, so they are    *)
(* atomic to one another.                                                  *)

Answers(c) == call' = [call EXCEPT ![c] = NoRequest]

\* Mutant: the update has no expected status.
SetStatusUnchecked(c) ==
  /\ call[c].op = "setStatus"
  /\ Visible(call[c].by)
  /\ call[c].to = "UNDER_REVIEW" => submissions < MaxSubmissions
  /\ status' = call[c].to
  /\ submissions' = submissions + (IF call[c].to = "UNDER_REVIEW" THEN 1 ELSE 0)
  /\ Answers(c)
  /\ UNCHANGED <<assignees, reportTo, checklist, reviews>>

SetStatus(c) ==
  /\ call[c].op = "setStatus"
  /\ Visible(call[c].by)
  /\ status = call[c].from
  /\ call[c].to = "UNDER_REVIEW" => submissions < MaxSubmissions
  /\ status' = call[c].to
  /\ submissions' = submissions + (IF call[c].to = "UNDER_REVIEW" THEN 1 ELSE 0)
  /\ Answers(c)
  /\ UNCHANGED <<assignees, reportTo, checklist, reviews>>

\* Mutant: the update has no expected status.
RecordReviewUnchecked(c) ==
  /\ call[c].op = "review"
  /\ status' = ReviewTarget(call[c].outcome)
  /\ reviews' = Append(reviews, [reviewer |-> call[c].by, outcome |-> call[c].outcome])
  /\ Answers(c)
  /\ UNCHANGED <<assignees, reportTo, checklist, submissions>>

(* The designation and the assignees are not looked at again.              *)
RecordReview(c) ==
  /\ call[c].op = "review"
  /\ Visible(call[c].by)
  /\ status = "UNDER_REVIEW"
  /\ status' = ReviewTarget(call[c].outcome)
  /\ reviews' = Append(reviews, [reviewer |-> call[c].by, outcome |-> call[c].outcome])
  /\ Answers(c)
  /\ UNCHANGED <<assignees, reportTo, checklist, submissions>>

SetReportTo(c) ==
  /\ call[c].op = "designate"
  /\ reportTo' = call[c].to
  /\ Answers(c)
  /\ UNCHANGED <<status, assignees, checklist, reviews, submissions>>

\* Mutant: the lock is taken without reading the status again.
WriteChecklistUnlocked(c) ==
  /\ call[c].op = "checklist"
  /\ Visible(call[c].by)
  /\ (checklist[call[c].item] = "absent") = (call[c].from = "absent")
  /\ checklist' = [checklist EXCEPT ![call[c].item] = call[c].to]
  /\ Answers(c)
  /\ UNCHANGED <<status, assignees, reportTo, reviews, submissions>>

(* createChecklistItem, removeChecklistItem, setChecklistItemCompletion:   *)
(* the status is read again under the lock.  An edit of an item that is no *)
(* longer there is refused.                                                *)
WriteChecklist(c) ==
  /\ call[c].op = "checklist"
  /\ Visible(call[c].by)
  /\ status \notin ChecklistLocked
  /\ (checklist[call[c].item] = "absent") = (call[c].from = "absent")
  /\ checklist' = [checklist EXCEPT ![call[c].item] = call[c].to]
  /\ Answers(c)
  /\ UNCHANGED <<status, assignees, reportTo, reviews, submissions>>

(* The transaction refuses ("concurrent", "forbidden", "locked"), throws,  *)
(* or its process dies first: nothing is written.                          *)
Abandon(c) ==
  /\ call[c] # NoRequest
  /\ Answers(c)
  /\ UNCHANGED <<status, assignees, reportTo, checklist, reviews, submissions>>

(* addAssignee and removeAssignee check the caller and the assignee, which *)
(* nothing here changes; their reads of the task are under the lock.  Any  *)
(* task may be assigned, also one under review, and to anybody.            *)
AddAssignee(u) ==
  /\ u \notin assignees
  /\ assignees' = assignees \union {u}
  /\ UNCHANGED <<status, reportTo, checklist, reviews, submissions, call>>

RemoveAssignee(u) ==
  /\ u \in assignees
  /\ assignees' = assignees \ {u}
  /\ UNCHANGED <<status, reportTo, checklist, reviews, submissions, call>>

-----------------------------------------------------------------------------
Reads(c) ==
  \/ \E u \in Users, to \in Statuses : ReadForTransition(c, u, to)
  \/ \E u \in Users : ReadForSubmit(c, u)
  \/ \E u \in Users, outcome \in Outcomes : ReadForReview(c, u, outcome)
  \/ \E u \in Users : ReadForDesignation(c, u)
  \/ \E u \in Users, i \in Items, to \in ItemStates : ReadForChecklist(c, u, i, to)

Writes(c) ==
  \/ SetStatus(c)
  \/ RecordReview(c)
  \/ SetReportTo(c)
  \/ WriteChecklist(c)
  \/ Abandon(c)

Next ==
  \/ \E c \in Calls : Reads(c) \/ Writes(c)
  \/ \E u \in Users : AddAssignee(u) \/ RemoveAssignee(u)

Spec == Init /\ [][Next]_vars

-----------------------------------------------------------------------------
(* The variables keep their types.                                         *)
TypeOK ==
  /\ status \in Statuses
  /\ assignees \subseteq Users
  /\ reportTo \in Users \union {NoOne}
  /\ checklist \in [Items -> ItemStates]
  /\ reviews \in Seq(Review)
  /\ submissions \in 0 .. MaxSubmissions
  /\ call \in [Calls -> Request]

(* Every submission is decided exactly once, and nothing but a review ends *)
(* it: however stale the calls are, the task is under review just when one *)
(* submission more than reviews was made (setStatus, review).              *)
SubmissionsDecided ==
  submissions = Len(reviews) + (IF status = "UNDER_REVIEW" THEN 1 ELSE 0)

(* A task is COMPLETED exactly when its last review approved it, and no    *)
(* earlier review did: an approval is never worked past or undone.         *)
CompletedByApproval ==
  /\ status = "COMPLETED" => reviews # <<>>
  /\ \A k \in 1 .. Len(reviews) :
       reviews[k].outcome = "APPROVED" <=> (status = "COMPLETED" /\ k = Len(reviews))

(* A completed or cancelled task stays so, whatever calls read it before.  *)
FinalStays == [][(status \in Final) => status' = status]_vars

(* What is under review, completed or cancelled is what was submitted: the *)
(* checklist does not change in those states (lockChecklistAccess).        *)
WorkFrozen == [][(status \in ChecklistLocked) => checklist' = checklist]_vars

(* review() claims that only the designated reviewer decides, and that an  *)
(* assignee never reviews the task, when the review is recorded.           *)
DecidedByDesignated ==
  [][\A k \in 1 .. Len(reviews') :
       k > Len(reviews) => reviews'[k].reviewer = Designated]_vars

=============================================================================
