-------------------------- MODULE TaskReviewProofs --------------------------
(***************************************************************************)
(* Proofs about TaskReview for any users, items, calls and bound.          *)
(***************************************************************************)
EXTENDS TaskReview, TLAPS

\* A status change on its way leaves a status that an assignee may leave and
\* is not an approval.
CallInv ==
  \A c \in Calls : call[c].op = "setStatus" =>
    /\ call[c].from \in {"TODO", "IN_PROGRESS", "BLOCKED"}
    /\ call[c].to # "COMPLETED"

IInv == TypeOK /\ CallInv /\ SubmissionsDecided /\ CompletedByApproval

-----------------------------------------------------------------------------
(* Type correctness and what calls remember *)

LEMMA TransitionsOpen ==
  ASSUME NEW s \in Statuses, NEW t \in AssigneeTransitions[s]
  PROVE  s \in {"TODO", "IN_PROGRESS", "BLOCKED"} /\ t \in Statuses /\ t # "COMPLETED"
BY DEF AssigneeTransitions, Statuses

LEMMA TypeOKInit == Init => TypeOK
BY ReviewAssumption
DEF Init, TypeOK, Statuses, ItemStates, Request, NoRequest

\* What a call asks for is well typed, and a status change is a legal one.
LEMMA ReadsStep ==
  ASSUME TypeOK, CallInv, NEW c \in Calls, Reads(c)
  PROVE  /\ UNCHANGED <<status, assignees, reportTo, checklist, reviews, submissions>>
         /\ TypeOK'
         /\ CallInv'
<1> DEFINE Legal(r) ==
      /\ r \in Request
      /\ r.op = "setStatus" =>
           r.from \in {"TODO", "IN_PROGRESS", "BLOCKED"} /\ r.to # "COMPLETED"
<1>1. PICK r : Legal(r) /\ Asks(c, r)
  <2>1. ASSUME NEW u \in Users, NEW to \in Statuses, ReadForTransition(c, u, to)
        PROVE  \E r : Legal(r) /\ Asks(c, r)
    <3> DEFINE r == [op |-> "setStatus", by |-> u, from |-> status, to |-> to]
    <3>1. status \in {"TODO", "IN_PROGRESS", "BLOCKED"} /\ to # "COMPLETED" /\ status \in Statuses
      BY <2>1, TransitionsOpen DEF ReadForTransition, TypeOK
    <3>2. r \in Request
      BY <3>1 DEF Request
    <3>3. Asks(c, r)
      BY <2>1 DEF ReadForTransition
    <3> QED
      BY <3>1, <3>2, <3>3
  <2>2. ASSUME NEW u \in Users, ReadForSubmit(c, u)
        PROVE  \E r : Legal(r) /\ Asks(c, r)
    <3> DEFINE r == [op |-> "setStatus", by |-> u, from |-> status, to |-> "UNDER_REVIEW"]
    <3>1. status = "IN_PROGRESS" /\ "UNDER_REVIEW" \in Statuses /\ status \in Statuses
      BY <2>2 DEF ReadForSubmit, Statuses
    <3>2. r \in Request
      BY <3>1 DEF Request
    <3>3. Asks(c, r)
      BY <2>2 DEF ReadForSubmit
    <3> QED
      BY <3>1, <3>2, <3>3
  <2>3. ASSUME NEW u \in Users, NEW outcome \in Outcomes, ReadForReview(c, u, outcome)
        PROVE  \E r : Legal(r) /\ Asks(c, r)
    <3> DEFINE r == [op |-> "review", by |-> u, outcome |-> outcome]
    <3>1. r \in Request
      BY DEF Request
    <3>2. Asks(c, r)
      BY <2>3 DEF ReadForReview
    <3> QED
      BY <3>1, <3>2
  <2>4. ASSUME NEW u \in Users, ReadForDesignation(c, u)
        PROVE  \E r : Legal(r) /\ Asks(c, r)
    <3> DEFINE r == [op |-> "designate", to |-> u]
    <3>1. r \in Request
      BY DEF Request
    <3>2. Asks(c, r)
      BY <2>4 DEF ReadForDesignation
    <3> QED
      BY <3>1, <3>2
  <2>5. ASSUME NEW u \in Users, NEW i \in Items, NEW to \in ItemStates,
               ReadForChecklist(c, u, i, to)
        PROVE  \E r : Legal(r) /\ Asks(c, r)
    <3> DEFINE r == [op |-> "checklist", by |-> u, item |-> i, from |-> checklist[i], to |-> to]
    <3>1. r \in Request
      BY DEF Request, TypeOK
    <3>2. Asks(c, r)
      BY <2>5 DEF ReadForChecklist
    <3> QED
      BY <3>1, <3>2
  <2> QED
    BY <2>1, <2>2, <2>3, <2>4, <2>5 DEF Reads
<1> HIDE DEF Legal
<1>2. UNCHANGED <<status, assignees, reportTo, checklist, reviews, submissions>>
  BY <1>1 DEF Asks
<1>3. call' = [call EXCEPT ![c] = r]
  BY <1>1 DEF Asks
<1>4. TypeOK'
  BY <1>1, <1>2, <1>3 DEF TypeOK, Legal
<1>5. CallInv'
  BY <1>1, <1>3 DEF CallInv, Legal, TypeOK
<1> QED
  BY <1>2, <1>4, <1>5

\* A call that has been answered asks for nothing.
LEMMA AnswersStep ==
  ASSUME TypeOK, CallInv, NEW c \in Calls, Answers(c)
  PROVE  call' \in [Calls -> Request] /\ CallInv'
<1>1. NoRequest \in Request /\ NoRequest.op # "setStatus"
  BY DEF NoRequest, Request
<1>2. call' = [call EXCEPT ![c] = NoRequest]
  BY DEF Answers
<1>3. call' \in [Calls -> Request]
  BY <1>1, <1>2 DEF TypeOK
<1>4. CallInv'
  BY <1>1, <1>2 DEF TypeOK, CallInv
<1> QED
  BY <1>3, <1>4

\* What a request of each kind carries.
LEMMA RequestFields ==
  ASSUME NEW r \in Request
  PROVE  /\ r.op = "setStatus" => r.to \in Statuses /\ r.from \in Statuses
         /\ r.op = "review" => r.by \in Users /\ r.outcome \in Outcomes
         /\ r.op = "designate" => r.to \in Users
         /\ r.op = "checklist" => r.item \in Items /\ r.to \in ItemStates
BY DEF Request

\* Every step preserves the types and what calls remember.
LEMMA TypeOKStep == TypeOK /\ CallInv /\ [Next]_vars => TypeOK' /\ CallInv'
<1> SUFFICES ASSUME TypeOK, CallInv, [Next]_vars PROVE TypeOK' /\ CallInv'
  OBVIOUS
<1>1. ASSUME NEW c \in Calls, Reads(c) PROVE TypeOK' /\ CallInv'
  BY <1>1, ReadsStep
<1>2. ASSUME NEW c \in Calls, SetStatus(c) PROVE TypeOK' /\ CallInv'
  <2>1. call[c].to \in Statuses
    BY <1>2, RequestFields DEF SetStatus, TypeOK
  <2>2. call' \in [Calls -> Request] /\ CallInv'
    BY <1>2, AnswersStep DEF SetStatus
  <2>3. submissions' \in 0 .. MaxSubmissions
    BY <1>2, ReviewAssumption DEF SetStatus, TypeOK
  <2> QED
    BY <1>2, <2>1, <2>2, <2>3 DEF SetStatus, TypeOK
<1>3. ASSUME NEW c \in Calls, RecordReview(c) PROVE TypeOK' /\ CallInv'
  <2>1. call[c].by \in Users /\ call[c].outcome \in Outcomes
    BY <1>3, RequestFields DEF RecordReview, TypeOK
  <2>2. call' \in [Calls -> Request] /\ CallInv'
    BY <1>3, AnswersStep DEF RecordReview
  <2>3. [reviewer |-> call[c].by, outcome |-> call[c].outcome] \in Review
    BY <2>1 DEF Review
  <2>4. reviews' \in Seq(Review) /\ status' \in Statuses
    BY <1>3, <2>3 DEF RecordReview, TypeOK, ReviewTarget, Statuses
  <2> QED
    BY <1>3, <2>2, <2>4 DEF RecordReview, TypeOK
<1>4. ASSUME NEW c \in Calls, SetReportTo(c) PROVE TypeOK' /\ CallInv'
  <2>1. call[c].to \in Users
    BY <1>4, RequestFields DEF SetReportTo, TypeOK
  <2>2. call' \in [Calls -> Request] /\ CallInv'
    BY <1>4, AnswersStep DEF SetReportTo
  <2> QED
    BY <1>4, <2>1, <2>2 DEF SetReportTo, TypeOK
<1>5. ASSUME NEW c \in Calls, WriteChecklist(c) PROVE TypeOK' /\ CallInv'
  <2>1. call[c].item \in Items /\ call[c].to \in ItemStates
    BY <1>5, RequestFields DEF WriteChecklist, TypeOK
  <2>2. call' \in [Calls -> Request] /\ CallInv'
    BY <1>5, AnswersStep DEF WriteChecklist
  <2> QED
    BY <1>5, <2>1, <2>2 DEF WriteChecklist, TypeOK
<1>6. ASSUME NEW c \in Calls, Abandon(c) PROVE TypeOK' /\ CallInv'
  <2>1. call' \in [Calls -> Request] /\ CallInv'
    BY <1>6, AnswersStep DEF Abandon
  <2> QED
    BY <1>6, <2>1 DEF Abandon, TypeOK
<1>7. ASSUME NEW u \in Users, AddAssignee(u) \/ RemoveAssignee(u) PROVE TypeOK' /\ CallInv'
  BY <1>7 DEF AddAssignee, RemoveAssignee, TypeOK, CallInv
<1>8. ASSUME UNCHANGED vars PROVE TypeOK' /\ CallInv'
  BY <1>8 DEF vars, TypeOK, CallInv
<1> QED
  BY <1>1, <1>2, <1>3, <1>4, <1>5, <1>6, <1>7, <1>8 DEF Next, Writes

-----------------------------------------------------------------------------
(* Submissions and reviews *)

\* The status, the reviews and the submissions change only together: by a
\* status change that found what it had read, or by a review.
LEMMA StatusSteps ==
  ASSUME TypeOK, CallInv, [Next]_vars
  PROVE  \/ UNCHANGED <<status, reviews, submissions>>
         \/ /\ status \in {"TODO", "IN_PROGRESS", "BLOCKED"}
            /\ status' # "COMPLETED"
            /\ reviews' = reviews
            /\ submissions' = submissions + (IF status' = "UNDER_REVIEW" THEN 1 ELSE 0)
         \/ /\ status = "UNDER_REVIEW"
            /\ \E r \in Review :
                 status' = ReviewTarget(r.outcome) /\ reviews' = Append(reviews, r)
            /\ submissions' = submissions
<1> DEFINE Conclusion ==
         \/ UNCHANGED <<status, reviews, submissions>>
         \/ /\ status \in {"TODO", "IN_PROGRESS", "BLOCKED"}
            /\ status' # "COMPLETED"
            /\ reviews' = reviews
            /\ submissions' = submissions + (IF status' = "UNDER_REVIEW" THEN 1 ELSE 0)
         \/ /\ status = "UNDER_REVIEW"
            /\ \E r \in Review :
                 status' = ReviewTarget(r.outcome) /\ reviews' = Append(reviews, r)
            /\ submissions' = submissions
<1>1. ASSUME NEW c \in Calls, SetStatus(c) PROVE Conclusion
  BY <1>1 DEF SetStatus, CallInv
<1>2. ASSUME NEW c \in Calls, RecordReview(c) PROVE Conclusion
  <2> DEFINE r == [reviewer |-> call[c].by, outcome |-> call[c].outcome]
  <2>1. r \in Review
    BY <1>2, RequestFields DEF RecordReview, TypeOK, Review
  <2>2. /\ status = "UNDER_REVIEW"
        /\ status' = ReviewTarget(r.outcome) /\ reviews' = Append(reviews, r)
        /\ submissions' = submissions
    BY <1>2 DEF RecordReview
  <2> QED
    BY <2>1, <2>2
<1>3. ASSUME NEW c \in Calls, Reads(c) PROVE Conclusion
  BY <1>3, ReadsStep
<1> QED
  BY <1>1, <1>2, <1>3
  DEF Next, Writes, SetReportTo, WriteChecklist, Abandon, AddAssignee, RemoveAssignee, vars

LEMMA ReviewInvInit == Init => SubmissionsDecided /\ CompletedByApproval
BY DEF Init, SubmissionsDecided, CompletedByApproval

\* A review is added behind the others, and its outcome decides the status.
LEMMA ReviewAppended ==
  ASSUME TypeOK, NEW r \in Review, reviews' = Append(reviews, r)
  PROVE  /\ Len(reviews) \in Nat /\ Len(reviews') = Len(reviews) + 1
         /\ reviews'[Len(reviews) + 1] = r
         /\ \A k \in 1 .. Len(reviews) : reviews'[k] = reviews[k]
         /\ reviews' # <<>>
BY DEF TypeOK

LEMMA ReviewInvStep ==
  IInv /\ [Next]_vars => SubmissionsDecided' /\ CompletedByApproval'
<1> SUFFICES ASSUME IInv, [Next]_vars PROVE SubmissionsDecided' /\ CompletedByApproval'
  OBVIOUS
<1> USE DEF IInv
<1>1. submissions \in Nat /\ Len(reviews) \in Nat
  BY ReviewAssumption DEF TypeOK
<1>2. CASE UNCHANGED <<status, reviews, submissions>>
  BY <1>2 DEF SubmissionsDecided, CompletedByApproval
<1>3. CASE /\ status \in {"TODO", "IN_PROGRESS", "BLOCKED"}
           /\ status' # "COMPLETED"
           /\ reviews' = reviews
           /\ submissions' = submissions + (IF status' = "UNDER_REVIEW" THEN 1 ELSE 0)
  <2>1. status # "COMPLETED" /\ status # "UNDER_REVIEW"
    BY <1>3
  <2>2. SubmissionsDecided'
    BY <1>1, <1>3, <2>1 DEF SubmissionsDecided
  <2>3. CompletedByApproval'
    BY <1>3, <2>1 DEF CompletedByApproval
  <2> QED
    BY <2>2, <2>3
<1>4. CASE /\ status = "UNDER_REVIEW"
           /\ \E r \in Review :
                status' = ReviewTarget(r.outcome) /\ reviews' = Append(reviews, r)
           /\ submissions' = submissions
  <2>1. PICK r \in Review : status' = ReviewTarget(r.outcome) /\ reviews' = Append(reviews, r)
    BY <1>4
  <2> DEFINE n == Len(reviews)
  <2>2. /\ Len(reviews') = n + 1
        /\ reviews'[n + 1] = r
        /\ \A k \in 1 .. n : reviews'[k] = reviews[k]
        /\ reviews' # <<>>
    BY <2>1, ReviewAppended
  <2>3. status' \in {"COMPLETED", "IN_PROGRESS"}
        /\ (status' = "COMPLETED" <=> r.outcome = "APPROVED")
    BY <2>1 DEF ReviewTarget
  <2>4. SubmissionsDecided'
    BY <1>1, <1>4, <2>2, <2>3 DEF SubmissionsDecided
  <2>5. \A k \in 1 .. n : reviews[k].outcome # "APPROVED"
    BY <1>4 DEF CompletedByApproval
  <2>6. \A k \in 1 .. (n + 1) : k \in 1 .. n \/ k = n + 1
    BY <1>1
  <2>7. n + 1 \notin 1 .. n
    BY <1>1
  <2> HIDE DEF n
  <2>8. CompletedByApproval'
    BY <2>2, <2>3, <2>5, <2>6, <2>7 DEF CompletedByApproval
  <2> QED
    BY <2>4, <2>8
<1> QED
  BY <1>2, <1>3, <1>4, StatusSteps

LEMMA IInvHolds == Spec => []IInv
<1>1. Init => IInv
  <2>1. Init => CallInv
    BY DEF Init, CallInv, NoRequest
  <2> QED
    BY <2>1, TypeOKInit, ReviewInvInit DEF IInv
<1>2. IInv /\ [Next]_vars => IInv'
  BY TypeOKStep, ReviewInvStep DEF IInv
<1> QED
  BY <1>1, <1>2, PTL DEF Spec

-----------------------------------------------------------------------------
(* Theorems *)

\* Every reachable state is well typed.
THEOREM ReviewTypeCorrect == Spec => []TypeOK
<1>1. IInv => TypeOK
  BY DEF IInv
<1> QED
  BY <1>1, IInvHolds, PTL

\* However many calls race and however stale they are, every submission is
\* decided exactly once and ends only by a review.
THEOREM ReviewSubmissionsDecided == Spec => []SubmissionsDecided
<1>1. IInv => SubmissionsDecided
  BY DEF IInv
<1> QED
  BY <1>1, IInvHolds, PTL

\* A task is COMPLETED exactly by the approval that is its last review.
THEOREM ReviewCompletedByApproval == Spec => []CompletedByApproval
<1>1. IInv => CompletedByApproval
  BY DEF IInv
<1> QED
  BY <1>1, IInvHolds, PTL

\* A completed or cancelled task stays so.
THEOREM ReviewFinalStays == Spec => FinalStays
<1>1. IInv /\ [Next]_vars => [(status \in Final) => status' = status]_vars
  BY StatusSteps DEF IInv, Final, vars
<1> QED
  BY <1>1, IInvHolds, PTL DEF Spec, FinalStays

\* The checklist does not change under review, after completion or after
\* cancellation, whatever the calls in progress had read before.
THEOREM ReviewWorkFrozen == Spec => WorkFrozen
<1>1. IInv /\ [Next]_vars => [(status \in ChecklistLocked) => checklist' = checklist]_vars
  <2> SUFFICES ASSUME IInv, Next, status \in ChecklistLocked PROVE checklist' = checklist
    BY DEF vars
  <2>1. ASSUME NEW c \in Calls, Reads(c) PROVE checklist' = checklist
    BY <2>1, ReadsStep DEF IInv
  <2> QED
    BY <2>1
    DEF Next, Writes, SetStatus, RecordReview, SetReportTo, WriteChecklist, Abandon,
        AddAssignee, RemoveAssignee
<1> QED
  BY <1>1, IInvHolds, PTL DEF Spec, WorkFrozen
=============================================================================
