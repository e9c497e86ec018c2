---------------------------- MODULE TaskProgress ----------------------------
(***************************************************************************)
(* The progress of tasks and their subtasks                                *)
(* (apps/api/src/tasks/infrastructure/tasks.repository.ts).  Editing a     *)
(* checklist and creating a subtask recompute, in the same transaction,    *)
(* the progress of one task and of its parent, one level only.             *)
(*                                                                         *)
(* The transactions run at READ COMMITTED.  One locks the task it edits,   *)
(* or, by its foreign key, the parent it inserts under, but reads the      *)
(* other children of a parent without locking them and the parent without  *)
(* locking it.  Nothing it wrote is seen before it commits.                *)
(*                                                                         *)
(* A step is one recomputation's reads (checklist, children and current    *)
(* progress, sent together) with the writes decided by the one before:     *)
(* whether a row is written follows from its progress as it was read, and  *)
(* the write itself, in the next step, waits for the row.                  *)
(***************************************************************************)
EXTENDS Integers, FiniteSets, Functions

CONSTANTS
  Tasks,
  Calls,      \* transactions that can be in progress at once
  MaxItems,   \* bound: open or completed items of one checklist
  TiesDown,   \* <<completed, total>> whose share in floating point falls short
              \* of the half it should be
  Null, None

ASSUME NullAssumption == Null \notin Int
ASSUME NoneAssumption == None \notin Tasks
ASSUME MaxItemsAssumption == MaxItems \in Nat

VARIABLES
  tasks,      \* the tasks there are
  parent,     \* Task.parentTaskId
  open,       \* how many checklist items are to be done
  done,       \* how many are completed
  progress,   \* Task.progress
  call,       \* the transactions in progress
  muddled     \* history: tasks last recomputed by overlapping transactions,
              \* or not recomputed since a grandchild changed

vars == <<tasks, parent, open, done, progress, call, muddled>>

Percent == 0..100 \union {Null}

Transaction ==
  [step : {"idle", "own", "parent"},
   target : Tasks \union {None},    \* the task recomputed first
   created : Tasks \union {None},   \* the subtask inserted under it
   open : 0..MaxItems, done : 0..MaxItems,   \* the checklist as edited
   own : Percent, up : Percent,     \* computed for the target and its parent
   differs : BOOLEAN,               \* from !== to, of the last recomputation
   wrote : BOOLEAN,                 \* the target's row is written, not only read
   alone : BOOLEAN]                 \* history: no related transaction met it

Idle == [step |-> "idle", target |-> None, created |-> None, open |-> 0, done |-> 0,
         own |-> Null, up |-> Null, differs |-> FALSE, wrote |-> FALSE, alone |-> FALSE]

Init ==
  /\ tasks = {}
  /\ parent = [t \in Tasks |-> None]
  /\ open = [t \in Tasks |-> 0]
  /\ done = [t \in Tasks |-> 0]
  /\ progress = [t \in Tasks |-> Null]
  /\ call = [c \in Calls |-> Idle]
  /\ muddled = {}

Children(t) == {u \in tasks : parent[u] = t}
Up(t) == IF t = None THEN None ELSE parent[t]
Above(t) == {t, Up(t), Up(Up(t))} \ {None}

-----------------------------------------------------------------------------
(* Math.round, half up.                                                    *)
Rounded(a, n) == (2 * a + n) \div (2 * n)

\* Mutant: the mean of percentages made a percentage again.
MeanInPercent(scores) ==
  Rounded(100 * FoldFunction(+, 0, scores), Cardinality(DOMAIN scores))

Mean(scores) == Rounded(FoldFunction(+, 0, scores), Cardinality(DOMAIN scores))

(* Math.round((completed / total) * 100), a product of doubles.            *)
Ratio(completed, total) ==
  IF <<completed, total>> \in TiesDown THEN (100 * completed) \div total
                                       ELSE Rounded(100 * completed, total)

(* computeTaskProgress: subtasks win over the checklist, and untracked     *)
(* subtasks do not count.                                                  *)
ComputeTaskProgress(toDo, completed, scores) ==
  LET tracked == {u \in DOMAIN scores : scores[u] # Null}
  IN  IF DOMAIN scores # {}
      THEN IF tracked = {} THEN Null ELSE Mean(Restrict(scores, tracked))
      ELSE IF toDo + completed = 0 THEN Null ELSE Ratio(completed, toDo + completed)

Scores(t) == [u \in Children(t) |-> progress[u]]
Rule(t) == ComputeTaskProgress(open[t], done[t], Scores(t))

-----------------------------------------------------------------------------
(* Row locks.                                                              *)

Running(c) == call[c].step # "idle"
ForUpdate(c, t) == Running(c) /\ call[c].target = t /\ call[c].created = None
KeyShare(c, t) == Running(c) /\ call[c].target = t /\ call[c].created # None
Written(c, t) == Running(c) /\ call[c].target = t /\ call[c].wrote

FreeToUpdate(c, t) ==
  \A d \in Calls \ {c} : ~ForUpdate(d, t) /\ ~KeyShare(d, t)

FreeToShare(c, t) == \A d \in Calls \ {c} : ~ForUpdate(d, t)

\* Mutant: a foreign key check that took FOR SHARE would keep writers out.
FreeToWriteShared(c, t) ==
  \A d \in Calls \ {c} : ~ForUpdate(d, t) /\ ~KeyShare(d, t)

FreeToWrite(c, t) == \A d \in Calls \ {c} : ~ForUpdate(d, t) /\ ~Written(d, t)

-----------------------------------------------------------------------------
(* History: transactions that could see or spoil each other's numbers.     *)

Related(c, t) == Running(c) /\ Above(call[c].target) \cap Above(t) # {}

Starting(t, new, toDo, completed, value) ==
  [step |-> "own", target |-> t, created |-> new, open |-> toDo, done |-> completed,
   own |-> value, up |-> Null, differs |-> value # progress[t],
   wrote |-> (new = None), alone |-> FALSE]

Begin(c, transaction) ==
  LET t == transaction.target
      alone == \A d \in Calls \ {c} : ~Related(d, t)
  IN  call' = [d \in Calls |->
        IF d = c THEN [transaction EXCEPT !.alone = alone]
        ELSE IF Related(d, t) THEN [call[d] EXCEPT !.alone = FALSE]
        ELSE call[d]]

-----------------------------------------------------------------------------
(* Checklists.                                                             *)

(* lockChecklistAccess: FOR UPDATE on the task's row.                      *)
LockChecklistAccess(c, t) == t \in tasks /\ FreeToUpdate(c, t)

(* The edit and recomputeAndPersistProgress of the task itself.            *)
Edit(c, t, toDo, completed) ==
  /\ call[c] = Idle
  /\ LockChecklistAccess(c, t)
  /\ Begin(c, Starting(t, None, toDo, completed,
                       ComputeTaskProgress(toDo, completed, Scores(t))))
  /\ UNCHANGED <<tasks, parent, open, done, progress, muddled>>

CreateChecklistItem(c, t) ==
  /\ open[t] < MaxItems
  /\ Edit(c, t, open[t] + 1, done[t])

RemoveChecklistItem(c, t) ==
  \/ open[t] > 0 /\ Edit(c, t, open[t] - 1, done[t])
  \/ done[t] > 0 /\ Edit(c, t, open[t], done[t] - 1)

(* An item may be set to what it is already.                               *)
SetChecklistItemCompletion(c, t) ==
  \/ open[t] > 0 /\ done[t] < MaxItems /\ Edit(c, t, open[t] - 1, done[t] + 1)
  \/ done[t] > 0 /\ open[t] < MaxItems /\ Edit(c, t, open[t] + 1, done[t] - 1)
  \/ open[t] + done[t] > 0 /\ Edit(c, t, open[t], done[t])

-----------------------------------------------------------------------------
(* Creating tasks.                                                         *)

Unused(t) == t \notin tasks /\ \A c \in Calls : call[c].created # t

CreateTask(t) ==
  /\ Unused(t)
  /\ tasks' = tasks \union {t}
  /\ UNCHANGED <<parent, open, done, progress, call, muddled>>

(* The insert holds the parent's key; the parent's new progress is computed*)
(* before its row is locked.                                               *)
CreateSubtask(c, t, p) ==
  /\ call[c] = Idle
  /\ Unused(t) /\ p \in tasks /\ FreeToShare(c, p)
  /\ LET scores == [u \in Children(p) \union {t} |-> progress[u]]
     IN  Begin(c, Starting(p, t, open[p], done[p],
                           ComputeTaskProgress(open[p], done[p], scores)))
  /\ UNCHANGED <<tasks, parent, open, done, progress, muddled>>

-----------------------------------------------------------------------------
(* The rest of recomputeProgressCascade.                                   *)

(* The target's row is written if its progress differed when it was read;  *)
(* then its parent is read, with its children, the target among them as    *)
(* written.                                                                *)
AggregateParent(c) ==
  LET t == call[c].target
      q == parent[t]
      up == IF q = None THEN Null
            ELSE ComputeTaskProgress(open[q], done[q],
                                     [Scores(q) EXCEPT ![t] = call[c].own])
      writes == call[c].wrote \/ call[c].differs
  IN  /\ call[c].step = "own"
      /\ writes => FreeToWrite(c, t)
      /\ call' = [call EXCEPT ![c] = [@ EXCEPT
           !.step = "parent", !.wrote = writes, !.up = up,
           !.differs = (q # None /\ up # progress[q])]]
      /\ UNCHANGED <<tasks, parent, open, done, progress, muddled>>

\* Mutant: the parent is left to its own edits.
CascadeOwn(c) ==
  LET t == call[c].target
  IN  [u \in Tasks |-> IF u = t /\ call[c].wrote THEN call[c].own ELSE progress[u]]

(* What the transaction writes.                                            *)
Cascade(c) ==
  LET t == call[c].target
  IN  [u \in Tasks |-> IF u = t /\ call[c].wrote THEN call[c].own
                       ELSE IF u = parent[t] /\ call[c].differs THEN call[c].up
                       ELSE progress[u]]

Commit(c) ==
  LET t == call[c].target
      q == parent[t]
      new == call[c].created
  IN  /\ call[c].step = "parent"
      /\ q # None /\ call[c].differs => FreeToWrite(c, q)
      /\ progress' = Cascade(c)
      /\ tasks' = tasks \union ({new} \ {None})
      /\ parent' = [u \in Tasks |-> IF u = new THEN t ELSE parent[u]]
      /\ open' = [open EXCEPT ![t] = call[c].open]
      /\ done' = [done EXCEPT ![t] = call[c].done]
      /\ muddled' = ((IF call[c].alone THEN muddled \ {t, q} ELSE muddled \union {t, q})
                       \union {Up(q)}) \ {None}
      /\ call' = [call EXCEPT ![c] = Idle]

(* A statement fails or the process dies; the transaction is rolled back.  *)
Abandon(c) ==
  /\ Running(c)
  /\ call' = [call EXCEPT ![c] = Idle]
  /\ UNCHANGED <<tasks, parent, open, done, progress, muddled>>

Next ==
  \/ \E t \in Tasks : CreateTask(t)
  \/ \E c \in Calls, t \in Tasks :
       \/ CreateChecklistItem(c, t)
       \/ RemoveChecklistItem(c, t)
       \/ SetChecklistItemCompletion(c, t)
  \/ \E c \in Calls, t \in Tasks, p \in Tasks : CreateSubtask(c, t, p)
  \/ \E c \in Calls : AggregateParent(c) \/ Commit(c) \/ Abandon(c)

Spec == Init /\ [][Next]_vars

-----------------------------------------------------------------------------
(* Properties.                                                             *)

TypeOK ==
  /\ tasks \subseteq Tasks
  /\ parent \in [Tasks -> Tasks \union {None}]
  /\ open \in [Tasks -> 0..MaxItems]
  /\ done \in [Tasks -> 0..MaxItems]
  /\ progress \in [Tasks -> Percent]
  /\ call \in [Calls -> Transaction]
  /\ muddled \subseteq Tasks

\* The progress of a task without subtasks is always that of its checklist, and
\* that of a task with subtasks is their mean, unless the transaction that last
\* recomputed it overlapped another one nearby, or a grandchild has changed since
\* (recomputeProgressCascade goes up one level).  The next transaction that has
\* the family to itself sets it right.
ProgressFollowsRule ==
  \A t \in tasks : Children(t) = {} \/ t \notin muddled => progress[t] = Rule(t)

\* However transactions wait for each other's rows, one of them can go on: rows
\* are locked from a task upwards.
SomeoneProceeds ==
  (\E c \in Calls : Running(c)) =>
    \E c \in Calls :
      LET t == call[c].target
      IN  \/ /\ call[c].step = "own"
             /\ call[c].wrote \/ call[c].differs => FreeToWrite(c, t)
          \/ /\ call[c].step = "parent"
             /\ parent[t] # None /\ call[c].differs => FreeToWrite(c, parent[t])
=============================================================================
