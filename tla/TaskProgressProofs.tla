------------------------- MODULE TaskProgressProofs -------------------------
(***************************************************************************)
(* Proofs about TaskProgress for any tasks, transactions and sizes of      *)
(* checklists.  For ProgressFollowsRule what is computed (Mean, Ratio)     *)
(* stays uninterpreted: that proof is that the right inputs reach it.  The *)
(* type correctness says that the results are percentages.                 *)
(***************************************************************************)
EXTENDS TaskProgress, SumProofs, TLAPS

(* The shape of the state, without the ranges of what is computed.         *)
Recorded(r) ==
  r = [step |-> r.step, target |-> r.target, created |-> r.created, open |-> r.open,
       done |-> r.done, own |-> r.own, up |-> r.up, differs |-> r.differs,
       wrote |-> r.wrote, alone |-> r.alone]

Shape ==
  /\ tasks \subseteq Tasks
  /\ parent \in [Tasks -> Tasks \union {None}]
  /\ open = [t \in Tasks |-> open[t]]
  /\ done = [t \in Tasks |-> done[t]]
  /\ progress = [t \in Tasks |-> progress[t]]
  /\ call = [c \in Calls |-> call[c]]
  /\ \A c \in Calls : /\ Recorded(call[c])
                      /\ call[c].differs \in BOOLEAN
                      /\ call[c].wrote \in BOOLEAN
                      /\ call[c].alone \in BOOLEAN

(* Parents exist, no task is its own parent or grandparent, and a task     *)
(* that is not there yet is blank.                                         *)
TreeInv ==
  /\ \A t \in Tasks : parent[t] # None =>
       /\ t \in tasks /\ parent[t] \in tasks
       /\ parent[t] # t /\ parent[parent[t]] # t
  /\ \A t \in Tasks \ tasks : open[t] = 0 /\ done[t] = 0 /\ progress[t] = Null

(* What a transaction in progress holds, whatever the others do.           *)
HoldInv ==
  \A c \in Calls : Running(c) =>
    /\ call[c].target \in tasks
    /\ call[c].created = None => call[c].wrote
    /\ call[c].created # None =>
         /\ call[c].created \in Tasks \ tasks
         /\ call[c].open = open[call[c].target]
         /\ call[c].done = done[call[c].target]

(* Row locks exclude each other, and identifiers are fresh.                *)
LockInv ==
  \A c \in Calls : \A d \in Calls \ {c} : Running(c) /\ Running(d) =>
    /\ call[c].target = call[d].target =>
         call[c].created # None /\ ~(call[c].wrote /\ call[d].wrote)
    /\ call[c].created # None => call[c].created # call[d].created

(* Transactions that are alone are not related to any other.               *)
AloneInv ==
  \A c \in Calls : \A d \in Calls \ {c} :
    Running(c) /\ Running(d) /\ call[c].alone
      => Above(call[c].target) \cap Above(call[d].target) = {}

(* The numbers of a transaction that is alone are up to date, and so is    *)
(* that of the edit of a task without subtasks.  What a transaction that   *)
(* is alone does not write is what the row says.                           *)
Family(c) == Children(call[c].target) \union ({call[c].created} \ {None})

OwnUpToDate(c) ==
  call[c].own =
    ComputeTaskProgress(call[c].open, call[c].done, [u \in Family(c) |-> progress[u]])

OwnStands(c) == ~call[c].differs => call[c].own = progress[call[c].target]

ParentUpToDate(c) ==
  LET t == call[c].target
      q == parent[t]
  IN  /\ ~call[c].wrote => call[c].own = progress[t]
      /\ q # None /\ ~call[c].differs => call[c].up = progress[q]
      /\ q # None => call[c].up = ComputeTaskProgress(open[q], done[q],
           [u \in Children(q) |-> IF u = t THEN call[c].own ELSE progress[u]])

ValueInv ==
  \A c \in Calls : Running(c) =>
    /\ call[c].alone \/ (call[c].created = None /\ Children(call[c].target) = {})
         => OwnUpToDate(c)
    /\ call[c].alone /\ call[c].step = "own" => OwnStands(c)
    /\ call[c].alone /\ call[c].step = "parent" => ParentUpToDate(c)

IInv ==
  Shape /\ TreeInv /\ HoldInv /\ LockInv /\ AloneInv /\ ValueInv /\ ProgressFollowsRule

-----------------------------------------------------------------------------
(* The initial state has no task and no transaction.                       *)
LEMMA InitIInv == Init => IInv
<1> SUFFICES ASSUME Init PROVE IInv
  OBVIOUS
<1>1. Shape
  BY NoneAssumption DEF Init, Shape, Recorded, Idle
<1>2. TreeInv /\ HoldInv /\ LockInv /\ AloneInv /\ ValueInv /\ ProgressFollowsRule
  BY DEF Init, TreeInv, HoldInv, LockInv, AloneInv, ValueInv, ProgressFollowsRule,
         Running, Idle
<1> QED
  BY <1>1, <1>2 DEF IInv

(* Nothing of a task changes for who looks only at relatives.              *)
SameTask(x) ==
  /\ open'[x] = open[x] /\ done'[x] = done[x] /\ progress'[x] = progress[x]
  /\ Children(x)' = Children(x)
  /\ \A u \in Children(x) : progress'[u] = progress[u]

LEMMA SameTaskRule ==
  ASSUME NEW x, SameTask(x)
  PROVE  Rule(x)' = Rule(x) /\ progress'[x] = progress[x]
<1>1. Scores(x)' = Scores(x)
  <2>1. Scores(x)' = [u \in Children(x)' |-> progress'[u]]
    BY DEF Scores
  <2> QED
    BY <2>1 DEF SameTask, Scores
<1> QED
  BY <1>1 DEF SameTask, Rule

-----------------------------------------------------------------------------
(* Beginning a transaction.                                                *)

LEMMA BeginFields ==
  ASSUME Shape, NEW c \in Calls, NEW r, Recorded(r), Begin(c, r)
  PROVE  /\ call' = [d \in Calls |-> call'[d]]
         /\ Recorded(call'[c])
         /\ call'[c].step = r.step /\ call'[c].target = r.target
         /\ call'[c].created = r.created
         /\ call'[c].open = r.open /\ call'[c].done = r.done
         /\ call'[c].own = r.own /\ call'[c].up = r.up
         /\ call'[c].differs = r.differs /\ call'[c].wrote = r.wrote
         /\ call'[c].alone = \A d \in Calls \ {c} : ~Related(d, r.target)
         /\ \A d \in Calls \ {c} :
              /\ Recorded(call'[d])
              /\ call'[d].step = call[d].step /\ call'[d].target = call[d].target
              /\ call'[d].created = call[d].created
              /\ call'[d].open = call[d].open /\ call'[d].done = call[d].done
              /\ call'[d].own = call[d].own /\ call'[d].up = call[d].up
              /\ call'[d].differs = call[d].differs /\ call'[d].wrote = call[d].wrote
              /\ call'[d].alone \in BOOLEAN
              /\ call'[d].alone => call[d].alone /\ ~Related(d, r.target)
<1> DEFINE t == r.target
           lone == \A d \in Calls \ {c} : ~Related(d, t)
<1>1. call' = [d \in Calls |->
        IF d = c THEN [r EXCEPT !.alone = lone]
        ELSE IF Related(d, t) THEN [call[d] EXCEPT !.alone = FALSE]
        ELSE call[d]]
  BY DEF Begin
<1>2. call'[c] = [r EXCEPT !.alone = lone]
  BY <1>1
<1>3. ASSUME NEW d \in Calls \ {c}
      PROVE  call'[d] = IF Related(d, t) THEN [call[d] EXCEPT !.alone = FALSE] ELSE call[d]
  BY <1>1
<1> HIDE DEF lone, t
<1>4. /\ Recorded(call'[c])
      /\ call'[c].step = r.step /\ call'[c].target = r.target
      /\ call'[c].created = r.created
      /\ call'[c].open = r.open /\ call'[c].done = r.done
      /\ call'[c].own = r.own /\ call'[c].up = r.up
      /\ call'[c].differs = r.differs /\ call'[c].wrote = r.wrote
      /\ call'[c].alone = lone
  BY <1>2 DEF Recorded
<1>5. ASSUME NEW d \in Calls \ {c}
      PROVE  /\ Recorded(call'[d])
             /\ call'[d].step = call[d].step /\ call'[d].target = call[d].target
             /\ call'[d].created = call[d].created
             /\ call'[d].open = call[d].open /\ call'[d].done = call[d].done
             /\ call'[d].own = call[d].own /\ call'[d].up = call[d].up
             /\ call'[d].differs = call[d].differs /\ call'[d].wrote = call[d].wrote
             /\ call'[d].alone \in BOOLEAN
             /\ call'[d].alone => call[d].alone /\ ~Related(d, t)
  <2>1. Recorded(call[d]) /\ call[d].alone \in BOOLEAN
    BY DEF Shape
  <2>2. CASE Related(d, t)
    <3>1. call'[d] = [call[d] EXCEPT !.alone = FALSE]
      BY <1>3, <2>2
    <3> QED
      BY <2>1, <3>1 DEF Recorded
  <2>3. CASE ~Related(d, t)
    <3>1. call'[d] = call[d]
      BY <1>3, <2>3
    <3> QED
      BY <2>1, <2>3, <3>1
  <2> QED
    BY <2>2, <2>3
<1> QED
  BY <1>1, <1>4, <1>5 DEF lone, t

(* A transaction that holds its locks and has computed its own number.     *)
Ready(c, r) ==
  /\ Recorded(r)
  /\ r.step = "own" /\ r.target \in tasks
  /\ r.differs \in BOOLEAN /\ r.wrote \in BOOLEAN
  /\ ~r.differs => r.own = progress[r.target]
  /\ r.created = None =>
       /\ r.wrote
       /\ \A d \in Calls \ {c} : Running(d) => call[d].target # r.target
  /\ r.created # None =>
       /\ r.created \in Tasks \ tasks /\ ~r.wrote
       /\ r.open = open[r.target] /\ r.done = done[r.target]
       /\ \A d \in Calls \ {c} :
            /\ call[d].created # r.created
            /\ Running(d) /\ call[d].target = r.target => call[d].created # None
  /\ r.own = ComputeTaskProgress(r.open, r.done,
       [u \in Children(r.target) \union ({r.created} \ {None}) |-> progress[u]])

LEMMA BeginStep ==
  ASSUME IInv, NEW c \in Calls, NEW r, call[c] = Idle, Ready(c, r), Begin(c, r),
         UNCHANGED <<tasks, parent, open, done, progress, muddled>>
  PROVE  IInv'
<1> USE DEF Running
<1>1. Shape /\ Recorded(r)
  BY DEF IInv, Ready
<1>2. /\ call' = [d \in Calls |-> call'[d]]
      /\ Recorded(call'[c])
      /\ call'[c].step = r.step /\ call'[c].target = r.target
      /\ call'[c].created = r.created
      /\ call'[c].open = r.open /\ call'[c].done = r.done
      /\ call'[c].own = r.own /\ call'[c].up = r.up
      /\ call'[c].differs = r.differs /\ call'[c].wrote = r.wrote
      /\ call'[c].alone = \A d \in Calls \ {c} : ~Related(d, r.target)
      /\ \A d \in Calls \ {c} :
           /\ Recorded(call'[d])
           /\ call'[d].step = call[d].step /\ call'[d].target = call[d].target
           /\ call'[d].created = call[d].created
           /\ call'[d].open = call[d].open /\ call'[d].done = call[d].done
           /\ call'[d].own = call[d].own /\ call'[d].up = call[d].up
           /\ call'[d].differs = call[d].differs /\ call'[d].wrote = call[d].wrote
           /\ call'[d].alone \in BOOLEAN
           /\ call'[d].alone => call[d].alone /\ ~Related(d, r.target)
  BY <1>1, BeginFields
<1>3. Shape'
  BY <1>1, <1>2 DEF Shape, Ready
<1>4. TreeInv'
  BY DEF IInv, TreeInv
<1>5. HoldInv'
  BY <1>2 DEF IInv, HoldInv, Ready
<1>6. LockInv'
  BY <1>2 DEF IInv, LockInv, Ready
<1>7. parent' = parent /\ tasks' = tasks /\ progress' = progress
  OBVIOUS
<1>8. AloneInv'
  <2> SUFFICES ASSUME NEW d \in Calls, NEW e \in Calls \ {d}, Running(d)', Running(e)',
                      call'[d].alone
               PROVE  (Above(call[d].target) \cap Above(call[e].target))' = {}
    BY DEF AloneInv
  <2>1. CASE d = c
    <3>1. ~Related(e, r.target) /\ call'[e].target = call[e].target /\ Running(e)
          /\ call'[d].target = r.target
      BY <2>1, <1>2
    <3> QED
      BY <3>1, <1>7 DEF Related, Above, Up
  <2>2. CASE e = c
    <3>1. ~Related(d, r.target) /\ call'[d].target = call[d].target /\ Running(d)
          /\ call'[e].target = r.target
      BY <2>2, <1>2
    <3> QED
      BY <3>1, <1>7 DEF Related, Above, Up
  <2>3. CASE d # c /\ e # c
    <3>1. call[d].alone /\ Running(d) /\ Running(e) /\ e \in Calls \ {d}
      BY <2>3, <1>2
    <3>2. call'[d].target = call[d].target /\ call'[e].target = call[e].target
      BY <2>3, <1>2
    <3>3. Above(call[d].target) \cap Above(call[e].target) = {}
      BY <3>1 DEF IInv, AloneInv
    <3> QED
      BY <3>2, <3>3, <1>7 DEF Above, Up
  <2> QED
    BY <2>1, <2>2, <2>3
<1>9. ValueInv'
  <2>0. ASSUME NEW d \in Calls, Running(d)'
        PROVE  /\ (call[d].alone
                     \/ (call[d].created = None /\ Children(call[d].target) = {}))'
                     => OwnUpToDate(d)'
               /\ (call[d].alone /\ call[d].step = "own")' => OwnStands(d)'
               /\ (call[d].alone /\ call[d].step = "parent")' => ParentUpToDate(d)'
    <3>1. CASE d = c
      <4>1. OwnUpToDate(c)'
        BY <1>2, <1>7 DEF OwnUpToDate, Ready, Family, Children
      <4>2. OwnStands(c)'
        BY <1>2, <1>7 DEF OwnStands, Ready
      <4> QED
        BY <3>1, <4>1, <4>2, <1>2 DEF Ready
    <3>2. CASE d # c
      <4>0. d \in Calls \ {c}
        BY <3>2
      <4>1. /\ call'[d].step = call[d].step /\ call'[d].target = call[d].target
            /\ call'[d].created = call[d].created
            /\ call'[d].open = call[d].open /\ call'[d].done = call[d].done
            /\ call'[d].own = call[d].own /\ call'[d].up = call[d].up
            /\ call'[d].differs = call[d].differs /\ call'[d].wrote = call[d].wrote
            /\ call'[d].alone => call[d].alone
        BY <4>0, <1>2
      <4>2. Family(d)' = Family(d) /\ Children(call[d].target)' = Children(call[d].target)
        BY <4>1, <1>7 DEF Family, Children
      <4>3. OwnUpToDate(d)' = OwnUpToDate(d)
        BY <4>1, <4>2, <1>7 DEF OwnUpToDate
      <4>4. ParentUpToDate(d)' = ParentUpToDate(d)
        BY <4>1, <1>7 DEF ParentUpToDate, Children
      <4>6. OwnStands(d)' = OwnStands(d)
        BY <4>1, <1>7 DEF OwnStands
      <4>5. Running(d)
        BY <2>0, <4>1
      <4> QED
        BY <4>1, <4>2, <4>3, <4>4, <4>5, <4>6 DEF IInv, ValueInv
    <3> QED
      BY <3>1, <3>2
  <2> QED
    BY <2>0 DEF ValueInv
<1>10. ProgressFollowsRule'
  BY DEF IInv, ProgressFollowsRule, Rule, Scores, Children
<1> QED
  BY <1>3, <1>4, <1>5, <1>6, <1>8, <1>9, <1>10 DEF IInv

-----------------------------------------------------------------------------
(* The transactions.                                                       *)

LEMMA EditStep ==
  ASSUME IInv, NEW c \in Calls, NEW t \in Tasks, NEW n, NEW m, Edit(c, t, n, m)
  PROVE  IInv'
<1> DEFINE r == Starting(t, None, n, m, ComputeTaskProgress(n, m, Scores(t)))
<1>1. call[c] = Idle /\ Begin(c, r) /\ LockChecklistAccess(c, t)
      /\ UNCHANGED <<tasks, parent, open, done, progress, muddled>>
  BY DEF Edit
<1>2. /\ Recorded(r) /\ r.step = "own" /\ r.target = t /\ r.created = None
      /\ r.open = n /\ r.done = m /\ r.wrote = TRUE
      /\ r.differs = (r.own # progress[t])
      /\ r.own = ComputeTaskProgress(n, m, Scores(t))
  BY DEF Recorded, Starting
<1> HIDE DEF r
<1>3. \A d \in Calls \ {c} : Running(d) => call[d].target # t
  BY <1>1 DEF LockChecklistAccess, FreeToUpdate, ForUpdate, KeyShare
<1>4. [u \in Children(t) \union ({None} \ {None}) |-> progress[u]] = Scores(t)
  BY DEF Scores
<1>5. Ready(c, r)
  BY <1>1, <1>2, <1>3, <1>4 DEF Ready, LockChecklistAccess
<1> QED
  BY <1>1, <1>5, BeginStep

LEMMA CreateSubtaskStep ==
  ASSUME IInv, NEW c \in Calls, NEW t \in Tasks, NEW p \in Tasks, CreateSubtask(c, t, p)
  PROVE  IInv'
<1> DEFINE own == ComputeTaskProgress(open[p], done[p],
                                      [u \in Children(p) \union {t} |-> progress[u]])
           r == Starting(p, t, open[p], done[p], own)
<1>1. call[c] = Idle /\ Begin(c, r) /\ Unused(t) /\ p \in tasks /\ FreeToShare(c, p)
      /\ UNCHANGED <<tasks, parent, open, done, progress, muddled>>
  BY DEF CreateSubtask
<1> HIDE DEF own
<1>2. t # None /\ t \in Tasks \ tasks /\ \A d \in Calls : call[d].created # t
  BY <1>1, NoneAssumption DEF Unused
<1>3. /\ Recorded(r) /\ r.step = "own" /\ r.target = p /\ r.created = t
      /\ r.open = open[p] /\ r.done = done[p] /\ r.wrote = FALSE /\ r.own = own
      /\ r.differs = (own # progress[p])
  BY <1>2 DEF Recorded, Starting
<1> HIDE DEF r
<1>4. \A d \in Calls \ {c} :
        Running(d) /\ call[d].target = p => call[d].created # None
  BY <1>1 DEF FreeToShare, ForUpdate
<1>5. Children(p) \union {t} = Children(p) \union ({t} \ {None})
  BY <1>2
<1>6. Ready(c, r)
  BY <1>1, <1>2, <1>3, <1>4, <1>5 DEF Ready, own
<1> QED
  BY <1>1, <1>6, BeginStep

LEMMA CreateTaskStep ==
  ASSUME IInv, NEW t \in Tasks, CreateTask(t)
  PROVE  IInv'
<1> USE DEF Running
<1>1. /\ t \notin tasks /\ \A c \in Calls : call[c].created # t
      /\ tasks' = tasks \union {t}
      /\ parent' = parent /\ open' = open /\ done' = done /\ progress' = progress
      /\ call' = call /\ muddled' = muddled
  BY DEF CreateTask, Unused
<1>2. parent[t] = None /\ open[t] = 0 /\ done[t] = 0 /\ progress[t] = Null
  BY <1>1 DEF IInv, TreeInv
<1>3. \A x \in Tasks : Children(x)' = Children(x)
  BY <1>1, <1>2, NoneAssumption DEF Children
<1>4. \A x \in Tasks : parent[x] # t
  BY <1>1, NoneAssumption DEF IInv, TreeInv
<1>5. Children(t) = {}
  BY <1>4 DEF Children, IInv, Shape
<1>6. Shape' /\ TreeInv' /\ HoldInv' /\ LockInv'
  BY <1>1, <1>2, <1>4 DEF IInv, Shape, Recorded, TreeInv, HoldInv, LockInv
<1>7. AloneInv'
  BY <1>1 DEF IInv, AloneInv, Above, Up
<1>8. ValueInv'
  <2>0. ASSUME NEW d \in Calls, Running(d)
        PROVE  /\ (call[d].alone
                     \/ (call[d].created = None /\ Children(call[d].target) = {}))'
                     => OwnUpToDate(d)'
               /\ (call[d].alone /\ call[d].step = "own")' => OwnStands(d)'
               /\ (call[d].alone /\ call[d].step = "parent")' => ParentUpToDate(d)'
    <3>1. call[d].target \in Tasks /\ call[d].target \in tasks
      BY <2>0 DEF IInv, HoldInv, Shape
    <3>2. Children(call[d].target)' = Children(call[d].target)
      BY <1>1, <1>2, <3>1, NoneAssumption DEF Children
    <3>3. OwnUpToDate(d)' = OwnUpToDate(d)
      BY <1>1, <3>2 DEF OwnUpToDate, Family
    <3>4. ParentUpToDate(d)' = ParentUpToDate(d)
      <4>1. ASSUME NEW q, q = parent[call[d].target], q # None
            PROVE  {u \in tasks' : parent[u] = q} = {u \in tasks : parent[u] = q}
        BY <1>1, <1>2, <4>1
      <4> QED
        BY <1>1, <4>1 DEF ParentUpToDate, Children
    <3>5. OwnStands(d)' = OwnStands(d)
      BY <1>1 DEF OwnStands
    <3> QED
      BY <1>1, <2>0, <3>2, <3>3, <3>4, <3>5 DEF IInv, ValueInv
  <2> QED
    BY <2>0, <1>1 DEF ValueInv
<1>9. ProgressFollowsRule'
  <2> SUFFICES ASSUME NEW x \in tasks', Children(x)' = {} \/ x \notin muddled'
               PROVE  progress'[x] = Rule(x)'
    BY DEF ProgressFollowsRule
  <2>0. x \in Tasks
    BY <1>1 DEF IInv, Shape
  <2>1. Rule(x)' = Rule(x)
    BY <1>1, <1>3, <2>0 DEF Rule, Scores
  <2>2. CASE x = t
    BY <1>1, <1>2, <1>5, <2>1, <2>2 DEF Rule, Scores, ComputeTaskProgress
  <2>3. CASE x # t
    BY <1>1, <1>3, <2>0, <2>1, <2>3 DEF IInv, ProgressFollowsRule
  <2> QED
    BY <2>2, <2>3
<1> QED
  BY <1>6, <1>7, <1>8, <1>9 DEF IInv

LEMMA AbandonStep ==
  ASSUME IInv, NEW c \in Calls, Abandon(c)
  PROVE  IInv'
<1> USE DEF Running
<1>1. /\ UNCHANGED <<tasks, parent, open, done, progress, muddled>>
      /\ call' = [call EXCEPT ![c] = Idle]
  BY DEF Abandon
<1>2. call' = [d \in Calls |-> IF d = c THEN Idle ELSE call[d]]
  BY <1>1 DEF IInv, Shape
<1>3. \A d \in Calls : Running(d)' => d # c /\ call'[d] = call[d] /\ Running(d)
  BY <1>2 DEF Idle
<1>4. Shape'
  <2>1. ASSUME NEW d \in Calls
        PROVE  Recorded(call'[d]) /\ call'[d].differs \in BOOLEAN
               /\ call'[d].wrote \in BOOLEAN /\ call'[d].alone \in BOOLEAN
    <3>1. CASE d = c
      BY <1>2, <3>1 DEF Recorded, Idle
    <3>2. CASE d # c
      BY <1>2, <3>2 DEF IInv, Shape
    <3> QED
      BY <3>1, <3>2
  <2> QED
    BY <1>1, <1>2, <2>1 DEF IInv, Shape, Recorded
<1>5. TreeInv' /\ ProgressFollowsRule'
  BY <1>1 DEF IInv, TreeInv, ProgressFollowsRule, Rule, Scores, Children
<1>6. HoldInv' /\ LockInv'
  BY <1>1, <1>3 DEF IInv, HoldInv, LockInv
<1>7. AloneInv'
  <2>1. ASSUME NEW d \in Calls, NEW e \in Calls \ {d},
               Running(d)', Running(e)', call'[d].alone
        PROVE  (Above(call[d].target) \cap Above(call[e].target))' = {}
    <3>1. /\ call'[d] = call[d] /\ call'[e] = call[e]
          /\ Running(d) /\ Running(e)
      BY <1>3, <2>1
    <3>2. Above(call[d].target) \cap Above(call[e].target) = {}
      BY <2>1, <3>1 DEF IInv, AloneInv
    <3>3. Above(call[d].target)' = Above(call[d].target)
      BY <1>1, <3>1 DEF Above, Up
    <3>4. Above(call[e].target)' = Above(call[e].target)
      BY <1>1, <3>1 DEF Above, Up
    <3> QED
      BY <3>2, <3>3, <3>4
  <2> QED
    BY <2>1 DEF AloneInv
<1>8. ValueInv'
  <2>0. ASSUME NEW d \in Calls, Running(d)'
        PROVE  /\ (call[d].alone
                     \/ (call[d].created = None /\ Children(call[d].target) = {}))'
                     => OwnUpToDate(d)'
               /\ (call[d].alone /\ call[d].step = "own")' => OwnStands(d)'
               /\ (call[d].alone /\ call[d].step = "parent")' => ParentUpToDate(d)'
    <3>1. call'[d] = call[d] /\ Running(d)
      BY <1>3, <2>0
    <3>2. Children(call[d].target)' = Children(call[d].target)
      BY <1>1, <3>1 DEF Children
    <3>3. OwnUpToDate(d)' = OwnUpToDate(d)
      BY <1>1, <3>1, <3>2 DEF OwnUpToDate, Family
    <3>4. ParentUpToDate(d)' = ParentUpToDate(d)
      BY <1>1, <3>1 DEF ParentUpToDate, Children
    <3>5. OwnStands(d)' = OwnStands(d)
      BY <1>1, <3>1 DEF OwnStands
    <3> QED
      BY <3>1, <3>2, <3>3, <3>4, <3>5 DEF IInv, ValueInv
  <2> QED
    BY <2>0 DEF ValueInv
<1> QED
  BY <1>4, <1>5, <1>6, <1>7, <1>8 DEF IInv

LEMMA AggregateParentStep ==
  ASSUME IInv, NEW c \in Calls, AggregateParent(c)
  PROVE  IInv'
<1> USE DEF Running
<1> DEFINE t == call[c].target
           q == parent[t]
           writes == call[c].wrote \/ call[c].differs
           up == IF q = None THEN Null
                 ELSE ComputeTaskProgress(open[q], done[q],
                                          [Scores(q) EXCEPT ![t] = call[c].own])
           differs == q # None /\ up # progress[q]
<1>1. /\ call[c].step = "own" /\ (writes => FreeToWrite(c, t))
      /\ call' = [call EXCEPT ![c] = [@ EXCEPT !.step = "parent", !.wrote = writes, !.up = up,
                                     !.differs = differs]]
      /\ tasks' = tasks /\ parent' = parent /\ open' = open /\ done' = done
      /\ progress' = progress /\ muddled' = muddled
  BY DEF AggregateParent
<1>2. /\ Recorded(call[c]) /\ call[c].wrote \in BOOLEAN /\ call[c].alone \in BOOLEAN
      /\ call = [d \in Calls |-> call[d]]
  BY DEF IInv, Shape
<1>0. call[c].differs \in BOOLEAN
  BY DEF IInv, Shape
<1> HIDE DEF up, writes, differs
<1>3. call' = [d \in Calls |-> IF d = c THEN [call[c] EXCEPT !.step = "parent", !.wrote = writes,
                                                             !.up = up, !.differs = differs]
                                ELSE call[d]]
  BY <1>1, <1>2
<1>4. \A d \in Calls \ {c} : call'[d] = call[d]
  BY <1>3
<1>5. writes \in BOOLEAN /\ differs \in BOOLEAN
  BY <1>0, <1>2 DEF writes, differs
<1>6. /\ Recorded(call'[c])
      /\ call'[c].step = "parent" /\ call'[c].wrote = writes /\ call'[c].up = up
      /\ call'[c].differs = differs
      /\ call'[c].target = call[c].target /\ call'[c].created = call[c].created
      /\ call'[c].open = call[c].open /\ call'[c].done = call[c].done
      /\ call'[c].own = call[c].own /\ call'[c].alone = call[c].alone
  <2>1. call'[c] = [call[c] EXCEPT !.step = "parent", !.wrote = writes, !.up = up,
                                     !.differs = differs]
    BY <1>3
  <2> QED
    BY <2>1, <1>2 DEF Recorded
<1>7. \A d \in Calls :
        /\ call'[d].target = call[d].target /\ call'[d].created = call[d].created
        /\ call'[d].open = call[d].open /\ call'[d].done = call[d].done
        /\ call'[d].own = call[d].own /\ call'[d].alone = call[d].alone
        /\ Running(d)' = Running(d)
  BY <1>1, <1>4, <1>6
<1>8. Shape'
  <2>1. ASSUME NEW d \in Calls
        PROVE  Recorded(call'[d]) /\ call'[d].differs \in BOOLEAN
               /\ call'[d].wrote \in BOOLEAN /\ call'[d].alone \in BOOLEAN
    <3>1. CASE d = c
      BY <1>2, <1>5, <1>6, <3>1
    <3>2. CASE d # c
      BY <1>4, <3>2 DEF IInv, Shape
    <3> QED
      BY <3>1, <3>2
  <2> QED
    BY <1>1, <1>3, <2>1 DEF IInv, Shape, Recorded
<1>9. TreeInv' /\ ProgressFollowsRule'
  BY <1>1 DEF IInv, TreeInv, ProgressFollowsRule, Rule, Scores, Children
<1>10. HoldInv'
  <2>1. call[c].created = None => writes
    BY <1>1, <1>2 DEF IInv, HoldInv, writes
  <2>2. \A d \in Calls : Running(d) /\ call[d].created = None => call'[d].wrote
    BY <2>1, <1>4, <1>6 DEF IInv, HoldInv
  <2> QED
    BY <1>1, <1>7, <2>2 DEF IInv, HoldInv
<1>11. LockInv'
  <2> SUFFICES ASSUME NEW d \in Calls, NEW e \in Calls \ {d}, Running(d), Running(e)
               PROVE  /\ call[d].target = call[e].target =>
                           call[d].created # None /\ ~(call'[d].wrote /\ call'[e].wrote)
                      /\ call[d].created # None => call[d].created # call[e].created
    BY <1>7 DEF LockInv
  <2>1. /\ call[d].target = call[e].target =>
             call[d].created # None /\ ~(call[d].wrote /\ call[e].wrote)
        /\ call[d].created # None => call[d].created # call[e].created
    BY DEF IInv, LockInv
  <2>2. ASSUME NEW f \in Calls \ {c}, Running(f), call[f].target = t, writes
        PROVE  ~call[f].wrote
    BY <1>1, <2>2 DEF FreeToWrite, Written
  <2> QED
    BY <1>4, <1>6, <2>1, <2>2
<1>12. AloneInv'
  BY <1>1, <1>7 DEF IInv, AloneInv, Above, Up
<1>13. ValueInv'
  <2>0. ASSUME NEW d \in Calls, Running(d)
        PROVE  /\ (call[d].alone
                     \/ (call[d].created = None /\ Children(call[d].target) = {}))'
                     => OwnUpToDate(d)'
               /\ (call[d].alone /\ call[d].step = "own")' => OwnStands(d)'
               /\ (call[d].alone /\ call[d].step = "parent")' => ParentUpToDate(d)'
    <3>1. Children(call[d].target)' = Children(call[d].target)
      BY <1>1, <1>7 DEF Children
    <3>2. OwnUpToDate(d)' = OwnUpToDate(d)
      BY <1>1, <1>7, <3>1 DEF OwnUpToDate, Family
    <3>3. CASE d = c
      <4>1. call[c].alone /\ ~writes => call[c].own = progress[t]
        BY <1>1, <2>0, <3>3 DEF writes, IInv, ValueInv, OwnStands
      <4>5. q # None /\ ~differs => up = progress[q]
        BY DEF differs
      <4>2. t \in tasks
        BY <2>0, <3>3 DEF IInv, HoldInv
      <4>3. ASSUME q # None
            PROVE  up = ComputeTaskProgress(open[q], done[q],
                     [u \in Children(q) |-> IF u = t THEN call[c].own ELSE progress[u]])
        <5>1. t \in Children(q)
          BY <4>2 DEF Children
        <5>2. [Scores(q) EXCEPT ![t] = call[c].own]
                = [u \in Children(q) |-> IF u = t THEN call[c].own ELSE progress[u]]
          BY <5>1 DEF Scores
        <5> QED
          BY <4>3, <5>2 DEF up
      <4>4. call[c].alone => ParentUpToDate(c)'
        <5>1. q # None => Children(q)' = Children(q)
          BY <1>1 DEF Children
        <5> QED
          BY <1>1, <1>6, <4>1, <4>3, <4>5, <5>1 DEF ParentUpToDate, Children
      <4> QED
        BY <1>6, <1>7, <2>0, <3>1, <3>2, <3>3, <4>4 DEF IInv, ValueInv
    <3>4. CASE d # c
      <4>1. ParentUpToDate(d)' = ParentUpToDate(d)
        BY <1>1, <1>4, <3>4 DEF ParentUpToDate, Children
      <4>2. OwnStands(d)' = OwnStands(d)
        BY <1>1, <1>4, <3>4 DEF OwnStands
      <4> QED
        BY <1>4, <1>7, <2>0, <3>1, <3>2, <3>4, <4>1, <4>2 DEF IInv, ValueInv
    <3> QED
      BY <3>3, <3>4
  <2> QED
    BY <2>0, <1>7 DEF ValueInv
<1> QED
  BY <1>8, <1>9, <1>10, <1>11, <1>12, <1>13 DEF IInv

(* What a commit does to the tasks.                                        *)
LEMMA CommitEffect ==
  ASSUME IInv, NEW c \in Calls, Commit(c), NEW t, NEW q, NEW new,
         t = call[c].target, q = parent[t], new = call[c].created
  PROVE  /\ call[c].step = "parent" /\ Running(c)
         /\ t \in tasks /\ t \in Tasks
         /\ q = None \/ (q \in tasks /\ q \in Tasks /\ q # t /\ parent[q] # t)
         /\ new = None \/ (new \in Tasks /\ new \notin tasks /\ new # t /\ new # q)
         /\ tasks' = tasks \union ({new} \ {None})
         /\ parent' = [u \in Tasks |-> IF u = new THEN t ELSE parent[u]]
         /\ open' = [u \in Tasks |-> IF u = t THEN call[c].open ELSE open[u]]
         /\ done' = [u \in Tasks |-> IF u = t THEN call[c].done ELSE done[u]]
         /\ progress' = [u \in Tasks |-> IF u = t /\ call[c].wrote THEN call[c].own
                                         ELSE IF u = q /\ call[c].differs THEN call[c].up
                                      ELSE progress[u]]
         /\ call' = [d \in Calls |-> IF d = c THEN Idle ELSE call[d]]
         /\ muddled' = ((IF call[c].alone THEN muddled \ {t, q} ELSE muddled \union {t, q})
                           \union {Up(q)}) \ {None}
<1>1. /\ call[c].step = "parent"
      /\ progress' = Cascade(c)
      /\ tasks' = tasks \union ({new} \ {None})
      /\ parent' = [u \in Tasks |-> IF u = new THEN t ELSE parent[u]]
      /\ open' = [open EXCEPT ![t] = call[c].open]
      /\ done' = [done EXCEPT ![t] = call[c].done]
      /\ muddled' = ((IF call[c].alone THEN muddled \ {t, q} ELSE muddled \union {t, q})
                       \union {Up(q)}) \ {None}
      /\ call' = [call EXCEPT ![c] = Idle]
  BY DEF Commit
<1>2. Running(c)
  BY <1>1 DEF Running
<1>3. t \in tasks /\ t \in Tasks
  BY <1>2 DEF IInv, HoldInv, Shape
<1>4. q = None \/ (q \in tasks /\ q \in Tasks /\ q # t /\ parent[q] # t)
  BY <1>3 DEF IInv, TreeInv, Shape
<1>5. new = None \/ (new \in Tasks /\ new \notin tasks)
  BY <1>2 DEF IInv, HoldInv
<1>6. progress' = [u \in Tasks |-> IF u = t /\ call[c].wrote THEN call[c].own
                                  ELSE IF u = q /\ call[c].differs THEN call[c].up
                                      ELSE progress[u]]
  BY <1>1 DEF Cascade
<1>7. /\ open' = [u \in Tasks |-> IF u = t THEN call[c].open ELSE open[u]]
      /\ done' = [u \in Tasks |-> IF u = t THEN call[c].done ELSE done[u]]
      /\ call' = [d \in Calls |-> IF d = c THEN Idle ELSE call[d]]
  BY <1>1 DEF IInv, Shape
<1> QED
  BY <1>1, <1>2, <1>3, <1>4, <1>5, <1>6, <1>7, NoneAssumption

(* Who is not above the target notices nothing.                            *)
LEMMA CommitIsLocal ==
  ASSUME IInv, NEW c \in Calls, Commit(c), NEW x \in Tasks,
         x \notin Above(call[c].target)
  PROVE  SameTask(x)
<1> DEFINE t == call[c].target
           q == parent[t]
           new == call[c].created
<1>1. /\ t \in tasks /\ t \in Tasks
      /\ q = None \/ (q \in tasks /\ q \in Tasks /\ q # t /\ parent[q] # t)
      /\ new = None \/ (new \in Tasks /\ new \notin tasks /\ new # t /\ new # q)
      /\ tasks' = tasks \union ({new} \ {None})
      /\ parent' = [u \in Tasks |-> IF u = new THEN t ELSE parent[u]]
      /\ open' = [u \in Tasks |-> IF u = t THEN call[c].open ELSE open[u]]
      /\ done' = [u \in Tasks |-> IF u = t THEN call[c].done ELSE done[u]]
      /\ progress' = [u \in Tasks |-> IF u = t /\ call[c].wrote THEN call[c].own
                                      ELSE IF u = q /\ call[c].differs THEN call[c].up
                                      ELSE progress[u]]
  BY CommitEffect
<1>2. x # t /\ x # q /\ (q # None => x # parent[q]) /\ x # None
  BY <1>1, NoneAssumption DEF Above, Up
<1>3. open'[x] = open[x] /\ done'[x] = done[x] /\ progress'[x] = progress[x]
  BY <1>1, <1>2
<1>4. Children(x)' = Children(x)
  <2> HIDE DEF t, q, new
  <2>0. tasks \subseteq Tasks
    BY DEF IInv, Shape
  <2>1. ASSUME NEW u \in Tasks
        PROVE  (u \in tasks' /\ parent'[u] = x) <=> (u \in tasks /\ parent[u] = x)
    <3>1. CASE u = new
      BY <1>1, <1>2, <3>1, NoneAssumption
    <3>2. CASE u # new
      BY <1>1, <3>2
    <3> QED
      BY <3>1, <3>2
  <2>2. tasks' \subseteq Tasks
    BY <1>1, <2>0
  <2> QED
    BY <2>0, <2>1, <2>2 DEF Children
<1>5. ASSUME NEW u \in Children(x) PROVE progress'[u] = progress[u]
  <2>1. u \in tasks /\ u \in Tasks /\ parent[u] = x
    BY <1>5 DEF Children, IInv, Shape
  <2>2. u # t /\ (q # None => u # q)
    BY <1>2, <2>1
  <2> QED
    BY <1>1, <2>1, <2>2, NoneAssumption
<1> QED
  BY <1>3, <1>4, <1>5 DEF SameTask

LEMMA CommitTasks ==
  ASSUME IInv, NEW c \in Calls, Commit(c)
  PROVE  Shape' /\ TreeInv' /\ HoldInv' /\ LockInv' /\ AloneInv'
<1> USE DEF Running
<1>0. PICK t, q, new : t = call[c].target /\ q = parent[t] /\ new = call[c].created
  OBVIOUS
<1>1. /\ call[c].step = "parent" /\ Running(c)
      /\ t \in tasks /\ t \in Tasks
      /\ q = None \/ (q \in tasks /\ q \in Tasks /\ q # t /\ parent[q] # t)
      /\ new = None \/ (new \in Tasks /\ new \notin tasks /\ new # t /\ new # q)
      /\ tasks' = tasks \union ({new} \ {None})
      /\ parent' = [u \in Tasks |-> IF u = new THEN t ELSE parent[u]]
      /\ open' = [u \in Tasks |-> IF u = t THEN call[c].open ELSE open[u]]
      /\ done' = [u \in Tasks |-> IF u = t THEN call[c].done ELSE done[u]]
      /\ progress' = [u \in Tasks |-> IF u = t /\ call[c].wrote THEN call[c].own
                                      ELSE IF u = q /\ call[c].differs THEN call[c].up
                                      ELSE progress[u]]
      /\ call' = [d \in Calls |-> IF d = c THEN Idle ELSE call[d]]
  BY <1>0, CommitEffect
<1>2. \A d \in Calls : Running(d)' => d # c /\ call'[d] = call[d] /\ Running(d)
  BY <1>1 DEF Idle
<1>3. Shape'
  <2>1. ASSUME NEW d \in Calls
        PROVE  Recorded(call'[d]) /\ call'[d].differs \in BOOLEAN
               /\ call'[d].wrote \in BOOLEAN /\ call'[d].alone \in BOOLEAN
    <3>1. CASE d = c
      BY <1>1, <3>1 DEF Recorded, Idle
    <3>2. CASE d # c
      BY <1>1, <3>2 DEF IInv, Shape
    <3> QED
      BY <3>1, <3>2
  <2>2. tasks' \subseteq Tasks /\ parent' \in [Tasks -> Tasks \union {None}]
    BY <1>1 DEF IInv, Shape
  <2>3. open' = [u \in Tasks |-> open'[u]] /\ done' = [u \in Tasks |-> done'[u]]
        /\ progress' = [u \in Tasks |-> progress'[u]] /\ call' = [d \in Calls |-> call'[d]]
    BY <1>1
  <2> QED
    BY <2>1, <2>2, <2>3 DEF Shape, Recorded
<1>4. TreeInv'
  <2>1. ASSUME NEW u \in Tasks, parent'[u] # None
        PROVE  /\ u \in tasks' /\ parent'[u] \in tasks'
               /\ parent'[u] # u /\ parent'[parent'[u]] # u
    <3>1. CASE u = new
      <4>1. parent'[u] = t /\ parent'[t] = q
        BY <1>0, <1>1, <3>1, NoneAssumption
      <4> QED
        BY <1>1, <3>1, <4>1, NoneAssumption
    <3>2. CASE u # new
      <4>1. parent'[u] = parent[u] /\ u \in tasks /\ parent[u] \in tasks
            /\ parent[u] # u /\ parent[parent[u]] # u
        BY <1>1, <2>1, <3>2 DEF IInv, TreeInv
      <4>2. parent[u] # new \/ new = None
        BY <1>1, <4>1
      <4>3. parent[u] \in Tasks
        BY <4>1 DEF IInv, Shape
      <4>4. parent'[parent[u]] = parent[parent[u]]
        BY <1>1, <4>1, <4>2, <4>3, NoneAssumption
      <4> QED
        BY <1>1, <4>1, <4>4
    <3> QED
      BY <3>1, <3>2
  <2>2. \A u \in Tasks \ tasks' : open'[u] = 0 /\ done'[u] = 0 /\ progress'[u] = Null
    BY <1>1, NoneAssumption DEF IInv, TreeInv
  <2> QED
    BY <2>1, <2>2 DEF TreeInv
<1>5. HoldInv'
  <2>1. ASSUME NEW d \in Calls, Running(d)'
        PROVE  /\ call[d].target \in tasks'
               /\ call[d].created = None => call[d].wrote
               /\ call[d].created # None =>
                    /\ call[d].created \in Tasks \ tasks'
                    /\ call[d].open = open'[call[d].target]
                    /\ call[d].done = done'[call[d].target]
    <3>1. /\ d # c /\ Running(d)
          /\ call[d].target \in tasks /\ call[d].target \in Tasks
          /\ call[d].created = None => call[d].wrote
      BY <1>2, <2>1 DEF IInv, HoldInv, Shape
    <3>2. ASSUME call[d].created # None
          PROVE  /\ call[d].created \in Tasks \ tasks
                 /\ call[d].open = open[call[d].target]
                 /\ call[d].done = done[call[d].target]
                 /\ call[d].created # new
      BY <1>0, <1>1, <3>1, <3>2 DEF IInv, HoldInv, LockInv
    <3>3. CASE call[d].target # t
      BY <1>1, <3>1, <3>2, <3>3
    <3>4. CASE call[d].target = t /\ call[d].created # None
      <4>1. new # None
        BY <1>0, <1>1, <3>1, <3>4 DEF IInv, LockInv
      <4>2. call[c].open = open[t] /\ call[c].done = done[t]
        BY <1>0, <1>1, <4>1 DEF IInv, HoldInv
      <4> QED
        BY <1>1, <3>1, <3>2, <3>4, <4>2
    <3>5. CASE call[d].target = t /\ call[d].created = None
      BY <1>0, <1>1, <3>1, <3>5 DEF IInv, LockInv
    <3> QED
      BY <3>3, <3>4, <3>5
  <2> QED
    BY <1>2, <2>1 DEF HoldInv
<1>6. LockInv'
  BY <1>2 DEF IInv, LockInv
<1>7. AloneInv'
  <2>1. ASSUME NEW x \in tasks PROVE Above(x)' = Above(x)
    <3>1. x \in Tasks /\ x # new /\ x # None
      BY <1>1, NoneAssumption DEF IInv, Shape
    <3>2. parent'[x] = parent[x]
      BY <1>1, <3>1
    <3>3. ASSUME parent[x] # None PROVE parent'[parent[x]] = parent[parent[x]]
      <4>1. parent[x] \in tasks /\ parent[x] \in Tasks /\ parent[x] # new
        BY <1>1, <3>1, <3>3 DEF IInv, TreeInv, Shape
      <4> QED
        BY <1>1, <4>1
    <3> QED
      BY <3>1, <3>2, <3>3 DEF Above, Up
  <2>2. ASSUME NEW d \in Calls, NEW e \in Calls \ {d}, Running(d)', Running(e)',
               call'[d].alone
        PROVE  (Above(call[d].target) \cap Above(call[e].target))' = {}
    <3>1. call'[d] = call[d] /\ call'[e] = call[e] /\ Running(d) /\ Running(e)
      BY <1>2, <2>2
    <3>2. PICK x, y : x = call[d].target /\ y = call[e].target
      OBVIOUS
    <3>3. x \in tasks /\ y \in tasks
      BY <3>1, <3>2 DEF IInv, HoldInv
    <3>4. Above(x) \cap Above(y) = {}
      BY <2>2, <3>1, <3>2 DEF IInv, AloneInv
    <3>5. Above(x)' \cap Above(y)' = {}
      BY <2>1, <3>3, <3>4
    <3> QED
      BY <3>1, <3>2, <3>5 DEF Above, Up
  <2> QED
    BY <2>2 DEF AloneInv
<1> QED
  BY <1>3, <1>4, <1>5, <1>6, <1>7

LEMMA CommitValues ==
  ASSUME IInv, NEW c \in Calls, Commit(c)
  PROVE  ValueInv' /\ ProgressFollowsRule'
<1> USE DEF Running
<1>0. PICK t, q, new : t = call[c].target /\ q = parent[t] /\ new = call[c].created
  OBVIOUS
<1>1. /\ call[c].step = "parent" /\ Running(c)
      /\ t \in tasks /\ t \in Tasks
      /\ q = None \/ (q \in tasks /\ q \in Tasks /\ q # t /\ parent[q] # t)
      /\ new = None \/ (new \in Tasks /\ new \notin tasks /\ new # t /\ new # q)
      /\ tasks' = tasks \union ({new} \ {None})
      /\ parent' = [u \in Tasks |-> IF u = new THEN t ELSE parent[u]]
      /\ open' = [u \in Tasks |-> IF u = t THEN call[c].open ELSE open[u]]
      /\ done' = [u \in Tasks |-> IF u = t THEN call[c].done ELSE done[u]]
      /\ progress' = [u \in Tasks |-> IF u = t /\ call[c].wrote THEN call[c].own
                                      ELSE IF u = q /\ call[c].differs THEN call[c].up
                                      ELSE progress[u]]
      /\ call' = [d \in Calls |-> IF d = c THEN Idle ELSE call[d]]
      /\ muddled' = ((IF call[c].alone THEN muddled \ {t, q} ELSE muddled \union {t, q})
                        \union {Up(q)}) \ {None}
  BY <1>0, CommitEffect
<1>2. \A d \in Calls : Running(d)' => d # c /\ call'[d] = call[d] /\ Running(d)
  BY <1>1 DEF Idle
<1>3. ASSUME NEW x \in Tasks, x \notin Above(t) PROVE SameTask(x)
  BY <1>0, <1>3, CommitIsLocal
<1>4. tasks \subseteq Tasks /\ \A x \in Tasks : Children(x) \subseteq tasks
  BY DEF IInv, Shape, Children
<1>5. ASSUME NEW x \in Tasks PROVE Children(x) \subseteq Children(x)'
  <2>1. ASSUME NEW u \in Children(x) PROVE u \in tasks' /\ parent'[u] = x
    <3>1. u \in tasks /\ u \in Tasks /\ parent[u] = x /\ u # new
      BY <1>1, <1>4, NoneAssumption DEF Children
    <3> QED
      BY <1>1, <3>1
  <2> QED
    BY <2>1 DEF Children
<1>6. ValueInv'
  <2>1. ASSUME NEW d \in Calls, d # c, call'[d] = call[d], Running(d), call[d].alone
        PROVE  /\ OwnUpToDate(d)'
               /\ call[d].step = "own" => OwnStands(d)'
               /\ call[d].step = "parent" => ParentUpToDate(d)'
    <3>1. PICK x, y, z : x = call[d].target /\ y = parent[x] /\ z = call[d].created
      OBVIOUS
    <3>2. /\ x \in tasks /\ x \in Tasks /\ y \in Tasks \union {None}
          /\ z # None => z \in Tasks \ tasks
      BY <2>1, <3>1 DEF IInv, HoldInv, Shape
    <3>3. x \notin Above(t) /\ y \notin Above(t)
      <4>1. Above(x) \cap Above(t) = {}
        BY <1>0, <1>1, <2>1, <3>1 DEF IInv, AloneInv
      <4>2. x \in Above(x) /\ (y # None => y \in Above(x))
        BY <3>1, <3>2, NoneAssumption DEF Above, Up
      <4> QED
        BY <4>1, <4>2 DEF Above
    <3>4. SameTask(x) /\ (y # None => SameTask(y))
      BY <1>3, <3>2, <3>3
    <3>5. parent'[x] = y
      BY <1>1, <3>1, <3>2, NoneAssumption
    <3>6. z # None => progress'[z] = progress[z]
      BY <1>1, <3>2, NoneAssumption
    <3>7. Children(x)' = Children(x) /\ \A u \in Children(x) : progress'[u] = progress[u]
      BY <3>4 DEF SameTask
    <3>8. OwnUpToDate(d)'
      <4>1. OwnUpToDate(d)
        BY <2>1 DEF IInv, ValueInv
      <4>2. Family(d) = Children(x) \union ({z} \ {None})
        BY <3>1 DEF Family
      <4>3. Family(d)' = Children(x)' \union ({z} \ {None})
        BY <2>1, <3>1 DEF Family, Children
      <4>4. \A u \in Family(d) : progress'[u] = progress[u]
        BY <3>6, <3>7, <4>2
      <4>5. [u \in Family(d)' |-> progress'[u]] = [u \in Family(d) |-> progress[u]]
        BY <3>7, <4>2, <4>3, <4>4
      <4> QED
        BY <2>1, <4>1, <4>5 DEF OwnUpToDate
    <3>9. ASSUME call[d].step = "parent" PROVE ParentUpToDate(d)'
      <4>1. ParentUpToDate(d)
        BY <2>1, <3>9 DEF IInv, ValueInv
      <4>2. ~call[d].wrote => call[d].own = progress'[x]
        BY <3>1, <3>4, <4>1 DEF ParentUpToDate, SameTask
      <4>4. y # None /\ ~call[d].differs => call[d].up = progress'[y]
        BY <3>1, <3>4, <4>1 DEF ParentUpToDate, SameTask
      <4>3. ASSUME y # None
            PROVE  call[d].up = ComputeTaskProgress(open'[y], done'[y],
                     [u \in Children(y)' |-> IF u = x THEN call[d].own ELSE progress'[u]])
        <5>1. call[d].up = ComputeTaskProgress(open[y], done[y],
                [u \in Children(y) |-> IF u = x THEN call[d].own ELSE progress[u]])
          BY <3>1, <4>1, <4>3 DEF ParentUpToDate
        <5>2. [u \in Children(y)' |-> IF u = x THEN call[d].own ELSE progress'[u]]
                = [u \in Children(y) |-> IF u = x THEN call[d].own ELSE progress[u]]
          BY <3>4, <4>3 DEF SameTask
        <5> QED
          BY <3>4, <4>3, <5>1, <5>2 DEF SameTask
      <4> QED
        BY <2>1, <3>1, <3>5, <4>2, <4>3, <4>4 DEF ParentUpToDate, Children
    <3>10. ASSUME call[d].step = "own" PROVE OwnStands(d)'
      <4>1. OwnStands(d)
        BY <2>1, <3>10 DEF IInv, ValueInv
      <4> QED
        BY <2>1, <3>1, <3>4, <4>1 DEF OwnStands, SameTask
    <3> QED
      BY <3>8, <3>9, <3>10
  <2>2. ASSUME NEW d \in Calls, d # c, call'[d] = call[d], Running(d),
               call[d].created = None, Children(call[d].target)' = {}
        PROVE  OwnUpToDate(d)'
    <3>1. PICK x : x = call[d].target
      OBVIOUS
    <3>2. x \in Tasks /\ Children(x)' = {}
      BY <2>2, <3>1 DEF IInv, HoldInv, Shape, Children
    <3>3. Children(x) = {}
      BY <1>5, <3>2
    <3>4. Family(d) = {} /\ Family(d)' = {}
      BY <2>2, <3>1, <3>2, <3>3 DEF Family, Children
    <3>5. OwnUpToDate(d)
      BY <2>2, <3>1, <3>3 DEF IInv, ValueInv
    <3>6. [u \in Family(d)' |-> progress'[u]] = [u \in Family(d) |-> progress[u]]
      BY <3>4
    <3> QED
      BY <2>2, <3>5, <3>6 DEF OwnUpToDate
  <2> QED
    BY <1>2, <2>1, <2>2 DEF ValueInv
<1>7. ASSUME call[c].alone \/ Children(t)' = {}
      PROVE  progress'[t] = call[c].own /\ progress'[t] = Rule(t)'
  <2>1. Children(t)' = {} => new = None /\ Children(t) = {}
    <3>1. new # None => new \in tasks' /\ parent'[new] = t
      BY <1>1
    <3> QED
      BY <1>1, <1>5, <3>1 DEF Children
  <2>2. OwnUpToDate(c)
    BY <1>0, <1>1, <1>7, <2>1 DEF IInv, ValueInv
  <2>3. progress'[t] = call[c].own
    <3>1. CASE call[c].wrote
      BY <1>1, <3>1
    <3>2. CASE ~call[c].wrote
      <4>1. call[c].alone
        BY <1>0, <1>1, <1>7, <2>1, <3>2 DEF IInv, HoldInv
      <4>2. call[c].own = progress[t]
        BY <1>0, <1>1, <3>2, <4>1 DEF IInv, ValueInv, ParentUpToDate
      <4> QED
        BY <1>1, <3>2, <4>2, NoneAssumption
    <3> QED
      BY <3>1, <3>2
  <2>4. Children(t)' = Family(c)
    <3>1. ASSUME NEW u \in Tasks
          PROVE  (u \in tasks' /\ parent'[u] = t)
                   <=> ((u \in tasks /\ parent[u] = t) \/ u \in {new} \ {None})
      BY <1>1, NoneAssumption
    <3>2. tasks' \subseteq Tasks /\ {new} \ {None} \subseteq Tasks
      BY <1>1, <1>4
    <3>3. Family(c) = {u \in tasks : parent[u] = t} \union ({new} \ {None})
      BY <1>0 DEF Family, Children
    <3>4. Children(t)' = {u \in tasks' : parent'[u] = t}
      BY DEF Children
    <3> QED
      BY <1>4, <3>1, <3>2, <3>3, <3>4
  <2>5. ASSUME NEW u \in Family(c) PROVE progress'[u] = progress[u]
    <3>1. CASE u \in Children(t)
      <4>1. u \in tasks /\ u \in Tasks /\ parent[u] = t
        BY <1>4, <3>1, <1>1 DEF Children
      <4>2. u # t
        BY <4>1, <1>1, NoneAssumption DEF IInv, TreeInv
      <4>3. u # q
        BY <4>1, <1>1, NoneAssumption
      <4> QED
        BY <1>1, <4>1, <4>2, <4>3
    <3>2. CASE u = new /\ u # None
      BY <1>1, <3>2
    <3> QED
      BY <1>0, <2>5, <3>1, <3>2 DEF Family
  <2>6. Scores(t)' = [u \in Family(c) |-> progress[u]]
    <3>1. Scores(t)' = [u \in Children(t)' |-> progress'[u]]
      BY DEF Scores
    <3> QED
      BY <2>4, <2>5, <3>1
  <2>7. Rule(t)' = ComputeTaskProgress(open'[t], done'[t], Scores(t)')
    BY DEF Rule
  <2> QED
    BY <1>1, <2>2, <2>3, <2>6, <2>7 DEF OwnUpToDate
<1>8. ASSUME q # None, call[c].alone
      PROVE  progress'[q] = Rule(q)'
  <2>1. call[c].up = ComputeTaskProgress(open[q], done[q],
          [u \in Children(q) |-> IF u = t THEN call[c].own ELSE progress[u]])
    BY <1>0, <1>1, <1>8 DEF IInv, ValueInv, ParentUpToDate
  <2>2. Children(q)' = Children(q)
    <3>1. ASSUME NEW u \in Tasks
          PROVE  (u \in tasks' /\ parent'[u] = q) <=> (u \in tasks /\ parent[u] = q)
      BY <1>1, <1>8, NoneAssumption
    <3>2. tasks' \subseteq Tasks
      BY <1>1, <1>4
    <3>3. Children(q)' = {u \in tasks' : parent'[u] = q}
      BY DEF Children
    <3>4. Children(q) = {u \in tasks : parent[u] = q}
      BY DEF Children
    <3> QED
      BY <1>4, <3>1, <3>2, <3>3, <3>4
  <2>3. ASSUME NEW u \in Children(q)
        PROVE  progress'[u] = IF u = t THEN call[c].own ELSE progress[u]
    <3>1. u \in tasks /\ u \in Tasks /\ parent[u] = q
      BY <1>1, <1>4, <1>8 DEF Children
    <3>2. u # q
      BY <1>8, <3>1 DEF IInv, TreeInv
    <3> QED
      BY <1>1, <1>7, <1>8, <3>1, <3>2
  <2>4. Scores(q)' = [u \in Children(q) |-> IF u = t THEN call[c].own ELSE progress[u]]
    <3>1. Scores(q)' = [u \in Children(q)' |-> progress'[u]]
      BY DEF Scores
    <3> QED
      BY <2>2, <2>3, <3>1
  <2>5. progress'[q] = call[c].up /\ open'[q] = open[q] /\ done'[q] = done[q]
    <3>1. ~call[c].differs => call[c].up = progress[q]
      BY <1>0, <1>1, <1>8 DEF IInv, ValueInv, ParentUpToDate
    <3> QED
      BY <1>1, <1>8, <3>1
  <2>6. Rule(q)' = ComputeTaskProgress(open'[q], done'[q], Scores(q)')
    BY DEF Rule
  <2> QED
    BY <2>1, <2>4, <2>5, <2>6
<1>9. ProgressFollowsRule'
  <2> SUFFICES ASSUME NEW x \in tasks', Children(x)' = {} \/ x \notin muddled'
               PROVE  progress'[x] = Rule(x)'
    BY DEF ProgressFollowsRule
  <2>0. x \in Tasks /\ x # None
    BY <1>1, <1>4, NoneAssumption
  <2>1. CASE x \notin tasks
    <3>1. x = new /\ new # None
      BY <1>1, <2>1
    <3>2. open'[x] = 0 /\ done'[x] = 0 /\ progress'[x] = Null
      BY <1>1, <2>0, <2>1, <3>1 DEF IInv, TreeInv
    <3>3. Children(x)' = {}
      <4>1. ASSUME NEW u \in tasks' PROVE parent'[u] # x
        <5>1. u \in Tasks
          BY <1>1, <1>4
        <5>2. parent[u] # x
          BY <2>0, <2>1, <5>1 DEF IInv, TreeInv
        <5> QED
          BY <1>1, <3>1, <5>1, <5>2
      <4> QED
        BY <4>1 DEF Children
    <3>4. Scores(x)' = [u \in {} |-> progress'[u]]
      BY <3>3 DEF Scores
    <3>5. Rule(x)' = ComputeTaskProgress(0, 0, [u \in {} |-> progress'[u]])
      BY <3>2, <3>4 DEF Rule
    <3> QED
      BY <3>2, <3>5 DEF ComputeTaskProgress
  <2>2. CASE x \in tasks /\ x \notin Above(t)
    <3>1. SameTask(x)
      BY <1>3, <2>0, <2>2
    <3>2. x # t /\ x # q
      <4>1. t # None /\ Up(t) = q
        BY <1>0, <1>1, NoneAssumption DEF Up
      <4>2. t \in Above(t) /\ (q # None => q \in Above(t))
        BY <4>1 DEF Above
      <4> QED
        BY <2>0, <2>2, <4>2
    <3>3. Children(x) = {} \/ x \notin muddled
      BY <1>1, <2>0, <3>1, <3>2 DEF SameTask
    <3>4. progress[x] = Rule(x)
      BY <2>2, <3>3 DEF IInv, ProgressFollowsRule
    <3> QED
      BY <3>1, <3>4, SameTaskRule
  <2>3. CASE x = t
    <3>1. call[c].alone \/ Children(t)' = {}
      BY <1>1, <2>0, <2>3
    <3> QED
      BY <1>7, <2>3, <3>1
  <2>4. CASE x = q /\ x # t
    <3>1. t \in Children(q)'
      <4>1. t \in Children(q)
        BY <1>0, <1>1 DEF Children
      <4> QED
        BY <1>5, <2>0, <2>4, <4>1
    <3>2. x \notin muddled'
      BY <2>4, <3>1
    <3>3. call[c].alone
      BY <1>1, <2>0, <2>4, <3>2
    <3> QED
      BY <1>8, <2>0, <2>4, <3>3
  <2>5. CASE q # None /\ x = parent[q]
    <3>1. q \in Children(x)
      BY <1>1, <2>5 DEF Children
    <3>2. q \in Children(x)'
      BY <1>5, <2>0, <3>1
    <3>3. x \in muddled'
      BY <1>1, <2>0, <2>5 DEF Up
    <3> QED
      BY <3>2, <3>3
  <2> QED
    BY <1>0, <2>1, <2>2, <2>3, <2>4, <2>5 DEF Above, Up
<1> QED
  BY <1>6, <1>9

-----------------------------------------------------------------------------
LEMMA NextIInv == IInv /\ [Next]_vars => IInv'
<1> SUFFICES ASSUME IInv, [Next]_vars PROVE IInv'
  OBVIOUS
<1>1. ASSUME NEW t \in Tasks, CreateTask(t) PROVE IInv'
  BY <1>1, CreateTaskStep
<1>2. ASSUME NEW c \in Calls, NEW t \in Tasks,
             \/ CreateChecklistItem(c, t)
             \/ RemoveChecklistItem(c, t)
             \/ SetChecklistItemCompletion(c, t)
      PROVE  IInv'
  <2>1. \E n, m : Edit(c, t, n, m)
    BY <1>2 DEF CreateChecklistItem, RemoveChecklistItem, SetChecklistItemCompletion
  <2> QED
    BY <2>1, EditStep
<1>3. ASSUME NEW c \in Calls, NEW t \in Tasks, NEW p \in Tasks, CreateSubtask(c, t, p)
      PROVE  IInv'
  BY <1>3, CreateSubtaskStep
<1>4. ASSUME NEW c \in Calls, AggregateParent(c) PROVE IInv'
  BY <1>4, AggregateParentStep
<1>5. ASSUME NEW c \in Calls, Commit(c) PROVE IInv'
  BY <1>5, CommitTasks, CommitValues DEF IInv
<1>6. ASSUME NEW c \in Calls, Abandon(c) PROVE IInv'
  BY <1>6, AbandonStep
<1>7. ASSUME UNCHANGED vars PROVE IInv'
  <2>1. /\ tasks' = tasks /\ parent' = parent /\ open' = open /\ done' = done
        /\ progress' = progress /\ call' = call /\ muddled' = muddled
    BY <1>7 DEF vars
  <2>2. Shape' /\ TreeInv' /\ HoldInv' /\ LockInv'
    BY <2>1 DEF IInv, Shape, Recorded, TreeInv, HoldInv, LockInv, Running
  <2>3. AloneInv'
    BY <2>1 DEF IInv, AloneInv, Above, Up, Running
  <2>4. \A x : Children(x)' = Children(x)
    BY <2>1 DEF Children
  <2>5. ASSUME NEW d \in Calls, Running(d)'
        PROVE  /\ (call[d].alone
                     \/ (call[d].created = None /\ Children(call[d].target) = {}))'
                     => OwnUpToDate(d)'
               /\ (call[d].alone /\ call[d].step = "own")' => OwnStands(d)'
               /\ (call[d].alone /\ call[d].step = "parent")' => ParentUpToDate(d)'
    <3>1. Running(d)
      BY <2>1, <2>5 DEF Running
    <3>2. OwnUpToDate(d)' = OwnUpToDate(d)
      BY <2>1, <2>4 DEF OwnUpToDate, Family
    <3>3. ParentUpToDate(d)' = ParentUpToDate(d)
      BY <2>1, <2>4 DEF ParentUpToDate
    <3>4. OwnStands(d)' = OwnStands(d)
      BY <2>1 DEF OwnStands
    <3> QED
      BY <2>1, <2>4, <3>1, <3>2, <3>3, <3>4 DEF IInv, ValueInv
  <2>6. ValueInv'
    BY <2>5 DEF ValueInv
  <2>7. ProgressFollowsRule'
    BY <2>1 DEF IInv, ProgressFollowsRule, Rule, Scores, Children
  <2> QED
    BY <2>2, <2>3, <2>6, <2>7 DEF IInv
<1> QED
  BY <1>1, <1>2, <1>3, <1>4, <1>5, <1>6, <1>7 DEF Next

\* The progress of a task follows the one rule wherever transactions did not
\* overlap around it, and always without subtasks.
THEOREM ProgressIsDerived == Spec => []ProgressFollowsRule
<1>1. IInv => ProgressFollowsRule
  BY DEF IInv
<1> QED
  BY <1>1, InitIInv, NextIInv, PTL DEF Spec

-----------------------------------------------------------------------------
(* Type correctness: what is computed is a percentage or Null.             *)

TypeInv == TypeOK /\ IsFiniteSet(tasks)

(* A quotient of natural numbers lies between zero and any bound of it.    *)
LEMMA DivBetween ==
  ASSUME NEW a \in Nat, NEW n \in Nat \ {0}, NEW k \in Nat, a < (k + 1) * n
  PROVE  a \div n \in 0..k
<1> DEFINE q == a \div n
<1>1. q \in Int /\ q * n <= a /\ a < (q + 1) * n
  OBVIOUS
<1>2. q >= 0
  <2>1. SUFFICES ASSUME q + 1 <= 0 PROVE FALSE
    BY <1>1
  <2> HIDE DEF q
  <2>2. (q + 1) * n <= 0
    BY <1>1, <2>1
  <2> QED
    BY <1>1, <2>2
<1>3. q <= k
  <2>1. SUFFICES ASSUME q >= k + 1 PROVE FALSE
    BY <1>1
  <2> HIDE DEF q
  <2>2. q * n >= (k + 1) * n
    BY <1>1, <2>1
  <2> QED
    BY <1>1, <2>2
<1> QED
  BY <1>1, <1>2, <1>3

(* Rounding does not take a quotient out of the percentages.               *)
LEMMA RoundedInPercent ==
  ASSUME NEW a \in Nat, NEW n \in Nat \ {0}, a <= n * 100
  PROVE  Rounded(a, n) \in 0..100
<1>1. 2 * a + n \in Nat /\ 2 * n \in Nat \ {0}
  OBVIOUS
<1>2. 2 * a + n < (100 + 1) * (2 * n)
  OBVIOUS
<1>3. (2 * a + n) \div (2 * n) \in 0..100
  BY <1>1, <1>2, DivBetween
<1> QED
  BY <1>3 DEF Rounded

(* The mean of percentages is a percentage.                                *)
LEMMA MeanInRange ==
  ASSUME NEW D, IsFiniteSet(D), D # {}, NEW s \in [D -> 0..100]
  PROVE  Mean(s) \in 0..100
<1>1. DOMAIN s = D /\ \A u \in D : s[u] \in Nat /\ s[u] \in 0..100
  OBVIOUS
<1>2. FoldFunction(+, 0, s) = Sum(s, D)
  BY <1>1, FoldIsSum
<1>3. Sum(s, D) \in Nat
  BY <1>1, SumType
<1>4. Sum(s, D) <= Cardinality(D) * 100
  BY <1>1, SumBounded
<1>5. Cardinality(D) \in Nat \ {0}
  BY FS_CardinalityType, FS_EmptySet
<1>6. Rounded(Sum(s, D), Cardinality(D)) \in 0..100
  BY <1>3, <1>4, <1>5, RoundedInPercent
<1> QED
  BY <1>1, <1>2, <1>6 DEF Mean

(* computeTaskProgress gives a percentage or none, of any checklist and subtasks. *)
LEMMA ComputeInPercent ==
  ASSUME NEW a \in Nat, NEW b \in Nat, NEW D, IsFiniteSet(D), NEW s \in [D -> Percent]
  PROVE  ComputeTaskProgress(a, b, s) \in Percent
<1> DEFINE tracked == {u \in D : s[u] # Null}
<1>1. DOMAIN s = D
  OBVIOUS
<1>2. CASE D # {} /\ tracked = {}
  BY <1>1, <1>2 DEF ComputeTaskProgress, Percent
<1>3. CASE D # {} /\ tracked # {}
  <2>1. IsFiniteSet(tracked)
    BY FS_Subset
  <2>2. Restrict(s, tracked) \in [tracked -> 0..100]
    BY DEF Restrict, Percent
  <2>3. Mean(Restrict(s, tracked)) \in 0..100
    BY <1>3, <2>1, <2>2, MeanInRange
  <2> QED
    BY <1>1, <1>3, <2>3 DEF ComputeTaskProgress, Percent
<1>4. CASE D = {} /\ a + b = 0
  BY <1>1, <1>4 DEF ComputeTaskProgress, Percent
<1>5. CASE D = {} /\ a + b # 0
  <2>1. 100 * b \in Nat /\ a + b \in Nat \ {0} /\ b + a \in Nat \ {0}
        /\ 100 * b <= (b + a) * 100
    BY <1>5
  <2>2. Rounded(100 * b, b + a) \in 0..100
    BY <2>1, RoundedInPercent
  <2>3. 100 * b < (100 + 1) * (b + a)
    BY <1>5
  <2>4. (100 * b) \div (b + a) \in 0..100
    BY <2>1, <2>3, DivBetween
  <2> QED
    BY <1>1, <1>5, <2>1, <2>2, <2>4 DEF ComputeTaskProgress, Ratio, Percent
<1> QED
  BY <1>2, <1>3, <1>4, <1>5

(* The subtasks of a task are finitely many, each with a percentage or none. *)
LEMMA ScoresType ==
  ASSUME TypeInv, NEW t
  PROVE  Scores(t) \in [Children(t) -> Percent] /\ IsFiniteSet(Children(t))
<1>1. Children(t) \in SUBSET tasks
  BY DEF Children
<1>2. IsFiniteSet(Children(t))
  BY <1>1, FS_Subset DEF TypeInv
<1> QED
  BY <1>1, <1>2 DEF Scores, TypeInv, TypeOK

(* A transaction that begins computes well typed values.                   *)
LEMMA BeginType ==
  ASSUME TypeInv, NEW c \in Calls, NEW r \in Transaction, Begin(c, r),
         UNCHANGED <<tasks, parent, open, done, progress, muddled>>
  PROVE  TypeInv'
<1> DEFINE lone == \A d \in Calls \ {c} : ~Related(d, r.target)
<1>1. call' = [d \in Calls |->
        IF d = c THEN [r EXCEPT !.alone = lone]
        ELSE IF Related(d, r.target) THEN [call[d] EXCEPT !.alone = FALSE]
        ELSE call[d]]
  BY DEF Begin
<1>2. lone \in BOOLEAN
  OBVIOUS
<1> HIDE DEF lone
<1>3. [r EXCEPT !.alone = lone] \in Transaction
  BY <1>2 DEF Transaction
<1>4. \A d \in Calls : call[d] \in Transaction /\ [call[d] EXCEPT !.alone = FALSE] \in Transaction
  BY DEF TypeInv, TypeOK, Transaction
<1>5. call' \in [Calls -> Transaction]
  BY <1>1, <1>3, <1>4
<1> QED
  BY <1>5 DEF TypeInv, TypeOK

(* So does one that edits the checklist,                                   *)
LEMMA EditType ==
  ASSUME TypeInv, NEW c \in Calls, NEW t \in Tasks, NEW n \in 0..MaxItems,
         NEW m \in 0..MaxItems, Edit(c, t, n, m)
  PROVE  TypeInv'
<1> DEFINE own == ComputeTaskProgress(n, m, Scores(t))
<1>1. n \in Nat /\ m \in Nat
  BY MaxItemsAssumption
<1>2. own \in Percent
  BY <1>1, ScoresType, ComputeInPercent
<1>3. /\ Begin(c, Starting(t, None, n, m, own))
      /\ UNCHANGED <<tasks, parent, open, done, progress, muddled>>
  BY DEF Edit
<1> HIDE DEF own
<1>4. Starting(t, None, n, m, own) \in Transaction
  BY <1>2 DEF Starting, Transaction, Percent
<1> QED
  BY <1>3, <1>4, BeginType

(* and one that inserts a subtask.                                         *)
LEMMA CreateSubtaskType ==
  ASSUME TypeInv, NEW c \in Calls, NEW t \in Tasks, NEW p \in Tasks, CreateSubtask(c, t, p)
  PROVE  TypeInv'
<1> DEFINE scores == [u \in Children(p) \union {t} |-> progress[u]]
           own == ComputeTaskProgress(open[p], done[p], scores)
<1>1. /\ open[p] \in 0..MaxItems /\ done[p] \in 0..MaxItems
      /\ open[p] \in Nat /\ done[p] \in Nat
  BY MaxItemsAssumption DEF TypeInv, TypeOK
<1>2. IsFiniteSet(Children(p) \union {t})
  BY ScoresType, FS_AddElement
<1>3. scores \in [Children(p) \union {t} -> Percent]
  BY DEF TypeInv, TypeOK, Children
<1>4. own \in Percent
  <2> HIDE DEF scores
  <2> QED
    BY <1>1, <1>2, <1>3, ComputeInPercent
<1>5. /\ Begin(c, Starting(p, t, open[p], done[p], own))
      /\ UNCHANGED <<tasks, parent, open, done, progress, muddled>>
  BY DEF CreateSubtask
<1> HIDE DEF own
<1>6. Starting(p, t, open[p], done[p], own) \in Transaction
  BY <1>1, <1>4 DEF Starting, Transaction, Percent
<1> QED
  BY <1>5, <1>6, BeginType

(* The parent's progress is computed from the own one and the siblings'.   *)
LEMMA AggregateParentType ==
  ASSUME IInv, TypeInv, NEW c \in Calls, AggregateParent(c)
  PROVE  TypeInv'
<1> DEFINE t == call[c].target
           q == parent[t]
           writes == call[c].wrote \/ call[c].differs
           up == IF q = None THEN Null
                 ELSE ComputeTaskProgress(open[q], done[q],
                                          [Scores(q) EXCEPT ![t] = call[c].own])
           differs == q # None /\ up # progress[q]
<1>1. /\ call[c].step = "own"
      /\ call' = [call EXCEPT ![c] = [@ EXCEPT !.step = "parent", !.wrote = writes, !.up = up,
                                     !.differs = differs]]
      /\ UNCHANGED <<tasks, parent, open, done, progress, muddled>>
  BY DEF AggregateParent
<1>2. call[c] \in Transaction
  BY DEF TypeInv, TypeOK
<1>3. call[c].own \in Percent /\ t \in Tasks /\ q \in Tasks \union {None}
  BY <1>1, <1>2 DEF IInv, HoldInv, Running, Shape, Transaction
<1>4. up \in Percent
  <2>1. CASE q = None
    BY <2>1 DEF Percent
  <2>2. CASE q # None
    <3>1. open[q] \in Nat /\ done[q] \in Nat
      BY <1>3, <2>2, MaxItemsAssumption DEF TypeInv, TypeOK
    <3>2. Scores(q) \in [Children(q) -> Percent] /\ IsFiniteSet(Children(q))
      BY ScoresType
    <3>3. [Scores(q) EXCEPT ![t] = call[c].own] \in [Children(q) -> Percent]
      BY <1>3, <3>2
    <3>4. ComputeTaskProgress(open[q], done[q], [Scores(q) EXCEPT ![t] = call[c].own])
            \in Percent
      BY <3>1, <3>2, <3>3, ComputeInPercent
    <3> QED
      BY <2>2, <3>4
  <2> QED
    BY <2>1, <2>2
<1>5. writes \in BOOLEAN /\ differs \in BOOLEAN
  BY <1>2 DEF Transaction
<1> HIDE DEF writes, up, differs
<1>6. [call[c] EXCEPT !.step = "parent", !.wrote = writes, !.up = up,
                                     !.differs = differs] \in Transaction
  BY <1>2, <1>4, <1>5 DEF Transaction
<1>7. call' \in [Calls -> Transaction]
  BY <1>1, <1>6 DEF TypeInv, TypeOK
<1> QED
  BY <1>1, <1>7 DEF TypeInv, TypeOK

(* What an idle call holds is well typed.                                  *)
LEMMA IdleType == Idle \in Transaction
BY MaxItemsAssumption DEF Idle, Transaction, Percent

(* What is committed is what was computed.                                 *)
LEMMA CommitType ==
  ASSUME IInv, TypeInv, NEW c \in Calls, Commit(c)
  PROVE  TypeInv'
<1>0. PICK t, q, new : t = call[c].target /\ q = parent[t] /\ new = call[c].created
  OBVIOUS
<1>1. /\ t \in tasks /\ t \in Tasks
      /\ q = None \/ q \in Tasks
      /\ new = None \/ new \in Tasks
      /\ tasks' = tasks \union ({new} \ {None})
      /\ parent' = [u \in Tasks |-> IF u = new THEN t ELSE parent[u]]
      /\ open' = [u \in Tasks |-> IF u = t THEN call[c].open ELSE open[u]]
      /\ done' = [u \in Tasks |-> IF u = t THEN call[c].done ELSE done[u]]
      /\ progress' = [u \in Tasks |-> IF u = t /\ call[c].wrote THEN call[c].own
                                      ELSE IF u = q /\ call[c].differs THEN call[c].up
                                      ELSE progress[u]]
      /\ call' = [d \in Calls |-> IF d = c THEN Idle ELSE call[d]]
      /\ muddled' = ((IF call[c].alone THEN muddled \ {t, q} ELSE muddled \union {t, q})
                        \union {Up(q)}) \ {None}
  BY <1>0, CommitEffect
<1>2. /\ call[c].open \in 0..MaxItems /\ call[c].done \in 0..MaxItems
      /\ call[c].own \in Percent /\ call[c].up \in Percent
  BY DEF TypeInv, TypeOK, Transaction
<1>3. tasks' \subseteq Tasks /\ parent' \in [Tasks -> Tasks \union {None}]
  BY <1>1 DEF TypeInv, TypeOK
<1>4. /\ open' \in [Tasks -> 0..MaxItems] /\ done' \in [Tasks -> 0..MaxItems]
      /\ progress' \in [Tasks -> Percent]
  BY <1>1, <1>2 DEF TypeInv, TypeOK
<1>5. call' \in [Calls -> Transaction]
  BY <1>1, IdleType DEF TypeInv, TypeOK
<1>6. muddled' \subseteq Tasks
  <2>1. Up(q) = None \/ Up(q) \in Tasks
    BY <1>1 DEF Up, TypeInv, TypeOK
  <2> QED
    BY <1>1, <2>1 DEF TypeInv, TypeOK
<1>7. IsFiniteSet(tasks')
  <2>1. CASE new = None
    BY <1>1, <2>1 DEF TypeInv
  <2>2. CASE new # None
    <3>1. tasks' = tasks \union {new}
      BY <1>1, <2>2
    <3> QED
      BY <3>1, FS_AddElement DEF TypeInv
  <2> QED
    BY <2>1, <2>2
<1> QED
  BY <1>3, <1>4, <1>5, <1>6, <1>7 DEF TypeInv, TypeOK

(* Every step keeps the types.                                             *)
LEMMA TypeStep == IInv /\ TypeInv /\ [Next]_vars => TypeInv'
<1> SUFFICES ASSUME IInv, TypeInv, [Next]_vars PROVE TypeInv'
  OBVIOUS
<1>1. ASSUME NEW t \in Tasks, CreateTask(t) PROVE TypeInv'
  <2>1. IsFiniteSet(tasks \union {t})
    BY FS_AddElement DEF TypeInv
  <2> QED
    BY <1>1, <2>1 DEF CreateTask, TypeInv, TypeOK
<1>2. ASSUME NEW c \in Calls, NEW t \in Tasks,
             \/ CreateChecklistItem(c, t)
             \/ RemoveChecklistItem(c, t)
             \/ SetChecklistItemCompletion(c, t)
      PROVE  TypeInv'
  <2>1. \E n \in 0..MaxItems, m \in 0..MaxItems : Edit(c, t, n, m)
    <3>1. open[t] \in 0..MaxItems /\ done[t] \in 0..MaxItems
      BY DEF TypeInv, TypeOK
    <3>2. CASE CreateChecklistItem(c, t)
      BY <3>1, <3>2, MaxItemsAssumption DEF CreateChecklistItem
    <3>3. CASE RemoveChecklistItem(c, t)
      BY <3>1, <3>3, MaxItemsAssumption DEF RemoveChecklistItem
    <3>4. CASE SetChecklistItemCompletion(c, t)
      BY <3>1, <3>4, MaxItemsAssumption DEF SetChecklistItemCompletion
    <3> QED
      BY <1>2, <3>2, <3>3, <3>4
  <2> QED
    BY <2>1, EditType
<1>3. ASSUME NEW c \in Calls, NEW t \in Tasks, NEW p \in Tasks, CreateSubtask(c, t, p)
      PROVE  TypeInv'
  BY <1>3, CreateSubtaskType
<1>4. ASSUME NEW c \in Calls, AggregateParent(c) PROVE TypeInv'
  BY <1>4, AggregateParentType
<1>5. ASSUME NEW c \in Calls, Commit(c) PROVE TypeInv'
  BY <1>5, CommitType
<1>6. ASSUME NEW c \in Calls, Abandon(c) PROVE TypeInv'
  BY <1>6, IdleType DEF Abandon, TypeInv, TypeOK
<1>7. ASSUME UNCHANGED vars PROVE TypeInv'
  BY <1>7 DEF vars, TypeInv, TypeOK
<1> QED
  BY <1>1, <1>2, <1>3, <1>4, <1>5, <1>6, <1>7 DEF Next

(* Init establishes the types.                                             *)
LEMMA InitTypeInv == Init => TypeInv
<1> SUFFICES ASSUME Init PROVE TypeInv
  OBVIOUS
<1>1. IsFiniteSet(tasks)
  BY FS_EmptySet DEF Init
<1>2. TypeOK
  BY IdleType, MaxItemsAssumption DEF Init, TypeOK, Percent
<1> QED
  BY <1>1, <1>2 DEF TypeInv

\* Whatever is computed from checklists and from subtasks, the progress of a task is
\* a whole percentage or none at all.
THEOREM ProgressTypeCorrect == Spec => []TypeOK
<1>1. TypeInv => TypeOK
  BY DEF TypeInv
<1> QED
  BY <1>1, InitIInv, NextIInv, InitTypeInv, TypeStep, PTL DEF Spec

-----------------------------------------------------------------------------
(* Someone proceeds: rows are locked from a task upwards, and a way        *)
(* upwards ends.                                                           *)

(* The subtasks of a task are further down than it is.                     *)
Ranks(rank) == \A t \in Tasks : parent[t] # None => rank[parent[t]] < rank[t]

ForestInv == \E rank \in [Tasks -> Nat] : Ranks(rank)

(* A transaction that inserts a subtask has not written the parent's row   *)
(* before it aggregates.                                                   *)
InsertsFirst ==
  \A c \in Calls : call[c].step = "own" /\ call[c].created # None => ~call[c].wrote

UpwardInv == ForestInv /\ InsertsFirst

(* A set of ranks has a least one.                                         *)
LEMMA LeastNatural ==
  ASSUME NEW S, S \subseteq Nat, S # {}
  PROVE  \E n \in S : \A m \in S : n <= m
<1> DEFINE R == {ss \in Nat \X Nat : ss[1] < ss[2]}
<1>1. IsWellFoundedOn(R, Nat)
  BY NatLessThanWellFounded DEF OpToRel
<1>2. \E n \in S : \A m \in S : ~ (<<m, n>> \in R)
  <2> HIDE DEF R
  <2> QED
    BY <1>1, WFMin
<1>3. PICK n \in S : \A m \in S : ~ (<<m, n>> \in R)
  BY <1>2
<1>4. ASSUME NEW m \in S PROVE n <= m
  <2>1. m \in Nat /\ n \in Nat /\ ~ (m < n)
    BY <1>3
  <2> QED
    BY <2>1
<1> QED
  BY <1>4

(* The transaction furthest up does not wait for its parent's row; if it   *)
(* waits for the row of its own task, one that has written it does not.    *)
LEMMA HighestProceeds ==
  ASSUME IInv, TypeInv, UpwardInv
  PROVE  SomeoneProceeds
<1> DEFINE Target(c) == call[c].target
           Proceeds(c) ==
             LET t == call[c].target
             IN  \/ /\ call[c].step = "own"
                    /\ call[c].wrote \/ call[c].differs => FreeToWrite(c, t)
                 \/ /\ call[c].step = "parent"
                    /\ parent[t] # None /\ call[c].differs
                         => FreeToWrite(c, parent[t])
<1> SUFFICES ASSUME NEW b \in Calls, Running(b)
             PROVE  \E c \in Calls : Proceeds(c)
  BY DEF SomeoneProceeds
<1>1. PICK rank \in [Tasks -> Nat] : Ranks(rank)
  BY DEF UpwardInv, ForestInv
<1>2. \A c \in Calls : Running(c) => Target(c) \in Tasks /\ rank[Target(c)] \in Nat
  BY <1>1 DEF IInv, HoldInv, Shape
<1>3. \E c \in Calls : /\ Running(c)
                       /\ \A d \in Calls : Running(d) => rank[Target(c)] <= rank[Target(d)]
  <2> DEFINE S == {rank[Target(c)] : c \in {d \in Calls : Running(d)}}
  <2>1. S \subseteq Nat /\ S # {}
    BY <1>2
  <2>2. \E n \in S : \A m \in S : n <= m
    <3> HIDE DEF S
    <3> QED
      BY <2>1, LeastNatural
  <2>3. PICK n \in S : \A m \in S : n <= m
    BY <2>2
  <2>4. PICK c \in Calls : Running(c) /\ n = rank[Target(c)]
    BY <2>3
  <2> QED
    BY <2>3, <2>4
<1>4. PICK c \in Calls : /\ Running(c)
                         /\ \A d \in Calls : Running(d) => rank[Target(c)] <= rank[Target(d)]
  BY <1>3
<1>5. ASSUME NEW e \in Calls, Running(e), Target(e) = Target(c), call[e].step = "parent"
      PROVE  Proceeds(e)
  <2>1. SUFFICES ASSUME parent[Target(e)] # None
                 PROVE  FreeToWrite(e, parent[Target(e)])
    BY <1>5
  <2>2. Target(c) \in Tasks /\ rank[Target(c)] \in Nat
    BY <1>2, <1>4
  <2>3. rank[parent[Target(c)]] < rank[Target(c)]
    BY <1>1, <1>5, <2>1, <2>2 DEF Ranks
  <2>4. parent[Target(c)] \in Tasks /\ rank[parent[Target(c)]] \in Nat
    BY <1>1, <1>5, <2>1, <2>2 DEF IInv, Shape
  <2>5. \A d \in Calls : Running(d) => Target(d) # parent[Target(c)]
    <3>1. ASSUME NEW d \in Calls, Running(d), Target(d) = parent[Target(c)] PROVE FALSE
      <4>1. rank[Target(c)] <= rank[Target(d)]
        BY <1>4, <3>1
      <4> HIDE DEF Target
      <4> QED
        BY <2>2, <2>3, <2>4, <3>1, <4>1
    <3> QED
      BY <3>1
  <2> QED
    BY <1>5, <2>5 DEF FreeToWrite, ForUpdate, Written
<1>6. call[c].step \in {"own", "parent"}
  BY <1>4 DEF Running, TypeInv, TypeOK, Transaction
<1>7. CASE call[c].step = "parent"
  BY <1>4, <1>5, <1>7
<1>8. CASE call[c].step = "own" /\ FreeToWrite(c, Target(c))
  BY <1>8
<1>9. CASE call[c].step = "own" /\ ~FreeToWrite(c, Target(c))
  <2>1. PICK d \in Calls \ {c} : ForUpdate(d, Target(c)) \/ Written(d, Target(c))
    BY <1>9 DEF FreeToWrite
  <2>2. d \in Calls /\ c \in Calls \ {d} /\ Running(d) /\ Target(d) = Target(c)
    BY <2>1 DEF ForUpdate, Written
  <2>3. call[d].created # None
    BY <1>4, <2>2 DEF IInv, LockInv
  <2>4. call[d].wrote
    BY <2>1, <2>3 DEF ForUpdate, Written
  <2>5. call[d].step = "parent"
    BY <2>2, <2>3, <2>4 DEF UpwardInv, InsertsFirst, Running, TypeInv, TypeOK, Transaction
  <2> QED
    BY <1>5, <2>2, <2>5
<1> QED
  BY <1>6, <1>7, <1>8, <1>9

(* Only a commit adds to the forest, and it adds a leaf.                   *)
LEMMA ForestStep == IInv /\ ForestInv /\ [Next]_vars => ForestInv'
<1> SUFFICES ASSUME IInv, ForestInv, [Next]_vars PROVE ForestInv'
  OBVIOUS
<1>1. CASE UNCHANGED parent
  BY <1>1 DEF ForestInv, Ranks
<1>2. ASSUME NEW c \in Calls, Commit(c) PROVE ForestInv'
  <2>0. PICK t, q, new : t = call[c].target /\ q = parent[t] /\ new = call[c].created
    OBVIOUS
  <2>1. /\ t \in tasks /\ t \in Tasks
        /\ new = None \/ (new \in Tasks /\ new \notin tasks /\ new # t /\ new # q)
        /\ parent' = [u \in Tasks |-> IF u = new THEN t ELSE parent[u]]
    BY <1>2, <2>0, CommitEffect
  <2>2. PICK rank \in [Tasks -> Nat] : Ranks(rank)
    BY DEF ForestInv
  <2> DEFINE deeper == [u \in Tasks |-> IF u = new THEN rank[t] + 1 ELSE rank[u]]
  <2>3. deeper \in [Tasks -> Nat]
    BY <2>1, <2>2
  <2>4. ASSUME NEW u \in Tasks, parent'[u] # None
        PROVE  deeper[parent'[u]] < deeper[u]
    <3>1. CASE u = new
      <4>1. parent'[u] = t /\ deeper[t] = rank[t] /\ deeper[u] = rank[t] + 1
        BY <2>1, <3>1, NoneAssumption
      <4>2. rank[t] \in Nat
        BY <2>1, <2>2
      <4> HIDE DEF deeper
      <4> QED
        BY <4>1, <4>2
    <3>2. CASE u # new
      <4>1. parent'[u] = parent[u] /\ parent[u] \in tasks /\ parent[u] \in Tasks
        BY <2>1, <2>4, <3>2 DEF IInv, TreeInv, Shape
      <4>2. parent[u] # new
        BY <2>1, <4>1, NoneAssumption
      <4> QED
        BY <2>2, <2>4, <3>2, <4>1, <4>2 DEF Ranks
    <3> QED
      BY <3>1, <3>2
  <2> HIDE DEF deeper
  <2>5. Ranks(deeper)'
    BY <2>4 DEF Ranks
  <2> QED
    BY <2>3, <2>5 DEF ForestInv
<1> QED
  BY <1>1, <1>2
     DEF Next, vars, CreateTask, CreateChecklistItem, RemoveChecklistItem,
         SetChecklistItemCompletion, Edit, CreateSubtask, AggregateParent, Abandon

(* A transaction begins with the insert and writes when it aggregates.     *)
LEMMA InsertsFirstStep == IInv /\ InsertsFirst /\ [Next]_vars => InsertsFirst'
<1> SUFFICES ASSUME IInv, InsertsFirst, [Next]_vars PROVE InsertsFirst'
  OBVIOUS
<1>1. ASSUME NEW c \in Calls, NEW r, Begin(c, r), Recorded(r),
             r.created # None => ~r.wrote
      PROVE  InsertsFirst'
  <2>1. /\ call'[c].created = r.created /\ call'[c].wrote = r.wrote
        /\ \A d \in Calls \ {c} :
             /\ call'[d].step = call[d].step
             /\ call'[d].created = call[d].created
             /\ call'[d].differs = call[d].differs /\ call'[d].wrote = call[d].wrote
    <3>1. Shape /\ Recorded(r) /\ Begin(c, r)
      BY <1>1 DEF IInv
    <3>2. /\ call' = [d \in Calls |-> call'[d]]
          /\ Recorded(call'[c])
          /\ call'[c].step = r.step /\ call'[c].target = r.target
          /\ call'[c].created = r.created
          /\ call'[c].open = r.open /\ call'[c].done = r.done
          /\ call'[c].own = r.own /\ call'[c].up = r.up
          /\ call'[c].differs = r.differs /\ call'[c].wrote = r.wrote
          /\ call'[c].alone = \A d \in Calls \ {c} : ~Related(d, r.target)
          /\ \A d \in Calls \ {c} :
               /\ Recorded(call'[d])
               /\ call'[d].step = call[d].step /\ call'[d].target = call[d].target
               /\ call'[d].created = call[d].created
               /\ call'[d].open = call[d].open /\ call'[d].done = call[d].done
               /\ call'[d].own = call[d].own /\ call'[d].up = call[d].up
               /\ call'[d].differs = call[d].differs /\ call'[d].wrote = call[d].wrote
               /\ call'[d].alone \in BOOLEAN
               /\ call'[d].alone => call[d].alone /\ ~Related(d, r.target)
      BY <3>1, BeginFields
    <3> QED
      BY <3>2
  <2> QED
    BY <1>1, <2>1 DEF InsertsFirst
<1>2. ASSUME NEW c \in Calls, NEW t \in Tasks, NEW n, NEW m, Edit(c, t, n, m)
      PROVE  InsertsFirst'
  <2> DEFINE r == Starting(t, None, n, m, ComputeTaskProgress(n, m, Scores(t)))
  <2>1. Begin(c, r)
    BY <1>2 DEF Edit
  <2>2. Recorded(r) /\ r.created = None
    BY DEF Recorded, Starting
  <2> HIDE DEF r
  <2> QED
    BY <1>1, <2>1, <2>2
<1>3. ASSUME NEW c \in Calls, NEW t \in Tasks, NEW p \in Tasks, CreateSubtask(c, t, p)
      PROVE  InsertsFirst'
  <2> DEFINE own == ComputeTaskProgress(open[p], done[p],
                                        [u \in Children(p) \union {t} |-> progress[u]])
             r == Starting(p, t, open[p], done[p], own)
  <2>1. Begin(c, r)
    BY <1>3 DEF CreateSubtask
  <2> HIDE DEF own
  <2>2. Recorded(r) /\ ~r.wrote
    BY NoneAssumption DEF Recorded, Starting
  <2> HIDE DEF r
  <2> QED
    BY <1>1, <2>1, <2>2
<1>4. ASSUME NEW c \in Calls, AggregateParent(c) PROVE InsertsFirst'
  <2>1. \E writes, up, differs :
          call' = [call EXCEPT ![c] = [@ EXCEPT !.step = "parent", !.wrote = writes, !.up = up,
                                     !.differs = differs]]
    BY <1>4, Zenon DEF AggregateParent
  <2>2. call = [d \in Calls |-> call[d]] /\ Recorded(call[c])
    BY DEF IInv, Shape
  <2>3. /\ \A d \in Calls \ {c} : call'[d] = call[d]
        /\ call'[c].step = "parent"
    BY <2>1, <2>2 DEF Recorded
  <2> QED
    BY <2>3 DEF InsertsFirst
<1>5. ASSUME NEW c \in Calls, call' = [call EXCEPT ![c] = Idle] PROVE InsertsFirst'
  BY <1>5 DEF InsertsFirst, Idle, IInv, Shape
<1>6. CASE UNCHANGED call
  BY <1>6 DEF InsertsFirst
<1> QED
  BY <1>2, <1>3, <1>4, <1>5, <1>6
     DEF Next, vars, CreateTask, CreateChecklistItem, RemoveChecklistItem,
         SetChecklistItemCompletion, Commit, Abandon

\* However many transactions wait for each other's rows, and however deep the tree of
\* tasks is, one of them can go on.
THEOREM ProgressSomeoneProceeds == Spec => []SomeoneProceeds
<1>1. Init => UpwardInv
  <2> SUFFICES ASSUME Init PROVE UpwardInv
    OBVIOUS
  <2>1. [t \in Tasks |-> 0] \in [Tasks -> Nat] /\ Ranks([t \in Tasks |-> 0])
    BY DEF Init, Ranks
  <2>2. ForestInv
    BY <2>1 DEF ForestInv
  <2> QED
    BY <2>2 DEF Init, UpwardInv, InsertsFirst, Idle
<1>2. IInv /\ UpwardInv /\ [Next]_vars => UpwardInv'
  BY ForestStep, InsertsFirstStep DEF UpwardInv
<1>3. IInv /\ TypeInv /\ UpwardInv => SomeoneProceeds
  BY HighestProceeds
<1> QED
  BY <1>1, <1>2, <1>3, InitIInv, NextIInv, InitTypeInv, TypeStep, PTL DEF Spec
=============================================================================
