------------------------- MODULE NotificationPromise -------------------------
(***************************************************************************)
(* What the outbox and its notifications consumer promise together, with   *)
(* no batch, lease, attempt or crash in sight, only the set of deliveries  *)
(* somebody is working on.  PromiseSpec is the safety half:                *)
(*                                                                         *)
(*   - only a delivery without an outcome is taken up;                     *)
(*   - notifications come from work, and are never withdrawn;              *)
(*   - at most one frame announces a notification, at the moment it comes  *)
(*     into being and never later;                                         *)
(*   - a success is recorded only by somebody at work on the delivery, and *)
(*     once everyone it is owed to has been notified;                      *)
(*   - an outcome is final when nobody works on the delivery any more.     *)
(*     Until then a second worker may overwrite the first one's outcome.   *)
(*                                                                         *)
(* PromiseSettles is the liveness half.  NotificationRelay implements the  *)
(* first, and under its fairness the second.                               *)
(***************************************************************************)
EXTENDS Naturals

CONSTANTS Deliveries,   \* outbox deliveries of the notifications consumer
          Users         \* possible recipients

VARIABLES outcome,      \* [Deliveries -> Outcomes]
          owed,         \* [Deliveries -> SUBSET Users]: those it must reach
          notified,     \* pairs <<delivery, user>> that have a notification
          told,         \* [Deliveries \X Users -> Nat]: frames sent about it
          working       \* SUBSET Deliveries: those somebody works on

promiseVars == <<outcome, owed, notified, told, working>>

Outcomes == {"ABSENT", "PENDING", "SUCCEEDED", "FAILED"}

NotifiedOf(d) == {u \in Users : <<d, u>> \in notified}

PromiseInit ==
  /\ outcome = [d \in Deliveries |-> "ABSENT"]
  /\ owed = [d \in Deliveries |-> {}]
  /\ notified = {}
  /\ told = [n \in Deliveries \X Users |-> 0]
  /\ working = {}

\* A producer commits a domain change together with its delivery.
Promise(d, us) ==
  /\ outcome[d] = "ABSENT"
  /\ outcome' = [outcome EXCEPT ![d] = "PENDING"]
  /\ owed' = [owed EXCEPT ![d] = us]
  /\ UNCHANGED <<notified, told, working>>

\* Recipients stop being owed a notification.
Release ==
  /\ owed' \in [Deliveries -> SUBSET Users]
  /\ \A d \in Deliveries : owed'[d] \subseteq owed[d]
  /\ UNCHANGED <<outcome, notified, told, working>>

\* Open deliveries are taken up, others given up for want of attempts.
TakeUp(taken, givenUp) ==
  /\ \A d \in taken \cup givenUp : outcome[d] = "PENDING"
  /\ outcome' = [d \in Deliveries |->
                   IF d \in givenUp THEN "FAILED" ELSE outcome[d]]
  /\ working' = working \cup taken
  /\ UNCHANGED <<owed, notified, told>>

\* One more recipient has a notification, announced or not.
Notify(d, u) ==
  /\ d \in working
  /\ <<d, u>> \notin notified
  /\ notified' = notified \cup {<<d, u>>}
  /\ told' \in {told, [told EXCEPT ![<<d, u>>] = 1]}
  /\ UNCHANGED <<outcome, owed, working>>

\* A worker leaves d, or another one is still at it.
MayLeave(d) == working' \in {working, working \ {d}}

Succeed(d) ==
  /\ d \in working
  /\ owed[d] \subseteq NotifiedOf(d)
  /\ outcome' = [outcome EXCEPT ![d] = "SUCCEEDED"]
  /\ MayLeave(d)
  /\ UNCHANGED <<owed, notified, told>>

GiveUp(d) ==
  /\ d \in working
  /\ outcome' = [outcome EXCEPT ![d] = "FAILED"]
  /\ MayLeave(d)
  /\ UNCHANGED <<owed, notified, told>>

\* Work ends without an outcome.
Drop ==
  /\ working' \in SUBSET working
  /\ UNCHANGED <<outcome, owed, notified, told>>

PromiseNext ==
  \/ \E d \in Deliveries, us \in SUBSET Users : Promise(d, us)
  \/ Release
  \/ \E taken, givenUp \in SUBSET Deliveries : TakeUp(taken, givenUp)
  \/ \E d \in Deliveries, u \in Users : Notify(d, u)
  \/ \E d \in Deliveries : Succeed(d)
  \/ \E d \in Deliveries : GiveUp(d)
  \/ Drop

PromiseSpec == PromiseInit /\ [][PromiseNext]_promiseVars

PromiseSettles ==
  \A d \in Deliveries :
    outcome[d] = "PENDING" ~> outcome[d] \in {"SUCCEEDED", "FAILED"}

=============================================================================
