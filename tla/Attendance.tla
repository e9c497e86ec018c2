----------------------------- MODULE Attendance -----------------------------
(***************************************************************************)
(* The attendance sessions of one employee, who punches at a kiosk and on  *)
(* a phone (apps/api/src/attendance).  Both reach the two transactions of  *)
(* attendance.repository.ts, checkIn and checkOut; clients retry a punch   *)
(* with its clientRequestId, at any later time.                            *)
(*                                                                         *)
(* Punches are unique per type and request, so a check-in punch, and the   *)
(* session inserted with it, is known by its request.  A check-out reads   *)
(* at READ COMMITTED without locks: its two reads and its writes are a     *)
(* step each.  Its minutes depend on when it punched and on the shift,     *)
(* which may be rescheduled meanwhile, and are any.                        *)
(***************************************************************************)
EXTENDS Integers

CONSTANTS
  Requests,      \* client request ids
  Calls,         \* check-outs and decisions in progress at once
  MaxOvertime,   \* bound: minutes of potential overtime
  None

ASSUME NoneAssumption == None \notin Requests
ASSUME MaxOvertimeAssumption == MaxOvertime \in Nat

VARIABLES
  status,      \* of the session each check-in opened: "none", "OPEN" or "CLOSED"
  checkOut,    \* its check-out punch
  punched,     \* requests with a CHECK_OUT punch
  potential,   \* potentialOvertimeMinutes of a session
  approval,    \* status of its overtime approval, "none" without a row
  requested,   \* potentialMinutes of the approval
  call,        \* calls in progress
  closedBy     \* history: the check-outs that closed a session

vars == <<status, checkOut, punched, potential, approval, requested, call, closedBy>>

Decisions == {"APPROVED", "REJECTED"}

CallRecord ==
  [step : {"idle", "find", "close", "decide"},
   request : Requests \union {None},
   session : Requests \union {None}]   \* the session it read

Idle == [step |-> "idle", request |-> None, session |-> None]

Init ==
  /\ status = [r \in Requests |-> "none"]
  /\ checkOut = [r \in Requests |-> None]
  /\ punched = {}
  /\ potential = [r \in Requests |-> 0]
  /\ approval = [r \in Requests |-> "none"]
  /\ requested = [r \in Requests |-> 0]
  /\ call = [c \in Calls |-> Idle]
  /\ closedBy = [r \in Requests |-> {}]

Open == {s \in Requests : status[s] = "OPEN"}

(* computeScheduleDeltas, never below zero.                                *)
\* Mutant: without Math.max.
OvertimeSigned == (-1)..MaxOvertime

Overtime == 0..MaxOvertime

-----------------------------------------------------------------------------
(* checkIn: the punch and the session, or nothing, if the punch is there   *)
(* (a retry, answered with its session) or a session is open.              *)
CheckIn(r) ==
  /\ status[r] = "none"
  /\ Open = {}
  /\ status' = [status EXCEPT ![r] = "OPEN"]
  /\ UNCHANGED <<checkOut, punched, potential, approval, requested, call, closedBy>>

-----------------------------------------------------------------------------
(* checkOut.                                                               *)

(* A retry is answered with the session that its punch closed, as long as  *)
(* the session says so.                                                    *)
AlreadyClosed(r) == r \in punched /\ \E s \in Requests : checkOut[s] = r

FindPunch(c, r) ==
  /\ call[c] = Idle
  /\ ~AlreadyClosed(r)
  /\ call' = [call EXCEPT ![c] = [step |-> "find", request |-> r, session |-> None]]
  /\ UNCHANGED <<status, checkOut, punched, potential, approval, requested, closedBy>>

FindOpenSession(c, s) ==
  /\ call[c].step = "find"
  /\ s \in Open
  /\ call' = [call EXCEPT ![c] = [step |-> "close", request |-> call[c].request,
                                   session |-> s]]
  /\ UNCHANGED <<status, checkOut, punched, potential, approval, requested, closedBy>>

(* The unique index on punches.                                            *)
\* Mutant: an insert that tolerates its conflict.
UnpunchedOrNot(r) == TRUE

Unpunched(r) == r \notin punched

(* The unique index on approvals: one per session.                         *)
\* Mutant: an insert that tolerates its conflict.
OvertimeInsertsOrNot(s, minutes) == TRUE

OvertimeInserts(s, minutes) == minutes > 0 => approval[s] = "none"

(* The punch, the update of the session by its id and the approval commit  *)
(* together.                                                               *)
CloseSession(c, minutes) ==
  LET r == call[c].request
      s == call[c].session
  IN  /\ call[c].step = "close"
      /\ Unpunched(r)
      /\ OvertimeInserts(s, minutes)
      /\ punched' = punched \union {r}
      /\ status' = [status EXCEPT ![s] = "CLOSED"]
      /\ checkOut' = [checkOut EXCEPT ![s] = r]
      /\ potential' = [potential EXCEPT ![s] = minutes]
      /\ approval' = [approval EXCEPT ![s] = IF minutes > 0 /\ @ = "none" THEN "PENDING" ELSE @]
      /\ requested' = [requested EXCEPT ![s] =
                         IF minutes > 0 /\ approval[s] = "none" THEN minutes ELSE @]
      /\ closedBy' = [closedBy EXCEPT ![s] = @ \union {r}]
      /\ call' = [call EXCEPT ![c] = Idle]

(* No session is open, a unique index refuses an insert, a statement fails *)
(* or the process dies: the transaction leaves nothing.                    *)
Abandon(c) ==
  /\ call[c] # Idle
  /\ call' = [call EXCEPT ![c] = Idle]
  /\ UNCHANGED <<status, checkOut, punched, potential, approval, requested, closedBy>>

-----------------------------------------------------------------------------
(* Overtime review: the check and the update by id are two statements.     *)

ReadForDecision(c, s) ==
  /\ call[c] = Idle
  /\ approval[s] = "PENDING"
  /\ call' = [call EXCEPT ![c] = [step |-> "decide", request |-> None, session |-> s]]
  /\ UNCHANGED <<status, checkOut, punched, potential, approval, requested, closedBy>>

DecideOvertime(c, decision) ==
  /\ call[c].step = "decide"
  /\ approval' = [approval EXCEPT ![call[c].session] = decision]
  /\ call' = [call EXCEPT ![c] = Idle]
  /\ UNCHANGED <<status, checkOut, punched, potential, requested, closedBy>>

Next ==
  \/ \E r \in Requests : CheckIn(r)
  \/ \E c \in Calls :
       \/ \E r \in Requests : FindPunch(c, r)
       \/ \E s \in Requests : FindOpenSession(c, s) \/ ReadForDecision(c, s)
       \/ \E minutes \in Overtime : CloseSession(c, minutes)
       \/ \E decision \in Decisions : DecideOvertime(c, decision)
       \/ Abandon(c)

Spec == Init /\ [][Next]_vars

-----------------------------------------------------------------------------
(* Properties.                                                             *)

TypeOK ==
  /\ status \in [Requests -> {"none", "OPEN", "CLOSED"}]
  /\ checkOut \in [Requests -> Requests \union {None}]
  /\ punched \subseteq Requests
  /\ potential \in [Requests -> 0..MaxOvertime]
  /\ approval \in [Requests -> {"none", "PENDING"} \union Decisions]
  /\ requested \in [Requests -> 0..MaxOvertime]
  /\ call \in [Calls -> CallRecord]
  /\ closedBy \in [Requests -> SUBSET Requests]

\* No punch is used twice: no second session is opened beside an open one, and a
\* check-out that is retried, also after another check-out of the same session
\* took its place, never closes the session the employee opened since.  It does
\* not say that every punch has a session or that a session is closed once:
\* overlapping check-outs close one twice and leave the earlier punch without one.
PunchesUsedOnce ==
  /\ \A s, u \in Open : s = u
  /\ \A s \in Requests : /\ status[s] = "CLOSED" <=> closedBy[s] # {}
                         /\ closedBy[s] # {} => checkOut[s] \in closedBy[s]
  /\ \A s, u \in Requests : s # u => closedBy[s] \cap closedBy[u] = {}

\* A session with potential overtime has an approval for just these minutes,
\* whichever of several check-outs at once closed it last.
OvertimeIsRequested ==
  \A s \in Requests :
    potential[s] > 0 => approval[s] # "none" /\ requested[s] = potential[s]
=============================================================================
