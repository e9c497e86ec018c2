-------------------------- MODULE AttendanceProofs --------------------------
(* The invariants of Attendance for any requests, calls and minutes.       *)
EXTENDS Attendance, TLAPS

(* A punch that closed a session is there.                                 *)
PunchInv == \A s \in Requests : closedBy[s] \subseteq punched

(* What a call in progress knows stays true: the session it read has been  *)
(* opened, the approval it read has its row.                               *)
CallInv ==
  \A c \in Calls :
    /\ call[c].step \in {"find", "close"} => call[c].request \in Requests
    /\ call[c].step = "close" =>
         call[c].session \in Requests /\ status[call[c].session] # "none"
    /\ call[c].step = "decide" =>
         call[c].session \in Requests /\ approval[call[c].session] # "none"

IInv == TypeOK /\ PunchInv /\ CallInv /\ PunchesUsedOnce /\ OvertimeIsRequested

-----------------------------------------------------------------------------
LEMMA InitIInv == Init => IInv
<1> SUFFICES ASSUME Init PROVE IInv
  OBVIOUS
<1>1. TypeOK
  BY MaxOvertimeAssumption DEF Init, TypeOK, CallRecord, Idle
<1>2. PunchInv /\ CallInv /\ PunchesUsedOnce /\ OvertimeIsRequested
  BY DEF Init, PunchInv, CallInv, PunchesUsedOnce, OvertimeIsRequested, Open, Idle
<1> QED
  BY <1>1, <1>2 DEF IInv

LEMMA CheckInStep ==
  ASSUME IInv, NEW r \in Requests, CheckIn(r)
  PROVE  IInv'
<1> USE DEF IInv
<1>1. /\ status[r] = "none" /\ \A s \in Requests : status[s] # "OPEN"
      /\ status' = [s \in Requests |-> IF s = r THEN "OPEN" ELSE status[s]]
      /\ UNCHANGED <<checkOut, punched, potential, approval, requested, call, closedBy>>
  BY DEF CheckIn, Open, TypeOK
<1>2. TypeOK'
  BY <1>1 DEF TypeOK
<1>3. PunchInv' /\ OvertimeIsRequested'
  BY <1>1 DEF PunchInv, OvertimeIsRequested
<1>4. CallInv'
  BY <1>1 DEF CallInv
<1>5. PunchesUsedOnce'
  <2>1. \A s \in Open' : s = r
    BY <1>1 DEF Open
  <2>2. \A s \in Requests : /\ status'[s] = "CLOSED" <=> closedBy'[s] # {}
                            /\ closedBy'[s] # {} => checkOut'[s] \in closedBy'[s]
    BY <1>1 DEF PunchesUsedOnce
  <2>3. \A s, u \in Requests : s # u => closedBy'[s] \cap closedBy'[u] = {}
    BY <1>1 DEF PunchesUsedOnce
  <2> QED
    BY <2>1, <2>2, <2>3 DEF PunchesUsedOnce
<1> QED
  BY <1>2, <1>3, <1>4, <1>5

(* The steps that only read change nothing but their call.                 *)
LEMMA ReadStep ==
  ASSUME IInv, NEW c \in Calls, NEW r \in CallRecord,
         call' = [call EXCEPT ![c] = r],
         UNCHANGED <<status, checkOut, punched, potential, approval, requested, closedBy>>,
         r.step \in {"find", "close"} => r.request \in Requests,
         r.step = "close" => r.session \in Requests /\ status[r.session] # "none",
         r.step = "decide" => r.session \in Requests /\ approval[r.session] # "none"
  PROVE  IInv'
<1> USE DEF IInv
<1>1. call' = [d \in Calls |-> IF d = c THEN r ELSE call[d]]
  BY DEF TypeOK
<1>2. TypeOK'
  BY <1>1 DEF TypeOK
<1>3. CallInv'
  BY <1>1 DEF CallInv
<1>4. PunchInv' /\ PunchesUsedOnce' /\ OvertimeIsRequested'
  BY DEF PunchInv, PunchesUsedOnce, OvertimeIsRequested, Open
<1> QED
  BY <1>2, <1>3, <1>4

LEMMA CloseSessionStep ==
  ASSUME IInv, NEW c \in Calls, NEW minutes \in Overtime, CloseSession(c, minutes)
  PROVE  IInv'
<1> USE DEF IInv
<1> DEFINE r == call[c].request
           s == call[c].session
<1>1. /\ r \in Requests /\ s \in Requests /\ status[s] # "none"
      /\ r \notin punched
      /\ minutes > 0 => approval[s] = "none"
      /\ punched' = punched \union {r}
      /\ status' = [u \in Requests |-> IF u = s THEN "CLOSED" ELSE status[u]]
      /\ checkOut' = [u \in Requests |-> IF u = s THEN r ELSE checkOut[u]]
      /\ potential' = [u \in Requests |-> IF u = s THEN minutes ELSE potential[u]]
      /\ approval' = [u \in Requests |-> IF u = s /\ minutes > 0 THEN "PENDING"
                                         ELSE approval[u]]
      /\ requested' = [u \in Requests |-> IF u = s /\ minutes > 0 THEN minutes
                                          ELSE requested[u]]
      /\ closedBy' = [u \in Requests |-> IF u = s THEN closedBy[s] \union {r} ELSE closedBy[u]]
      /\ call' = [d \in Calls |-> IF d = c THEN Idle ELSE call[d]]
  <2>1. /\ call[c].step = "close" /\ r \notin punched
        /\ minutes > 0 => approval[s] = "none"
    BY DEF CloseSession, Unpunched, OvertimeInserts
  <2>2. r \in Requests /\ s \in Requests /\ status[s] # "none"
    BY <2>1 DEF CallInv
  <2> QED
    BY <2>1, <2>2 DEF CloseSession, TypeOK
<1> HIDE DEF r, s
<1>2. TypeOK'
  <2>1. minutes \in 0..MaxOvertime
    BY DEF Overtime
  <2>2. Idle \in CallRecord
    BY DEF Idle, CallRecord
  <2>3. /\ status' \in [Requests -> {"none", "OPEN", "CLOSED"}]
        /\ checkOut' \in [Requests -> Requests \union {None}]
        /\ punched' \subseteq Requests
        /\ approval' \in [Requests -> {"none", "PENDING"} \union Decisions]
        /\ closedBy' \in [Requests -> SUBSET Requests]
    BY <1>1 DEF TypeOK
  <2>4. potential' \in [Requests -> 0..MaxOvertime] /\ requested' \in [Requests -> 0..MaxOvertime]
    BY <1>1, <2>1 DEF TypeOK
  <2>5. call' \in [Calls -> CallRecord]
    BY <1>1, <2>2 DEF TypeOK
  <2> QED
    BY <2>3, <2>4, <2>5 DEF TypeOK
<1>3. PunchInv'
  BY <1>1 DEF PunchInv
<1>4. CallInv'
  <2>1. \A u \in Requests : /\ status[u] # "none" => status'[u] # "none"
                            /\ approval[u] # "none" => approval'[u] # "none"
    BY <1>1
  <2>2. Idle.step = "idle"
    BY DEF Idle
  <2> QED
    BY <1>1, <2>1, <2>2 DEF CallInv
<1>5. PunchesUsedOnce'
  <2>1. \A u, w \in Open' : u = w
    BY <1>1 DEF PunchesUsedOnce, Open
  <2>2. \A u \in Requests : /\ status'[u] = "CLOSED" <=> closedBy'[u] # {}
                            /\ closedBy'[u] # {} => checkOut'[u] \in closedBy'[u]
    BY <1>1 DEF PunchesUsedOnce
  <2>3. \A u, w \in Requests : u # w => closedBy'[u] \cap closedBy'[w] = {}
    <3>1. \A u \in Requests : r \notin closedBy[u]
      BY <1>1 DEF PunchInv
    <3> QED
      BY <1>1, <3>1 DEF PunchesUsedOnce
  <2> QED
    BY <2>1, <2>2, <2>3 DEF PunchesUsedOnce
<1>6. OvertimeIsRequested'
  <2>1. minutes \in Int
    BY MaxOvertimeAssumption DEF Overtime
  <2>2. ASSUME NEW u \in Requests, potential'[u] > 0
        PROVE  approval'[u] # "none" /\ requested'[u] = potential'[u]
    <3>1. CASE u = s
      BY <1>1, <2>2, <3>1
    <3>2. CASE u # s
      BY <1>1, <2>2, <3>2 DEF OvertimeIsRequested
    <3> QED
      BY <3>1, <3>2
  <2> QED
    BY <2>2 DEF OvertimeIsRequested
<1> QED
  BY <1>2, <1>3, <1>4, <1>5, <1>6

LEMMA DecideOvertimeStep ==
  ASSUME IInv, NEW c \in Calls, NEW decision \in Decisions, DecideOvertime(c, decision)
  PROVE  IInv'
<1> USE DEF IInv
<1> DEFINE s == call[c].session
<1>1. /\ s \in Requests
      /\ approval' = [u \in Requests |-> IF u = s THEN decision ELSE approval[u]]
      /\ call' = [d \in Calls |-> IF d = c THEN Idle ELSE call[d]]
      /\ UNCHANGED <<status, checkOut, punched, potential, requested, closedBy>>
  BY DEF DecideOvertime, CallInv, TypeOK
<1> HIDE DEF s
<1>2. decision # "none" /\ Idle \in CallRecord /\ Idle.step = "idle"
  BY DEF Decisions, Idle, CallRecord
<1>3. TypeOK'
  BY <1>1, <1>2 DEF TypeOK
<1>4. CallInv'
  BY <1>1, <1>2 DEF CallInv
<1>5. PunchInv' /\ PunchesUsedOnce'
  BY <1>1 DEF PunchInv, PunchesUsedOnce, Open
<1>6. OvertimeIsRequested'
  BY <1>1, <1>2 DEF OvertimeIsRequested
<1> QED
  BY <1>3, <1>4, <1>5, <1>6

LEMMA NextIInv == IInv /\ [Next]_vars => IInv'
<1> SUFFICES ASSUME IInv, [Next]_vars PROVE IInv'
  OBVIOUS
<1>1. ASSUME NEW r \in Requests, CheckIn(r) PROVE IInv'
  BY <1>1, CheckInStep
<1>2. ASSUME NEW c \in Calls, NEW r \in Requests, FindPunch(c, r) PROVE IInv'
  <2>1. [step |-> "find", request |-> r, session |-> None] \in CallRecord
    BY DEF CallRecord
  <2> QED
    BY <1>2, <2>1, ReadStep DEF FindPunch
<1>3. ASSUME NEW c \in Calls, NEW s \in Requests, FindOpenSession(c, s) PROVE IInv'
  <2>1. call[c].step = "find" /\ call[c].request \in Requests
    BY <1>3 DEF FindOpenSession, IInv, CallInv
  <2>2. [step |-> "close", request |-> call[c].request, session |-> s] \in CallRecord
    BY <2>1 DEF CallRecord
  <2>3. status[s] # "none"
    BY <1>3 DEF FindOpenSession, Open
  <2> QED
    BY <1>3, <2>1, <2>2, <2>3, ReadStep DEF FindOpenSession
<1>4. ASSUME NEW c \in Calls, NEW s \in Requests, ReadForDecision(c, s) PROVE IInv'
  <2>1. [step |-> "decide", request |-> None, session |-> s] \in CallRecord
    BY DEF CallRecord
  <2> QED
    BY <1>4, <2>1, ReadStep DEF ReadForDecision
<1>5. ASSUME NEW c \in Calls, NEW minutes \in Overtime, CloseSession(c, minutes) PROVE IInv'
  BY <1>5, CloseSessionStep
<1>6. ASSUME NEW c \in Calls, NEW decision \in Decisions, DecideOvertime(c, decision) PROVE IInv'
  BY <1>6, DecideOvertimeStep
<1>7. ASSUME NEW c \in Calls, Abandon(c) PROVE IInv'
  <2>1. Idle \in CallRecord /\ Idle.step = "idle"
    BY DEF Idle, CallRecord
  <2> QED
    BY <1>7, <2>1, ReadStep DEF Abandon
<1>8. ASSUME UNCHANGED vars PROVE IInv'
  BY <1>8 DEF vars, IInv, TypeOK, PunchInv, CallInv, PunchesUsedOnce, OvertimeIsRequested, Open
<1> QED
  BY <1>1, <1>2, <1>3, <1>4, <1>5, <1>6, <1>7, <1>8 DEF Next

LEMMA SpecIInv == Spec => []IInv
  BY InitIInv, NextIInv, PTL DEF Spec

-----------------------------------------------------------------------------
\* Every reachable state of the sessions, punches and calls is well typed.
THEOREM TypeCorrect == Spec => []TypeOK
<1>1. IInv => TypeOK
  BY DEF IInv
<1> QED
  BY <1>1, SpecIInv, PTL

\* At most one session is open, and one check-out closes one session only,
\* however often and late it is retried.
THEOREM PunchesAreUsedOnce == Spec => []PunchesUsedOnce
<1>1. IInv => PunchesUsedOnce
  BY DEF IInv
<1> QED
  BY <1>1, SpecIInv, PTL

\* Potential overtime always has an approval for its minutes.
THEOREM OvertimeReachesReview == Spec => []OvertimeIsRequested
<1>1. IInv => OvertimeIsRequested
  BY DEF IInv
<1> QED
  BY <1>1, SpecIInv, PTL
=============================================================================
