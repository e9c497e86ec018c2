---------------------------- MODULE MCAttendance ----------------------------
(* Instances of Attendance for TLC.                                        *)
EXTENDS Attendance, TLC

(* Nothing distinguishes one request or call from another.                 *)
PunchSymmetry == Permutations(Requests) \union Permutations(Calls)
=============================================================================
