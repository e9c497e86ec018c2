---------------------------- MODULE MCTaskReview ----------------------------
(* Instances of TaskReview for TLC.                                        *)
EXTENDS TaskReview, TLC

(* Nothing distinguishes one call from another.                            *)
CallSymmetry == Permutations(Calls)
=============================================================================
