--------------------------- MODULE MCTaskProgress ---------------------------
(* Instances of TaskProgress for TLC.                                      *)
EXTENDS TaskProgress, TLC

(* Nothing distinguishes one task or transaction from another.             *)
FamilySymmetry == Permutations(Tasks) \union Permutations(Calls)

(* 23 of 40 is 57 in floating point, which checklists of two items do not  *)
(* reach.                                                                  *)
FloatTies == {<<23, 40>>}
=============================================================================
