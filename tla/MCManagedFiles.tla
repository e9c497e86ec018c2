--------------------------- MODULE MCManagedFiles ---------------------------
(* Instances of ManagedFiles for TLC.                                      *)
EXTENDS ManagedFiles, TLC

(* Nothing distinguishes one file, parent or call from another.            *)
FileSymmetry ==
  Permutations(Files) \union Permutations(Owners) \union Permutations(Calls)

(* Bound: all the files of a behaviour were uploaded for one parent, the   *)
(* only one that is deleted; files of others meet only in a cleanup batch. *)
OneParent ==
  /\ \A f, g \in Files :
       state[f] # "ABSENT" /\ state[g] # "ABSENT" => intent[f] = intent[g]
  /\ \A d \in deleted : \E f \in Files : state[f] # "ABSENT" /\ intent[f] = d
=============================================================================
