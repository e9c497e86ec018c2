------------------------- MODULE MCNotificationRelay -------------------------
(* NotificationRelay on small instances. *)
EXTENDS NotificationRelay, TLC

Symmetry == Permutations(Processes)

=============================================================================
