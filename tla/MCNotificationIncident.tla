----------------------- MODULE MCNotificationIncident -----------------------
(* Interchangeable workers and two severities.                             *)
EXTENDS NotificationIncident, TLC

Symmetry == Permutations(Workers)
=============================================================================
