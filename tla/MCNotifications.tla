-------------------------- MODULE MCNotifications --------------------------
(* Notifications for TLC: the constants are given by the .cfg file.         *)
EXTENDS Notifications

CONSTANTS k1, k2

\* One notification with a crash and a failing handler, and two, claimed
\* together, without either.
SmallBudgets == {[keys |-> {k1}, crashes |-> 1, faults |-> 1],
                 [keys |-> {k1, k2}, crashes |-> 0, faults |-> 0]}
=============================================================================
