------------------------------ MODULE Mailbox ------------------------------
(***************************************************************************)
(* What the notifications of a session promise to their readers, whatever  *)
(* files, claims and restarts lie between: a notification is posted to     *)
(* every reader at once; a reader sees it at least once before it is       *)
(* closed for him, and never after; only the model's copy may be discarded *)
(* unseen, which the print loop does when the model cannot be reached.     *)
(***************************************************************************)
EXTENDS Naturals

CONSTANTS Keys, Sinks, Model

VARIABLES
  box,   \* each notification for each reader: empty, posted, closed
  seen   \* how often he has seen it: 0, 1 or 2 for more

vars == <<box, seen>>

Init ==
  /\ box = [k \in Keys |-> [s \in Sinks |-> "empty"]]
  /\ seen = [k \in Keys |-> [s \in Sinks |-> 0]]

Post(k) ==
  /\ \A s \in Sinks : box[k][s] = "empty"
  /\ box' = [box EXCEPT ![k] = [s \in Sinks |-> "posted"]] /\ UNCHANGED seen

See(k, s) ==
  /\ box[k][s] = "posted"
  /\ seen' = [seen EXCEPT ![k][s] = IF @ = 2 THEN 2 ELSE @ + 1] /\ UNCHANGED box

\* A reader is done with some of his notifications.
Close(K, s) ==
  /\ \A k \in K : box[k][s] = "posted" /\ (seen[k][s] > 0 \/ s = Model)
  /\ box' = [k \in Keys |-> [box[k] EXCEPT ![s] = IF k \in K THEN "closed" ELSE @]]
  /\ UNCHANGED seen

Next ==
  \/ \E k \in Keys : Post(k)
  \/ \E k \in Keys, s \in Sinks : See(k, s)
  \/ \E K \in SUBSET Keys, s \in Sinks : Close(K, s)

Spec == Init /\ [][Next]_vars
=============================================================================
