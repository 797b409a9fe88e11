------------------------- MODULE NotificationsProofs -------------------------
(***************************************************************************)
(* Theorems about Notifications, for any number of notifications, crashes  *)
(* and failing handlers: typing, what a claim and the model's history      *)
(* stand for, and that the files, claims and acknowledgements implement    *)
(* the abstract Mailbox.                                                   *)
(***************************************************************************)
EXTENDS Notifications, TLAPS

-----------------------------------------------------------------------------
(* Typing.                                                                 *)

BudgetTyped == budget \in [keys : SUBSET Keys, crashes : Nat, faults : Nat]
DiskTyped ==
  /\ due \subseteq Keys /\ event \in [Keys -> {"none", "event", "full"}]
  /\ state \in [Keys -> [Sinks -> States]] /\ file \subseteq Keys
LoopTyped ==
  /\ op \in {"idle", "publish", "write", "deliver", "ack"} /\ sink \in Sinks \cup {None, "restart"}
  /\ key \in Keys \cup {None} /\ batch \in [Sinks -> SUBSET Keys]
RestTyped ==
  /\ up \in BOOLEAN /\ ui \in UIs /\ turn \in BOOLEAN /\ writing \in Keys \cup {None}
  /\ history \subseteq Keys /\ shown \in [Keys -> [Sinks -> 0..2]]

\* In a delivery that is written or acknowledged there is a notification in hand, and a
\* delivery is some sink's.
InHand ==
  /\ op \in {"write", "ack"} => key \in Keys
  /\ op \in {"deliver", "ack"} => sink \in Sinks

Typed == BudgetTyped /\ DiskTyped /\ LoopTyped /\ RestTyped /\ InHand

LEMMA TypedInit == Init => Typed
<1> SUFFICES ASSUME Init PROVE Typed
  OBVIOUS
<1>1. BudgetTyped
  BY NotificationsAssumption DEF NotificationsAssumption, Init, BudgetTyped
<1>2. DiskTyped
  BY DEF Init, DiskTyped, States
<1>3. LoopTyped /\ InHand
  BY DEF Init, LoopTyped, InHand
<1>4. RestTyped
  <2>1. shown \in [Keys -> [Sinks -> 0..2]]
    BY DEF Init
  <2>2. up \in BOOLEAN /\ turn \in BOOLEAN
    BY DEF Init
  <2> QED
    BY <2>1, <2>2 DEF Init, RestTyped
<1> QED
  BY <1>1, <1>2, <1>3, <1>4 DEF Typed

\* A crash or a fault is taken from the budget.
LEMMA BudgetSpent ==
  ASSUME Typed,
         \/ budget.faults > 0 /\ budget' = [budget EXCEPT !.faults = @ - 1]
         \/ budget.crashes > 0 /\ budget' = [budget EXCEPT !.crashes = @ - 1]
  PROVE  BudgetTyped'
<1>1. budget.faults \in Nat /\ budget.crashes \in Nat /\ budget.keys \in SUBSET Keys
  BY DEF Typed, BudgetTyped
<1>2. CASE budget.faults > 0 /\ budget' = [budget EXCEPT !.faults = @ - 1]
  <2>1. budget.faults - 1 \in Nat
    BY <1>1, <1>2
  <2> QED
    BY <1>1, <1>2, <2>1 DEF Typed, BudgetTyped
<1>3. CASE budget.crashes > 0 /\ budget' = [budget EXCEPT !.crashes = @ - 1]
  <2>1. budget.crashes - 1 \in Nat
    BY <1>1, <1>3
  <2> QED
    BY <1>1, <1>3, <2>1 DEF Typed, BudgetTyped
<1> QED
  BY <1>2, <1>3

LEMMA RecoveredTyped ==
  ASSUME Typed
  PROVE  Recovered \in [Keys -> [Sinks -> States]]
BY DEF Typed, DiskTyped, Recovered, States

LEMMA Next1Typed ==
  ASSUME Typed, NEW k \in Keys, sink \in Sinks, Next1(k)
  PROVE  LoopTyped' /\ InHand'
BY NotificationsAssumption
DEF NotificationsAssumption, Typed, LoopTyped, InHand, Next1, Release, Holds

LEMMA ModelTyped ==
  ASSUME Typed, NextOfModel, Idle, UNCHANGED key
  PROVE  LoopTyped' /\ InHand' /\ writing' \in Keys \cup {None}
BY NotificationsAssumption DEF NotificationsAssumption, Typed, LoopTyped, InHand, NextOfModel, Holds, Idle

LEMMA TypedStep == Typed /\ [Next]_vars => Typed'
<1> SUFFICES ASSUME Typed, [Next]_vars PROVE Typed'
  OBVIOUS
<1>0. /\ "llm" \in Sinks /\ None \notin Sinks /\ None \notin Keys
      /\ Recovered \in [Keys -> [Sinks -> States]]
  BY NotificationsAssumption, RecoveredTyped DEF NotificationsAssumption
<1> USE DEF Typed, BudgetTyped, DiskTyped, LoopTyped, RestTyped, InHand, diskVars, loopVars
<1>1. ASSUME NEW k \in Keys, PublishEvent(k) \/ TaskEnds(k) PROVE Typed'
  BY <1>1 DEF PublishEvent, TaskEnds
<1>2. ASSUME NEW k \in Keys, Show(k) PROVE Typed'
  BY <1>2, <1>0 DEF Show, Once
<1>3. ASSUME NEW k \in Keys, ShowFails(k) PROVE Typed'
  <2>1. LoopTyped' /\ InHand'
    BY <1>3, Next1Typed DEF ShowFails
  <2>2. BudgetTyped'
    BY <1>3, BudgetSpent DEF ShowFails
  <2> QED
    BY <1>3, <2>1, <2>2 DEF ShowFails
<1>4. ASSUME NEW k \in Keys, Append(k) PROVE Typed'
  BY <1>4, <1>0 DEF Append, Once, Release
<1>5. CASE PublishDelivery
  BY <1>5, <1>0 DEF PublishDelivery, States
<1>6. CASE Claim
  <2>1. PICK K \in SUBSET Keys :
          /\ state' = [k \in Keys |-> IF k \in K THEN [Recovered[k] EXCEPT ![sink] = "claimed"]
                                      ELSE Recovered[k]]
          /\ batch' = [batch EXCEPT ![sink] = K]
          /\ IF K = {} THEN Release ELSE Holds("deliver", sink) /\ UNCHANGED key
    BY <1>6 DEF Claim
  <2>2. state' \in [Keys -> [Sinks -> States]]
    BY <1>0, <2>1 DEF States
  <2>3. LoopTyped' /\ InHand'
    BY <1>0, <1>6, <2>1 DEF Claim, Release, Holds
  <2> QED
    BY <1>6, <2>2, <2>3 DEF Claim
<1>7. CASE Ack
  <2>1. LoopTyped' /\ InHand'
    BY <1>7, Next1Typed DEF Ack
  <2>2. state' \in [Keys -> [Sinks -> States]]
    BY <1>7 DEF Ack, States
  <2> QED
    BY <1>7, <2>1, <2>2 DEF Ack
<1>8. CASE Resume
  BY <1>8, <1>0 DEF Resume, Release, States
<1>9. CASE Restart
  BY <1>9, <1>0 DEF Restart, Holds, UIs
<1>10. CASE WriteFile \/ TurnStarts
  BY <1>10, <1>0 DEF WriteFile, TurnStarts
<1>11. CASE TurnEnds \/ Forget
  <2>1. CASE TurnEnds
    BY <2>1, <1>0 DEF TurnEnds, Idle
  <2>2. CASE Forget
    <3>1. file' \subseteq Keys /\ history' \subseteq Keys
      BY <2>2, <1>0 DEF Forget
    <3> QED
      BY <2>2, <1>0, <3>1 DEF Forget, Idle
  <2> QED
    BY <1>11, <2>1, <2>2
<1>12. CASE AckModel \/ AppendFails
  <2>1. LoopTyped' /\ InHand' /\ writing' \in Keys \cup {None}
    BY <1>12, ModelTyped DEF AckModel, AppendFails
  <2>2. state' \in [Keys -> [Sinks -> States]]
    <3>1. CASE AckModel
      BY <1>0, <3>1 DEF AckModel, States
    <3>2. CASE AppendFails
      BY <3>2 DEF AppendFails
    <3> QED
      BY <1>12, <3>1, <3>2
  <2>3. BudgetTyped'
    BY <1>12, BudgetSpent DEF AckModel, AppendFails
  <2> QED
    BY <1>12, <2>1, <2>2, <2>3 DEF AckModel, AppendFails
<1>13. CASE Drain
  <2>1. state' \in [Keys -> [Sinks -> States]]
    BY <1>13, <1>0 DEF Drain, States
  <2> QED
    BY <1>13, <2>1 DEF Drain
<1>14. CASE Crash
  <2>1. BudgetTyped'
    BY <1>14, BudgetSpent DEF Crash
  <2> QED
    BY <1>14, <1>0, <2>1 DEF Crash, Release
<1>15. ASSUME NEW k \in Keys, NEW s \in Sinks, Age(k, s) PROVE Typed'
  BY <1>15 DEF Age, States
<1>16. ASSUME NEW s \in Sinks, Poll(s) PROVE Typed'
  BY <1>16 DEF Poll, Holds
<1>17. CASE UNCHANGED vars
  BY <1>17 DEF vars
<1> QED
  BY <1>1, <1>2, <1>3, <1>4, <1>5, <1>6, <1>7, <1>8, <1>9, <1>10, <1>11, <1>12, <1>13, <1>14, <1>15,
     <1>16, <1>17 DEF Next, Loop

\* Every variable has its type in every reachable state.
THEOREM TypeCorrect == Spec => []TypeOK
<1>1. Typed => TypeOK
  BY DEF Typed, BudgetTyped, DiskTyped, LoopTyped, RestTyped, TypeOK
<1> QED
  BY <1>1, TypedInit, TypedStep, PTL DEF Spec

-----------------------------------------------------------------------------
(* What a claim, a notification in hand and the history stand for.         *)

\* The deliveries of a notification are there once its second file is written.
Filed == \A k \in Keys, s \in Sinks : state[k][s] = "absent" <=> event[k] # "full"

\* What is in hand is on its way: its event is written, or it has been shown.
Handed ==
  /\ op = "write" => event[key] = "event"
  /\ op = "ack" => sink # "llm" /\ key \in batch[sink] /\ shown[key][sink] > 0
  /\ writing # None => writing \in batch["llm"] /\ shown[writing]["llm"] > 0

\* The model is told in a turn; a restart finds nothing in anybody's hands.
InTurn ==
  /\ sink = "llm" => turn /\ writing = None
  /\ sink = "restart" => op \in {"publish", "write"} /\ ~turn /\ \A s \in Sinks : batch[s] = {}
  /\ ~turn => batch["llm"] = {} /\ writing = None
  /\ ~up => ~turn /\ sink = None /\ \A s \in Sinks : batch[s] = {}
  /\ op = "idle" => sink = None

InFile    == \A k \in file \cup history : shown[k]["llm"] > 0 /\ event[k] = "full"
InBatches == \A s \in Sinks : \A k \in batch[s] : state[k][s] \in {"claimed", "stale", "pending"}

IInv == Typed /\ Filed /\ Handed /\ InTurn /\ InFile /\ InBatches

LEMMA InvInit == Init => IInv
<1> SUFFICES ASSUME Init PROVE IInv
  OBVIOUS
<1>1. Typed
  BY TypedInit
<1> QED
  BY <1>1, NotificationsAssumption
  DEF NotificationsAssumption, Init, IInv, Filed, Handed, InTurn, InFile, InBatches

LEMMA Constants ==
  "llm" \in Sinks /\ None \notin Sinks /\ None \notin Keys /\ None # "restart" /\ "restart" \notin Sinks
BY NotificationsAssumption DEF NotificationsAssumption

\* The turn's place in the loop.
LEMMA InTurnStep == IInv /\ [Next]_vars => InTurn'
<1> SUFFICES ASSUME IInv, [Next]_vars PROVE InTurn'
  OBVIOUS
<1> USE Constants DEF IInv, InTurn, Typed, LoopTyped, RestTyped, InHand, loopVars
<1>1. ASSUME NEW k \in Keys, PublishEvent(k) \/ TaskEnds(k) \/ Show(k) PROVE InTurn'
  BY <1>1 DEF PublishEvent, TaskEnds, Show
<1>2. ASSUME NEW k \in Keys, ShowFails(k) PROVE InTurn'
  BY <1>2 DEF ShowFails, Next1, Release, Holds
<1>3. ASSUME NEW k \in Keys, Append(k) PROVE InTurn'
  BY <1>3 DEF Append, Release
<1>4. CASE PublishDelivery
  BY <1>4 DEF PublishDelivery
<1>5. CASE Claim
  BY <1>5 DEF Claim, Release, Holds
<1>6. CASE Ack
  BY <1>6 DEF Ack, Next1, Release, Holds
<1>7. CASE Resume \/ Restart
  BY <1>7 DEF Resume, Restart, Release, Holds
<1>8. CASE WriteFile \/ TurnStarts \/ TurnEnds \/ Forget \/ Drain
  BY <1>8 DEF WriteFile, TurnStarts, TurnEnds, Forget, Drain, Idle
<1>9. CASE AckModel \/ AppendFails
  BY <1>9 DEF AckModel, AppendFails, NextOfModel, Idle, Holds
<1>10. CASE Crash
  BY <1>10 DEF Crash, Release
<1>11. ASSUME NEW k \in Keys, NEW s \in Sinks, Age(k, s) PROVE InTurn'
  BY <1>11 DEF Age
<1>12. ASSUME NEW s \in Sinks, Poll(s) PROVE InTurn'
  BY <1>12 DEF Poll, Idle, Holds
<1>13. CASE UNCHANGED vars
  BY <1>13 DEF vars
<1> QED
  BY <1>1, <1>2, <1>3, <1>4, <1>5, <1>6, <1>7, <1>8, <1>9, <1>10, <1>11, <1>12, <1>13 DEF Next, Loop

\* An old claim taken back is still posted, and nothing else changes.
LEMMA RecoveredPosted ==
  ASSUME IInv, NEW k \in Keys, NEW s \in Sinks
  PROVE  /\ state[k][s] = "stale" => Recovered[k][s] = "pending"
         /\ state[k][s] # "stale" => Recovered[k][s] = state[k][s]
BY DEF Recovered

\* A step that moves no file but the deliveries', and shows nothing.
LEMMA StatesStep ==
  ASSUME IInv, UNCHANGED <<event, file, history, shown, writing>>, 
         op' = "write" => op = "write" /\ UNCHANGED key,
         op' = "ack" => op = "ack" /\ UNCHANGED <<key, sink>>,
         \A s \in Sinks : batch'[s] \subseteq batch[s],
         writing # None => writing \in batch'["llm"],
         op' = "ack" => key \in batch'[sink],
         \A k \in Keys, s \in Sinks :
            /\ state'[k][s] = "absent" <=> state[k][s] = "absent"
            /\ k \in batch'[s] /\ state[k][s] \in {"claimed", "stale", "pending"}
                  => state'[k][s] \in {"claimed", "stale", "pending"}
  PROVE  Filed' /\ Handed' /\ InFile' /\ InBatches'
<1> USE Constants DEF IInv, Typed, LoopTyped, RestTyped, InHand, DiskTyped
<1>1. Filed'
  BY DEF Filed
<1>2. Handed'
  BY DEF Handed
<1>3. InFile'
  BY DEF InFile
<1>4. InBatches'
  BY DEF InBatches
<1> QED
  BY <1>1, <1>2, <1>3, <1>4

LEMMA FilesStep == IInv /\ [Next]_vars => Filed' /\ Handed' /\ InFile' /\ InBatches'
<1> DEFINE Goal == Filed /\ Handed /\ InFile /\ InBatches
<1> SUFFICES ASSUME IInv, [Next]_vars PROVE Goal'
  OBVIOUS
<1>0. ASSUME NEW k \in Keys, NEW s \in Sinks
      PROVE  /\ Recovered[k][s] = "absent" <=> state[k][s] = "absent"
             /\ Recovered[k][s] = "acked" <=> state[k][s] = "acked"
             /\ state[k][s] \in {"claimed", "stale", "pending"}
                  => Recovered[k][s] \in {"claimed", "stale", "pending"}
  BY RecoveredPosted
<1> USE Constants DEF loopVars, diskVars
<1>1. ASSUME NEW k \in Keys, PublishEvent(k) PROVE Goal'
  BY <1>1 DEF PublishEvent, Unpublished, IInv, Typed, LoopTyped, DiskTyped, RestTyped,
     Filed, Handed, InFile, InBatches
<1>2. ASSUME NEW k \in Keys, TaskEnds(k) PROVE Goal'
  BY <1>2, StatesStep DEF TaskEnds, IInv, Handed
<1>3. ASSUME NEW k \in Keys, Show(k) PROVE Goal'
  <2>1. /\ UNCHANGED <<event, state, file, history, batch, writing, sink>> /\ op' = "ack" /\ key' = k
        /\ sink # "llm" /\ k \in batch[sink] /\ sink \in Sinks
    BY <1>3 DEF Show, IInv, Typed, InHand
  <2>2. /\ shown'[k][sink] > 0
        /\ \A j \in Keys, s \in Sinks : shown[j][s] > 0 => shown'[j][s] > 0
    BY <1>3, <2>1 DEF Show, Once, IInv, Typed, RestTyped
  <2>3. Handed'
    BY <2>1, <2>2 DEF IInv, Handed, Typed, RestTyped
  <2>4. InFile'
    BY <2>1, <2>2 DEF IInv, InFile, Typed, RestTyped, DiskTyped
  <2> QED
    BY <2>1, <2>3, <2>4 DEF IInv, Filed, InBatches
<1>4. ASSUME NEW k \in Keys, ShowFails(k) PROVE Goal'
  BY <1>4, StatesStep DEF ShowFails, Next1, Release, Holds, IInv, Typed, LoopTyped, Handed, InTurn, InHand
<1>5. ASSUME NEW k \in Keys, Append(k) PROVE Goal'
  BY <1>5 DEF Append, Once, Release, IInv, Typed, LoopTyped, DiskTyped, RestTyped,
     Filed, Handed, InTurn, InFile, InBatches
<1>6. CASE PublishDelivery
  BY <1>6 DEF PublishDelivery, IInv, Typed, LoopTyped, DiskTyped, RestTyped, InHand,
     Filed, Handed, InTurn, InFile, InBatches
<1>7. CASE Claim
  <2>1. PICK K \in SUBSET {k \in Keys : Recovered[k][sink] = "pending"} :
          /\ state' = [k \in Keys |-> IF k \in K THEN [Recovered[k] EXCEPT ![sink] = "claimed"]
                                      ELSE Recovered[k]]
          /\ batch' = [batch EXCEPT ![sink] = K]
          /\ IF K = {} THEN Release ELSE Holds("deliver", sink) /\ UNCHANGED key
    BY <1>7 DEF Claim
  <2>2. ASSUME NEW k \in Keys, NEW s \in Sinks
        PROVE  state'[k][s] = IF k \in K /\ s = sink THEN "claimed" ELSE Recovered[k][s]
    BY <2>1, RecoveredTyped DEF IInv
  <2>3. /\ op' \in {"idle", "deliver"} /\ sink \in Sinks
        /\ UNCHANGED <<event, file, history, shown, writing>>
    BY <1>7, <2>1 DEF Claim, Release, Holds
  <2>4. \A s \in Sinks \ {sink} : batch'[s] = batch[s]
    BY <2>1 DEF IInv, Typed, LoopTyped
  <2>5. batch'[sink] = K
    BY <2>1, <2>3 DEF IInv, Typed, LoopTyped
  <2>6. Filed'
    BY <1>0, <2>1, <2>2, <2>3 DEF IInv, Filed
  <2>7. Handed'
    BY <2>3, <2>4 DEF IInv, Handed, InTurn
  <2>8. InFile'
    BY <2>3 DEF IInv, InFile
  <2>9. InBatches'
    <3>1. SUFFICES ASSUME NEW s \in Sinks, NEW k \in batch'[s]
                   PROVE  state'[k][s] \in {"claimed", "stale", "pending"}
      BY DEF InBatches
    <3>2. k \in Keys
      BY <2>1, <2>4, <2>5 DEF IInv, Typed, LoopTyped
    <3>3. CASE s = sink
      BY <2>2, <2>5, <3>2, <3>3
    <3>4. CASE s # sink
      BY <1>0, <2>2, <2>4, <3>2, <3>4 DEF IInv, InBatches
    <3> QED
      BY <3>3, <3>4
  <2> QED
    BY <2>6, <2>7, <2>8, <2>9
<1>8. CASE Ack
  <2>1. /\ UNCHANGED <<event, file, history, shown, writing>> /\ op' \in {"idle", "deliver"}
        /\ batch' = [batch EXCEPT ![sink] = @ \ {key}] /\ sink # "llm"
        /\ state' = [state EXCEPT ![key][sink] = "acked"]
    BY <1>8 DEF Ack, Next1, Release, Holds, IInv, Handed
  <2>2. key \in Keys /\ sink \in Sinks
    BY <1>8 DEF Ack, IInv, Typed, InHand
  <2>3. state[key][sink] # "absent"
    BY <1>8, <2>2 DEF Ack, IInv, Handed, InBatches
  <2>4. ASSUME NEW k \in Keys, NEW s \in Sinks
        PROVE  state'[k][s] = IF k = key /\ s = sink THEN "acked" ELSE state[k][s]
    BY <2>1, <2>2 DEF IInv, Typed, DiskTyped
  <2>5. Filed'
    BY <2>1, <2>2, <2>3, <2>4 DEF IInv, Filed
  <2>6. Handed' /\ InFile'
    BY <2>1, <2>2 DEF IInv, Handed, InFile, Typed, LoopTyped
  <2>7. InBatches'
    BY <2>1, <2>2, <2>4 DEF IInv, InBatches, Typed, LoopTyped
  <2> QED
    BY <2>5, <2>6, <2>7
<1>9. CASE Resume
  <2>1. /\ UNCHANGED <<event, file, shown, batch, writing>> /\ history' = file /\ op' = "idle"
        /\ \A s \in Sinks : batch[s] = {}
    BY <1>9 DEF Resume, Release, IInv, InTurn
  <2>2. ASSUME NEW k \in Keys, NEW s \in Sinks
        PROVE  state'[k][s] = IF k \in file /\ s = "llm" THEN "acked" ELSE state[k][s]
    BY <1>9 DEF Resume, IInv, Typed, DiskTyped
  <2>3. Filed'
    BY <2>1, <2>2 DEF IInv, Filed, InFile
  <2>4. Handed' /\ InFile' /\ InBatches'
    BY <2>1 DEF IInv, Handed, InFile, InBatches, InTurn
  <2> QED
    BY <2>3, <2>4
<1>10. CASE Restart
  <2>1. /\ UNCHANGED <<event, file, shown, batch, writing, history>> /\ op' = "publish" /\ state' = Recovered
        /\ \A s \in Sinks : batch[s] = {}
    BY <1>10 DEF Restart, Holds, IInv, InTurn
  <2> QED
    BY <1>0, <2>1 DEF IInv, Filed, Handed, InFile, InBatches, InTurn
<1>11. CASE WriteFile
  BY <1>11 DEF WriteFile, IInv, Typed, LoopTyped, RestTyped, Filed, Handed, InFile, InBatches
<1>12. CASE TurnStarts
  BY <1>12, StatesStep DEF TurnStarts, IInv, Handed
<1>13. CASE TurnEnds
  <2>1. /\ UNCHANGED <<event, state, shown, history, op>> /\ writing' = None /\ op = "idle"
        /\ \A s \in Sinks : batch'[s] \subseteq batch[s]
        /\ file' \in {file, file \cup ({writing} \ {None})}
    BY <1>13 DEF TurnEnds, Idle, IInv, Typed, LoopTyped
  <2>2. InFile'
    BY <2>1 DEF IInv, InFile, Handed, Typed, LoopTyped, RestTyped, InBatches, Filed
  <2> QED
    BY <2>1, <2>2 DEF IInv, Filed, Handed, InBatches
<1>14. CASE Forget
  BY <1>14 DEF Forget, Idle, IInv, Filed, Handed, InFile, InBatches
<1>15. CASE AckModel
  <2>1. /\ UNCHANGED <<event, file, history, shown>> /\ writing' = None /\ op' \in {"idle", "deliver"}
        /\ batch' = [batch EXCEPT !["llm"] = @ \ {writing}]
        /\ writing \in Keys /\ state' = [state EXCEPT ![writing]["llm"] = "acked"]
    BY <1>15 DEF AckModel, NextOfModel, Holds, Idle, IInv, Typed, RestTyped
  <2> QED
    BY <2>1 DEF IInv, Typed, LoopTyped, DiskTyped, RestTyped, Filed, Handed, InFile, InBatches
<1>16. CASE AppendFails
  <2>1. /\ UNCHANGED <<event, file, history, shown, state>> /\ writing' = None /\ op' \in {"idle", "deliver"}
        /\ batch' = [batch EXCEPT !["llm"] = @ \ {writing}]
    BY <1>16 DEF AppendFails, NextOfModel, Holds, Idle
  <2> QED
    BY <2>1 DEF IInv, Typed, LoopTyped, Filed, Handed, InFile, InBatches
<1>17. CASE Drain
  <2>1. /\ UNCHANGED <<event, file, history, shown, writing, batch, op>> /\ op = "idle" /\ batch["llm"] = {}
    BY <1>17 DEF Drain, Idle, IInv, InTurn
  <2>2. ASSUME NEW k \in Keys, NEW s \in Sinks
        PROVE  state'[k][s] = IF s = "llm" /\ Recovered[k]["llm"] = "pending" THEN "acked" ELSE Recovered[k][s]
    BY <1>17, RecoveredTyped DEF Drain, IInv
  <2>3. Filed'
    BY <1>0, <2>1, <2>2 DEF IInv, Filed
  <2>4. InBatches'
    BY <1>0, <2>1, <2>2 DEF IInv, InBatches, Typed, LoopTyped
  <2> QED
    BY <2>1, <2>3, <2>4 DEF IInv, Handed, InFile, InTurn
<1>18. CASE Crash
  BY <1>18 DEF Crash, Release, IInv, Filed, Handed, InFile, InBatches
<1>19. ASSUME NEW k \in Keys, NEW s \in Sinks, Age(k, s) PROVE Goal'
  BY <1>19 DEF Age, IInv, Typed, LoopTyped, DiskTyped, Filed, Handed, InFile, InBatches, InTurn
<1>20. ASSUME NEW s \in Sinks, Poll(s) PROVE Goal'
  BY <1>20 DEF Poll, Idle, Holds, IInv, Filed, Handed, InFile, InBatches, InTurn
<1>21. CASE UNCHANGED vars
  BY <1>21 DEF vars, IInv, Filed, Handed, InFile, InBatches
<1> QED
  BY <1>1, <1>2, <1>3, <1>4, <1>5, <1>6, <1>7, <1>8, <1>9, <1>10, <1>11, <1>12, <1>13, <1>14, <1>15,
     <1>16, <1>17, <1>18, <1>19, <1>20, <1>21 DEF Next, Loop

LEMMA InvStep == IInv /\ [Next]_vars => IInv'
BY TypedStep, InTurnStep, FilesStep DEF IInv

\* What a restart acknowledges for the model was given to it, and a claim is not acknowledged
\* under the reader's hands, whatever crashes and old claims lie between.
THEOREM HistoryShown == Spec => []HistoryWasShown
<1>1. IInv => HistoryWasShown
  BY DEF IInv, InFile, InBatches, HistoryWasShown
<1> QED
  BY <1>1, InvInit, InvStep, PTL DEF Spec

-----------------------------------------------------------------------------
(* The refinement.                                                         *)

\* What the deliveries stand for in the mailbox.
LEMMA BoxAt ==
  ASSUME NEW k \in Keys, NEW s \in Sinks
  PROVE  /\ state[k][s] = "absent" => Box[k][s] = "empty"
         /\ state[k][s] = "acked" => Box[k][s] = "closed"
         /\ state[k][s] \notin {"absent", "acked"} => Box[k][s] = "posted"
BY DEF Box

LEMMA BoxSame ==
  ASSUME \A k \in Keys, s \in Sinks :
           /\ state'[k][s] = "absent" <=> state[k][s] = "absent"
           /\ state'[k][s] = "acked" <=> state[k][s] = "acked"
  PROVE  UNCHANGED Box
BY DEF Box

LEMMA PlaceInit == Init => Mailboxes!Init
BY DEF Init, Mailboxes!Init, Box

\* One delivery moves on for one reader: closed when it was posted and seen.
LEMMA CloseStep ==
  ASSUME IInv, NEW s \in Sinks, NEW K \in SUBSET Keys, UNCHANGED shown,
         \A k \in K : state[k][s] \notin {"absent", "acked"} /\ (shown[k][s] > 0 \/ s = "llm"),
         \A k \in Keys, u \in Sinks :
            IF k \in K /\ u = s THEN state'[k][u] = "acked"
            ELSE /\ state'[k][u] = "absent" <=> state[k][u] = "absent"
                 /\ state'[k][u] = "acked" <=> state[k][u] = "acked"
  PROVE  Mailboxes!Close(K, s)
<1>1. \A k \in K : Box[k][s] = "posted"
  BY BoxAt
<1>2. Box' = [k \in Keys |-> [Box[k] EXCEPT ![s] = IF k \in K THEN "closed" ELSE @]]
  <2>1. ASSUME NEW k \in Keys, NEW u \in Sinks
        PROVE  Box'[k][u] = IF k \in K /\ u = s THEN "closed" ELSE Box[k][u]
    <3>1. CASE k \in K /\ u = s
      BY <3>1 DEF Box
    <3>2. CASE ~(k \in K /\ u = s)
      BY <3>2 DEF Box
    <3> QED
      BY <3>1, <3>2
  <2>2. Box' = [k \in Keys |-> [u \in Sinks |-> Box'[k][u]]]
    BY DEF Box
  <2>3. ASSUME NEW k \in Keys
        PROVE  [Box[k] EXCEPT ![s] = IF k \in K THEN "closed" ELSE @] = [u \in Sinks |-> Box'[k][u]]
    <3>1. Box[k] = [u \in Sinks |-> Box[k][u]]
      BY DEF Box
    <3> HIDE DEF Box
    <3> QED
      BY <2>1, <3>1
  <2> QED
    BY <2>2, <2>3 DEF Box
<1> QED
  BY <1>1, <1>2 DEF Mailboxes!Close

LEMMA SeeStep ==
  ASSUME IInv, NEW s \in Sinks, NEW k \in batch[s], UNCHANGED state,
         shown' = [shown EXCEPT ![k][s] = Once(@)]
  PROVE  Mailboxes!See(k, s)
<1>1. k \in Keys /\ state[k][s] \in {"claimed", "stale", "pending"}
  BY DEF IInv, Typed, LoopTyped, InBatches
<1>2. Box[k][s] = "posted"
  BY <1>1, BoxAt
<1>3. UNCHANGED Box
  BY BoxSame
<1> QED
  BY <1>1, <1>2, <1>3 DEF Mailboxes!See, Once

\* Every step is a step of the mailbox, or changes nothing in it.
LEMMA RefineStep == IInv /\ [Next]_vars => [Mailboxes!Next]_(Mailboxes!vars)
<1> SUFFICES ASSUME IInv, [Next]_vars PROVE [Mailboxes!Next]_(Mailboxes!vars)
  OBVIOUS
<1> USE Constants DEF loopVars, diskVars
<1>0. ASSUME UNCHANGED <<state, shown>> PROVE UNCHANGED Mailboxes!vars
  <2>1. UNCHANGED Box
    BY <1>0, BoxSame
  <2> QED
    BY <1>0, <2>1 DEF Mailboxes!vars
<1>1. ASSUME NEW k \in Keys, NEW s \in Sinks
      PROVE  /\ Recovered[k][s] = "absent" <=> state[k][s] = "absent"
             /\ Recovered[k][s] = "acked" <=> state[k][s] = "acked"
             /\ Recovered[k][s] = "pending" => state[k][s] \notin {"absent", "acked"}
  BY RecoveredPosted
<1>2. CASE PublishDelivery
  <2>1. /\ key \in Keys /\ event[key] = "event" /\ UNCHANGED shown
        /\ state' = [state EXCEPT ![key] = [s \in Sinks |-> "pending"]]
    BY <1>2 DEF PublishDelivery, IInv, Handed, Typed, InHand
  <2>2. \A s \in Sinks : Box[key][s] = "empty"
    BY <2>1, BoxAt DEF IInv, Filed
  <2>3. Box' = [Box EXCEPT ![key] = [s \in Sinks |-> "posted"]]
    BY <2>1 DEF Box, IInv, Typed, DiskTyped
  <2> QED
    BY <2>1, <2>2, <2>3 DEF Mailboxes!Post, Mailboxes!Next
<1>3. CASE Claim
  <2>1. PICK K \in SUBSET {k \in Keys : Recovered[k][sink] = "pending"} :
          state' = [k \in Keys |-> IF k \in K THEN [Recovered[k] EXCEPT ![sink] = "claimed"] ELSE Recovered[k]]
    BY <1>3 DEF Claim
  <2>2. ASSUME NEW k \in Keys, NEW s \in Sinks
        PROVE  state'[k][s] = IF k \in K /\ s = sink THEN "claimed" ELSE Recovered[k][s]
    BY <2>1, RecoveredTyped DEF IInv
  <2>3. UNCHANGED Box
    BY <1>1, <2>1, <2>2, BoxSame
  <2> QED
    BY <1>3, <2>3 DEF Claim, Mailboxes!vars
<1>4. ASSUME NEW k \in Keys, Show(k) PROVE Mailboxes!Next
  <2>1. /\ sink \in Sinks /\ k \in batch[sink] /\ UNCHANGED state
        /\ shown' = [shown EXCEPT ![k][sink] = Once(@)]
    BY <1>4 DEF Show, IInv, Typed, InHand
  <2>2. Mailboxes!See(k, sink)
    BY <2>1, SeeStep
  <2> QED
    BY <2>1, <2>2 DEF Mailboxes!Next
<1>5. ASSUME NEW k \in Keys, Append(k) PROVE Mailboxes!Next
  BY <1>5, SeeStep DEF Append, Mailboxes!Next
<1>6. CASE Ack
  <2>1. /\ key \in Keys /\ sink \in Sinks /\ UNCHANGED shown /\ shown[key][sink] > 0
        /\ state' = [state EXCEPT ![key][sink] = "acked"]
        /\ state[key][sink] \in {"claimed", "stale", "pending"}
    BY <1>6 DEF Ack, IInv, Handed, Typed, InHand, InBatches
  <2>2. Mailboxes!Close({key}, sink)
    BY <2>1, CloseStep DEF IInv, Typed, DiskTyped
  <2> QED
    BY <2>1, <2>2 DEF Mailboxes!Next
<1>7. CASE AckModel
  <2>1. /\ writing \in Keys /\ UNCHANGED shown
        /\ state' = [state EXCEPT ![writing]["llm"] = "acked"]
        /\ state[writing]["llm"] \in {"claimed", "stale", "pending"}
    BY <1>7 DEF AckModel, IInv, Handed, Typed, RestTyped, InBatches
  <2>2. Mailboxes!Close({writing}, "llm")
    BY <2>1, CloseStep DEF IInv, Typed, DiskTyped
  <2> QED
    BY <2>1, <2>2 DEF Mailboxes!Next
<1>8. CASE Resume
  <2> DEFINE K == {k \in file : state[k]["llm"] # "acked"}
  <2>1. ASSUME NEW k \in Keys, NEW s \in Sinks
        PROVE  state'[k][s] = IF k \in file /\ s = "llm" THEN "acked" ELSE state[k][s]
    BY <1>8 DEF Resume, IInv, Typed, DiskTyped
  <2>2. K \in SUBSET Keys /\ \A k \in K : state[k]["llm"] \notin {"absent", "acked"}
    BY DEF IInv, Typed, DiskTyped, Filed, InFile
  <2>3. UNCHANGED shown
    BY <1>8 DEF Resume
  <2>4. \A k \in Keys, u \in Sinks :
            IF k \in K /\ u = "llm" THEN state'[k][u] = "acked"
            ELSE /\ state'[k][u] = "absent" <=> state[k][u] = "absent"
                 /\ state'[k][u] = "acked" <=> state[k][u] = "acked"
    BY <2>1
  <2>5. Mailboxes!Close(K, "llm")
    BY <2>2, <2>3, <2>4, CloseStep
  <2> QED
    BY <2>2, <2>5 DEF Mailboxes!Next
<1>9. CASE Drain
  <2> DEFINE K == {k \in Keys : Recovered[k]["llm"] = "pending"}
  <2>1. ASSUME NEW k \in Keys, NEW s \in Sinks
        PROVE  state'[k][s] = IF s = "llm" /\ Recovered[k]["llm"] = "pending" THEN "acked" ELSE Recovered[k][s]
    BY <1>9, RecoveredTyped DEF Drain, IInv
  <2>2. \A k \in K : state[k]["llm"] \notin {"absent", "acked"}
    BY <1>1
  <2>3. UNCHANGED shown
    BY <1>9 DEF Drain
  <2>4. \A k \in Keys, u \in Sinks :
            IF k \in K /\ u = "llm" THEN state'[k][u] = "acked"
            ELSE /\ state'[k][u] = "absent" <=> state[k][u] = "absent"
                 /\ state'[k][u] = "acked" <=> state[k][u] = "acked"
    BY <1>1, <2>1
  <2>5. Mailboxes!Close(K, "llm")
    BY <2>2, <2>3, <2>4, CloseStep
  <2> QED
    BY <2>5 DEF Mailboxes!Next
<1>10. CASE Restart
  <2>1. UNCHANGED Box
    BY <1>1, <1>10, BoxSame DEF Restart
  <2> QED
    BY <1>10, <2>1 DEF Restart, Mailboxes!vars
<1>11. ASSUME NEW k \in Keys, NEW s \in Sinks, Age(k, s) PROVE UNCHANGED Mailboxes!vars
  <2>1. UNCHANGED Box
    BY <1>11, BoxSame DEF Age, IInv, Typed, DiskTyped
  <2> QED
    BY <1>11, <2>1 DEF Age, Mailboxes!vars
<1>12. ASSUME NEW k \in Keys, PublishEvent(k) \/ ShowFails(k) \/ TaskEnds(k) PROVE UNCHANGED Mailboxes!vars
  BY <1>0, <1>12 DEF PublishEvent, ShowFails, TaskEnds
<1>13. CASE WriteFile \/ AppendFails \/ TurnStarts \/ TurnEnds \/ Forget \/ Crash \/ UNCHANGED vars
  BY <1>0, <1>13 DEF WriteFile, AppendFails, TurnStarts, TurnEnds, Forget, Crash, vars
<1>14. ASSUME NEW s \in Sinks, Poll(s) PROVE UNCHANGED Mailboxes!vars
  BY <1>0, <1>14 DEF Poll
<1> QED
  BY <1>2, <1>3, <1>4, <1>5, <1>6, <1>7, <1>8, <1>9, <1>10, <1>11, <1>12, <1>13, <1>14 DEF Next, Loop

\* The files, claims, acknowledgements and restarts implement the mailbox: every notification
\* is shown at least once before it is closed for its reader, and never again after.
THEOREM Delivered == Spec => Delivers
<1>1. IInv /\ [Next]_vars => IInv' /\ [Mailboxes!Next]_(Mailboxes!vars)
  BY InvStep, RefineStep
<1> QED
  BY <1>1, InvInit, PlaceInit, PTL DEF Spec, Delivers, Mailboxes!Spec
=============================================================================
