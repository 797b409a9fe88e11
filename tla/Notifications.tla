--------------------------- MODULE Notifications ---------------------------
(***************************************************************************)
(* Notifications of a session: how the end of a background task reaches    *)
(* the model, the wire and the shell.                                      *)
(*   notifications/manager.py    publish, claim, deliver, acknowledge      *)
(*   notifications/store.py      event.json and delivery.json of each      *)
(*   notifications/notifier.py   the shell's watcher                       *)
(*   soul/kimisoul.py            the delivery to the model in a turn       *)
(*   soul/__init__.py            the delivery to the wire during a run     *)
(*   soul/context.py             the model's history, in memory and file   *)
(*   ui/print/__init__.py        the drain of the print loop               *)
(*   app.py                      the recovery at start-up                  *)
(*                                                                         *)
(* A delivery claims a batch for its sink, hands over one after the other  *)
(* and acknowledges each; every claim and acknowledgement rewrites the     *)
(* whole delivery.json.  All runs on one event loop.  The handlers of the  *)
(* shell and of the wire do not await, so their delivery holds the loop    *)
(* from its reconciliation to its last acknowledgement; the model's awaits *)
(* the context file with the message already in memory.  The process may   *)
(* crash between any two writes, the turn be cancelled at an await.        *)
(***************************************************************************)
EXTENDS Naturals, FiniteSets

CONSTANTS
  Keys,       \* dedupe keys: a task and how it ended
  Sinks,      \* "llm", "wire", "shell"
  None,
  Limit,      \* notifications claimed at once
  Budgets     \* bound: what there is to be told, how often the process crashes
              \* and how often a handler fails, one of these

ASSUME NotificationsAssumption ==
  /\ "llm" \in Sinks /\ Sinks \subseteq {"llm", "wire", "shell"}
  /\ None \notin Keys \cup Sinks /\ "restart" # None
  /\ Limit \in Nat \ {0}
  /\ Budgets \subseteq [keys : SUBSET Keys, crashes : Nat, faults : Nat]

VARIABLES
  up,       \* the process runs
  budget,   \* what is left of the session's budget
  due,      \* what reconcile finds to be told, kept in the tasks' own files
  event,    \* each notification's directory: none, event (no delivery.json), full
  state,    \* delivery.json: each sink's state; "stale" is claimed for too long
  op,       \* what holds the loop: idle, publish, write, deliver, ack
  sink,     \* for which sink, or at the restart
  key,      \* the notification in hand
  batch,    \* each sink's claimed batch that is still to be handed over
  ui,       \* the interface of the process: shell, or other (print, a wire server)
  turn,     \* a turn runs
  writing,  \* the notification whose message the turn writes to the context file
  history,  \* notifications in the model's history in memory
  file,     \* and in the context file
  shown     \* how often a handler was given it: 0, 1, or 2 for more

diskVars == <<event, state, file>>
loopVars == <<op, sink, key, batch>>
vars == <<up, budget, due, diskVars, loopVars, ui, turn, writing, history, shown>>

-----------------------------------------------------------------------------
UIs == {"shell", "other"}
States == {"absent", "pending", "claimed", "stale", "acked"}

\* mutant: the dedupe key is not looked up among what was acknowledged
UnpublishedAgain == {k \in due : event[k] = "none" \/ \A s \in Sinks : state[k][s] = "acked"}
\* mutant: the shell's watcher does not reconcile before it polls
UnpublishedInTurns == IF turn THEN {k \in due : event[k] = "none"} ELSE {}

\* What reconcile is going to publish: a key that has an event is deduplicated.
Unpublished == {k \in due : event[k] = "none"}

Idle == up /\ op = "idle"
Holds(o, s) == op' = o /\ sink' = s
Release == op' = "idle" /\ sink' = None /\ key' = None
Once(n) == IF n = 2 THEN 2 ELSE n + 1

\* mutant: an old claim is taken back under a name nobody looks for
RecoveredAs == [k \in Keys |-> [s \in Sinks |-> IF state[k][s] = "stale" THEN "expired" ELSE state[k][s]]]
\* mutant: only the sink that polls takes its old claims back
RecoveredOwn == [k \in Keys |-> [s \in Sinks |->
                  IF state[k][s] = "stale" /\ s = sink THEN "pending" ELSE state[k][s]]]

\* recover: a claim that is too old is pending again, for every sink.
Recovered == [k \in Keys |-> [s \in Sinks |-> IF state[k][s] = "stale" THEN "pending" ELSE state[k][s]]]

Init ==
  /\ up = TRUE /\ budget \in Budgets /\ due = {}
  /\ event = [k \in Keys |-> "none"] /\ state = [k \in Keys |-> [s \in Sinks |-> "absent"]]
  /\ op = "idle" /\ sink = None /\ key = None /\ batch = [s \in Sinks |-> {}]
  /\ ui \in UIs /\ turn = FALSE /\ writing = None /\ history = {} /\ file = {}
  /\ shown = [k \in Keys |-> [s \in Sinks |-> 0]]

\* A task ends and its record says so, whether the session is open or not.
TaskEnds(k) ==
  /\ k \in budget.keys \ due /\ due' = due \cup {k}
  /\ UNCHANGED <<up, budget, diskVars, loopVars, ui, turn, writing, history, shown>>

-----------------------------------------------------------------------------
(* One delivery: reconcile publishes what is due, then the batch is claimed*)
(* and handed over.                                                        *)

\* The model is told in turns, the wire while one runs, the shell at any time.
Poll(s) ==
  /\ Idle /\ (IF s = "shell" THEN ui = "shell" ELSE turn) /\ batch[s] = {} /\ (s = "llm" => writing = None)
  /\ Holds("publish", s)
  /\ UNCHANGED <<up, budget, due, diskVars, key, batch, ui, turn, writing, history, shown>>

\* publish: a key that has an event is never published again ...
PublishEvent(k) ==
  /\ up /\ op = "publish" /\ k \in Unpublished
  /\ event' = [event EXCEPT ![k] = "event"] /\ op' = "write" /\ key' = k
  /\ UNCHANGED <<up, budget, due, state, file, sink, batch, ui, turn, writing, history, shown>>

\* ... and its deliveries are written after the event.
PublishDelivery ==
  /\ up /\ op = "write" /\ event' = [event EXCEPT ![key] = "full"]
  /\ state' = [state EXCEPT ![key] = [s \in Sinks |-> "pending"]] /\ op' = "publish" /\ key' = None
  /\ UNCHANGED <<up, budget, due, file, sink, batch, ui, turn, writing, history, shown>>

\* claim_for_sink: up to Limit of the sink's pending notifications.
Claim ==
  /\ up /\ op = "publish" /\ Unpublished = {} /\ sink \in Sinks
  /\ LET pending == {k \in Keys : Recovered[k][sink] = "pending"} IN
     \E K \in SUBSET pending :
       /\ Cardinality(K) = IF Cardinality(pending) < Limit THEN Cardinality(pending) ELSE Limit
       /\ state' = [k \in Keys |-> IF k \in K THEN [Recovered[k] EXCEPT ![sink] = "claimed"]
                                   ELSE Recovered[k]]
       /\ batch' = [batch EXCEPT ![sink] = K]
       /\ IF K = {} THEN Release ELSE Holds("deliver", sink) /\ UNCHANGED key
  /\ UNCHANGED <<up, budget, due, event, file, ui, turn, writing, history, shown>>

\* Taking k from its batch; the loop goes on with the rest or is released.
Next1(k) ==
  /\ batch' = [batch EXCEPT ![sink] = @ \ {k}]
  /\ IF batch[sink] = {k} THEN Release ELSE Holds("deliver", sink) /\ key' = None

\* The shell or the wire is given k, and k is acknowledged for it.
Show(k) ==
  /\ up /\ op = "deliver" /\ sink # "llm" /\ k \in batch[sink]
  /\ shown' = [shown EXCEPT ![k][sink] = Once(@)] /\ op' = "ack" /\ key' = k
  /\ UNCHANGED <<up, budget, due, diskVars, sink, batch, ui, turn, writing, history>>

\* A handler that fails leaves its notification claimed.
ShowFails(k) ==
  /\ up /\ op = "deliver" /\ sink # "llm" /\ k \in batch[sink]
  /\ budget.faults > 0 /\ budget' = [budget EXCEPT !.faults = @ - 1] /\ Next1(k)
  /\ UNCHANGED <<up, due, diskVars, ui, turn, writing, history, shown>>

Ack ==
  /\ up /\ op = "ack" /\ state' = [state EXCEPT ![key][sink] = "acked"] /\ Next1(key)
  /\ UNCHANGED <<up, budget, due, event, file, ui, turn, writing, history, shown>>

-----------------------------------------------------------------------------
(* The delivery to the model, in a step of a turn.                         *)

\* append_message: the message is in memory, then the file is awaited.
Append(k) ==
  /\ up /\ op = "deliver" /\ sink = "llm" /\ k \in batch["llm"]
  /\ history' = history \cup {k} /\ shown' = [shown EXCEPT ![k]["llm"] = Once(@)]
  /\ writing' = k /\ Release
  /\ UNCHANGED <<up, budget, due, diskVars, batch, ui, turn>>

WriteFile ==
  /\ up /\ writing # None /\ writing \notin file /\ file' = file \cup {writing}
  /\ UNCHANGED <<up, budget, due, event, state, loopVars, ui, turn, writing, history, shown>>

\* The turn goes on with the rest of its batch, or with the step.
NextOfModel ==
  /\ writing' = None /\ batch' = [batch EXCEPT !["llm"] = @ \ {writing}]
  /\ IF batch["llm"] = {writing} THEN UNCHANGED <<op, sink>> ELSE Holds("deliver", "llm")

AckModel ==
  /\ Idle /\ writing # None /\ writing \in file
  /\ state' = [state EXCEPT ![writing]["llm"] = "acked"] /\ NextOfModel
  /\ UNCHANGED <<up, budget, due, event, file, key, ui, turn, history, shown>>

\* The file cannot be written: the message stays in memory and claimed.
AppendFails ==
  /\ Idle /\ writing # None /\ budget.faults > 0 /\ budget' = [budget EXCEPT !.faults = @ - 1] /\ NextOfModel
  /\ UNCHANGED <<up, due, diskVars, key, ui, turn, history, shown>>

TurnStarts ==
  /\ Idle /\ ~turn /\ turn' = TRUE
  /\ UNCHANGED <<up, budget, due, diskVars, loopVars, ui, writing, history, shown>>

\* mutant: the batch of a cancelled turn stays in its hands
TurnEndsHolding ==
  /\ Idle /\ turn /\ turn' = FALSE /\ writing' = None /\ UNCHANGED <<file, batch>>
  /\ UNCHANGED <<up, budget, due, event, state, op, sink, key, ui, history, shown>>

\* A turn ends, or is cancelled while it awaits the file: a thread may have
\* the line in hand and write it yet.  The rest of the batch stays claimed.
TurnEnds ==
  /\ Idle /\ turn /\ turn' = FALSE /\ writing' = None /\ batch' = [batch EXCEPT !["llm"] = {}]
  /\ file' \in {file, file \cup ({writing} \ {None})}
  /\ UNCHANGED <<up, budget, due, event, state, op, sink, key, ui, history, shown>>

\* A revert rebuilds the history from a part of the file; a compaction leaves a part
\* of the history, and writes it.
Forget ==
  /\ Idle /\ turn /\ writing = None
  /\ \E base \in {file, history} : \E K \in SUBSET base : file' = K /\ history' = K
  /\ UNCHANGED <<up, budget, due, event, state, loopVars, ui, turn, writing, shown>>

\* The print loop gives up what the model could not be told.
Drain ==
  /\ Idle /\ ui = "other" /\ ~turn
  /\ state' = [k \in Keys |-> IF Recovered[k]["llm"] = "pending"
                              THEN [Recovered[k] EXCEPT !["llm"] = "acked"] ELSE Recovered[k]]
  /\ UNCHANGED <<up, budget, due, event, file, loopVars, ui, turn, writing, history, shown>>

-----------------------------------------------------------------------------
(* Time, crash and restart.                                                *)

\* claim_stale_after_ms pass.
Age(k, s) ==
  /\ op = "idle" /\ state[k][s] = "claimed" /\ state' = [state EXCEPT ![k][s] = "stale"]
  /\ UNCHANGED <<up, budget, due, event, file, loopVars, ui, turn, writing, history, shown>>

Crash ==
  /\ up /\ budget.crashes > 0 /\ up' = FALSE /\ budget' = [budget EXCEPT !.crashes = @ - 1]
  /\ Release /\ batch' = [s \in Sinks |-> {}] /\ turn' = FALSE /\ writing' = None /\ history' = {}
  /\ UNCHANGED <<due, diskVars, ui, shown>>

\* The session is opened again, by whatever interface: recover, reconcile, ...
Restart ==
  /\ ~up /\ up' = TRUE /\ ui' \in UIs /\ state' = Recovered /\ Holds("publish", "restart")
  /\ UNCHANGED <<budget, due, event, file, key, batch, turn, writing, history, shown>>

\* ... and what the restored history holds is acknowledged for the model.
Resume ==
  /\ up /\ op = "publish" /\ sink = "restart" /\ Unpublished = {} /\ history' = file /\ Release
  /\ state' = [k \in Keys |-> IF k \in file THEN [state[k] EXCEPT !["llm"] = "acked"] ELSE state[k]]
  /\ UNCHANGED <<up, budget, due, event, file, batch, ui, turn, writing, shown>>

-----------------------------------------------------------------------------
\* What the loop goes on with by itself.
Loop ==
  \/ \E k \in Keys : PublishEvent(k) \/ Show(k) \/ ShowFails(k) \/ Append(k)
  \/ PublishDelivery \/ Claim \/ Ack \/ Resume \/ Restart

Next ==
  \/ Loop \/ WriteFile \/ AckModel \/ AppendFails \/ TurnStarts \/ TurnEnds
  \/ Forget \/ Drain \/ Crash
  \/ \E k \in Keys : TaskEnds(k) \/ \E s \in Sinks : Age(k, s)
  \/ \E s \in Sinks : Poll(s)

(* The loop runs on, the shell's watcher polls every second whatever else   *)
(* is polled, claims grow old.  Nobody need prompt the model.               *)
Fairness ==
  /\ WF_vars(Loop) /\ SF_vars(Poll("shell"))
  /\ \A k \in Keys : SF_vars(Age(k, "shell"))

Spec == Init /\ [][Next]_vars /\ Fairness

-----------------------------------------------------------------------------
TypeOK ==
  /\ up \in BOOLEAN /\ budget \in [keys : SUBSET Keys, crashes : Nat, faults : Nat]
  /\ due \subseteq Keys /\ event \in [Keys -> {"none", "event", "full"}]
  /\ state \in [Keys -> [Sinks -> States]]
  /\ op \in {"idle", "publish", "write", "deliver", "ack"} /\ sink \in Sinks \cup {None, "restart"}
  /\ key \in Keys \cup {None} /\ batch \in [Sinks -> SUBSET Keys]
  /\ ui \in UIs /\ turn \in BOOLEAN /\ writing \in Keys \cup {None}
  /\ history \subseteq Keys /\ file \subseteq Keys /\ shown \in [Keys -> [Sinks -> 0..2]]

\* What a restart acknowledges from the restored history, the model has been
\* given, and what is in a sink's hands is claimed or was given back to be
\* claimed again: it is never acknowledged under the reader's hands.
HistoryWasShown ==
  /\ \A k \in file \cup history : shown[k]["llm"] > 0 /\ event[k] = "full"
  /\ \A s \in Sinks : \A k \in batch[s] : state[k][s] \in {"claimed", "stale", "pending"}

\* For every reader: shown at least once before it is closed, never after,
\* whatever crashes, cancelled turns and old claims lie between.
Box == [k \in Keys |-> [s \in Sinks |->
         CASE state[k][s] = "absent" -> "empty" [] state[k][s] = "acked" -> "closed" [] OTHER -> "posted"]]
Mailboxes == INSTANCE Mailbox WITH box <- Box, seen <- shown, Model <- "llm"
Delivers == Mailboxes!Spec

\* The end of a task reaches the shell while one is open, unless a crash hit
\* between the two files of its notification: that one is never delivered.
DueIsShown ==
  \A k \in Keys :
    (k \in due /\ ui = "shell")
      ~> (state[k]["shell"] = "acked" \/ (event[k] = "event" /\ op # "write") \/ ui # "shell")

\* An old claim of the model's, whose delivery was cancelled, failed or
\* crashed, is given back while a shell is open, even if no turn runs again.
ClaimsAreReturned ==
  \A k \in Keys :
    (state[k]["llm"] = "stale" /\ ui = "shell") ~> (state[k]["llm"] # "stale" \/ ui # "shell")
=============================================================================
