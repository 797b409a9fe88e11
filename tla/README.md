# A TLA+ model of Cran Code's session runtime

Cran Code runs an LLM agent for several users at once. A browser talks over a
WebSocket to a FastAPI server; the server keeps one `SessionProcess` per session,
which supervises one worker process over a JSON-RPC pipe; in the worker a
`WireServer` drives a `KimiSoul` (turns, steps, tool calls), which asks the user
for approvals, starts subagents and background tasks, and records every message in
`wire.jsonl`. The modules here model the parts of that chain whose correctness
depends on the order in which tasks, processes and messages meet.

All code paths below are relative to `src/src/cran_code/`.

## The system

| Component | State it keeps | Operations | Talks to | What is hard |
|---|---|---|---|---|
| Session supervisor, `web/runner/process.py` `SessionProcess` | the worker process, in-flight prompt ids, status, cached and pending initialize, pending requests, read loop | start, stop, restart, send_message, read loop | clients (broadcast), worker (pipe) | an asyncio lock that the read loop does not take; a loop outliving its worker; crashes between any two awaits |
| Session endpoint, `web/api/sessions.py` `session_stream` | one coroutine per client | attach, replay history, forward messages | supervisor, `wire.jsonl` | unlocked busy check; history and live messages overlap |
| Wire server, `wire/server.py` | pending requests, cancel event, initialized flag | initialize, prompt, steer, cancel, responses, relay of the hub | soul, hub, pipe | every inbound message is a task of its own |
| Approvals, `approval_runtime/runtime.py`, `soul/approval.py` | request records, waiters, session-wide approvals | create, wait, resolve, cancel by source | hub, tools, wire server | a verdict crosses with a cancellation; a tool resumes after its verdict |
| Wire, `wire/__init__.py`, `utils/broadcast.py`, `soul/__init__.py` | raw and merged queues, merge buffer | send, flush, shutdown, record | UI loops, recorder | two queues with different timing; cancellation |
| Background tasks, `background/`, `tools/agent/` | `spec.json`, `runtime.json`, `control.json` of each task, the status of each agent instance | create, launch, kill, heartbeat, report, reconcile | worker processes, agent runners, notifications | manager, worker process and approval threads read-modify-write one file without a lock |
| Notifications, `notifications/` | `event.json` and `delivery.json` of each | publish, claim, deliver, acknowledge, recover | turn loop, wire, shell | a crash between two files, a batch cancelled half way, old claims |
| Turn loop and context, `soul/kimisoul.py`, `soul/context.py`, `soul/denwarenji.py` | history in memory and in `context.jsonl`, checkpoints, steer queue, D-Mail | step, compact, revert, clear, restore | provider, tools, wire server | cancellation at any await; a shielded task that outlives its turn |
| OAuth refresh, `auth/oauth.py` | the credentials file, each manager's cache, each process's rejected tokens | ensure_fresh, login, logout | every process of the user, the token server | a token that works once, two locks of which one is given up |
| Goal driver, `soul/goal.py` | `goal.json` | prepare, after_turn, pause, REST edits | wire server, REST | two writers, no lock |
| Hooks, subagents, toolset, key proxy, tunnel, session store | see `PROJECT.json` | | | |

What makes each part correct, in one line: the supervisor never believes in a
prompt that nobody runs, never kills a worker that runs one, and initializes each
worker exactly once; an approval is granted only on the user's word, every waiting
tool gets a verdict and no card stays on the screen for a request nobody waits on;
every message reaches the record and each client once and in order; what is told of a
task is what became of it; a notification is shown at least once before it is closed,
and never after; the context in memory is the one its file restores; no refresh token
is spent twice and none is lost from the file.

## Modules

| Module | What it is |
|---|---|
| `SessionProcess` | the supervisor, the endpoints that call it, and what the worker owes it |
| `MCSessionProcess` | its instances for TLC, with the symmetry of clients and ids |
| `SessionProcessProofs` | inductive invariants and theorems: status, initialize sent once and restored |
| `SessionProcessTyping` | typing, and the theorems about prompts in flight, open questions and deduped initializes |
| `Approvals` | the way of an approval from the tool to the screen and back, with the souls and runners whose ends settle it |
| `MCApprovals` | its instances for TLC |
| `ApprovalsProofs` | typing, and the theorems about verdicts, approvals for the session and grants, and that screen, table and runtime agree |
| `BackgroundTasks` | the files of background tasks, and the manager, worker processes, agent runners and threads that write them |
| `MCBackgroundTasks` | its instance for TLC |
| `BackgroundTasksProofs` | typing, and the theorems about notices, stops, final statuses and instances |
| `Mailbox` | the abstract promise of the notifications: posted, seen, closed |
| `Notifications` | the store, its claims and its three sinks; implements `Mailbox` |
| `MCNotifications` | its instance for TLC |
| `NotificationsProofs` | typing, what the history holds, and the refinement of `Mailbox` |
| `AgentTurn` | the turn loop over the context, in memory and in its file |
| `MCAgentTurn` | its instances for TLC |
| `AgentTurnProofs` | typing, and the theorem that the file restores to the context in memory |
| `AgentTurnHistoryProofs` | the theorems about D-Mails, pairs of calls and results, and steers |
| `OAuthRefresh` | refreshes of one account's token by any number of tasks, managers and processes |
| `MCOAuthRefresh` | its instances for TLC |
| `OAuthRefreshProofs` | typing, and the theorems about tokens spent twice and lost |

### SessionProcess

A step is the code between two awaits that can suspend. `holder` is the owner of
`_lock` and `pc` its position in `start`, `send_message`, `restart_worker` or
`stop_worker`; `call` says what each client's coroutine or the administrator is
executing, and with which message; `loop` is the position of each read loop, named
for the worker it was created for. The loops take no lock and read `self._process`
afresh at every use, exactly as `_read_loop` does, so a loop can be waiting on one
worker's stdout and then act on the next worker.

`wst`, `stdin`, `stdout`, `turn`, `asks` are the worker at the other end: it reads
in order, runs one turn at a time, refuses a second prompt with an error, and may
close its stdout or exit at any moment. A line in `stdout` survives its writer.

| Code | Actions |
|---|---|
| `session_stream`: connect, receive, busy check | `StreamConnect`, `StreamPrompt`, `StreamOther` |
| `send_message`: token refresh, gate, prompt, other messages, rollback | `TokenRefresh`, `SendPrompt`, `GateRefuses`, `GatePasses`, `SendControl`, `StartedSend`, `WritePrompt`, `DrainReturns`, `DrainRaises` |
| `start`, `_start_locked` | `Start`, `SpawnFails`, `SpawnWorks`, `Started` |
| `restart_worker`, `stop_worker`, `_stop_worker_locked` | `AdminCall`, `RestartSkipped`, `RestartBegins`, `StopBegins`, `Terminate`, `Reap`, `StopReturns` |
| `_read_loop`, `_handle_out_message` | `LoopReads`, `LoopWakes`, `LoopHandles`, `EofReaped`, `EofClears`, `EofEmits` |
| worker (`wire/server.py`, the operating system) | `WorkerReads`, `WorkerAsks`, `TurnEnds`, `WorkerCloses`, `WorkerExits` |

Abstracted: the texts of messages; the several broadcasts of one handler, which are
one step; the drain of a control message, which does not suspend below the pipe's
64 KiB mark (the drain of a prompt may); that a line of the worker too long to be read, or
not of the protocol, also throws a read loop out (`process.py:777-780`), which the model has
only for the two ways a crash does. Not modelled here: the order in which
several clients see broadcasts, usage metering, the annotated wire file.

### Approvals

One worker process: all its tasks run on one asyncio loop, so a step is the code
between two suspensions. `tool` is the state of each tool call that needs an approval,
`told` the result of the future it waits on, `status` and `response` its record in the
runtime. The two differ on purpose: a tool resumes some steps after its future was set,
and may be cancelled in between. `hub` is the root hub's queue, `out` the pipe to the
client, `serverPending` the wire server's table, `cards` the client's screen; `said`
remembers what the user answered, for the properties only.

A soul is run by a runner (`soul`, `runner`): the prompt handler, the `Agent` tool of a
turn, or a background task. They are kept apart because `run_soul` runs the soul as a
task of its own: cancelling the runner does not cancel the soul.

| Code | Actions |
|---|---|
| `Approval.request` | `ToolAsks`, `ToolResumes` (with `ApproveForSession`) |
| `ApprovalRuntime` | `Resolve`, `CancelBySource`, both a `Close` of what is pending |
| `WireServer._handle_initialize`, `_root_hub_loop`, `_handle_response` | `Initialize`, `HubRelays`, `UserAnswers` |
| `_handle_prompt`, `_handle_cancel`, `run_soul` | `StartTurn`, `CancelTurn`, `Unwind`, `PromptDone` |
| `KimiSoul.run`, `kosong.step` | `SoulEnds`, `StepFails` |
| `ForegroundSubagentRunner.run`, `BackgroundAgentRunner.run`, `BackgroundTaskManager.kill` | `StartAgent`, `RunnerEnds`, `KillAgent`, `AgentTimesOut` |
| a client of the wire protocol (external) | `ClientReads`, the first half of `UserAnswers` |

Abstracted: requests published in one step travel as one message with a set of ids; a
prompt runs one soul (the goal driver and the summary continuation run several, one
after the other); yolo and afk may be on or off at any ask; a soul takes its tools'
results into account by not ending while one waits. An answer and its handling are one
step: an answer under way while the request is settled is the same as an answer given
then, because the card leaves the screen only when the message about it is read. A
session starts with no approved action; one that is resumed starts with those of its
saved state, which the user approved in an earlier run.

### BackgroundTasks

A task is known by its `runtime.json` (`rt`), which three kinds of writers read whole,
change and write whole: the manager, the worker process of a shell command, and the
threads that note an agent's approvals. Each such pair is two steps where another writer
can come between: `mgr` is the manager's operation under way, which holds the event loop
but no process or thread; `wk[t].copy` is the record the worker has in hand; `upd` the
notes of approvals under way. `cmd` and `outcome` are what really became of the command
or the agent, which is what the properties compare the record and the notices with;
`orphan` holds the agents whose soul goes on without its runner. A crash stops the
session's process; workers and commands are sessions of their own.

| Code | Actions |
|---|---|
| `manager.py` `create_bash_task`, `store.py` `create_task`, `_launch_worker` | `BeginBash`, `WriteSpec`, `WriteFiles`, `Popen`, `PopenFails`, `LaunchRead`, `LaunchWrite` |
| `tools/agent/__init__.py`, `create_agent_task` | `BeginAgent`, `WriteSpec`, `WriteFiles` |
| `kill` | `Kill` |
| `reconcile`, `recover`, `publish_terminal_notifications`, `app.py` | `StartReconcile`, `Restart`, `Recover`, `RecoverRead`, `RecoverWrite`, `Publish` |
| `worker.py` | `StartRead`, `StartWrite`, `Check`, `Spawn`, `SpawnFails`, `RecordRead`, `RecordWrite`, `BeatRead`, `BeatWrite`, `ControlTerm`, `Timeout`, `ForceKill`, `Finish`, `FinishWrite` |
| `agent_runner.py` | `RunnerStart`, `AskApproval`, `GiveApproval`, `Apply`, `ThreadWrite`, `RunnerEnds`, `RunnerTimesOut`, `RunnerCancelled`, `RunnerGone` |
| `run_soul`, whose soul may outlive its runner | `SoulLeft` in the last two ends, `SoulEnds` |
| the operating system and time | `CommandEnds`, `WorkerDies`, `Age`, `Crash` |

Abstracted: times are two values, `fresh` and `stale`; a record keeps its status, whether
a finish time, a child and a heartbeat are in it. `recover` reads and writes the record
of an agent in one step. A runner's end is told to the instance and to the record
in one step, as nothing is awaited in between. A thread that would read a final record is
dropped, as it would write nothing. A worker that fails after it has spawned its command
(`worker.py:171-179` catches that, too) and the status a foreground subagent gives its
instance are left out. Whoever reads output or waits for a task changes nothing.

### Notifications and Mailbox

One event loop: `op`, `sink`, `key` say what holds it. The handlers of the shell and of
the wire do not await, so their delivery holds the loop to its last acknowledgement; the
model's awaits the context file, with the message already in `history` and `writing`
under way, and there the turn can be cancelled. `due` is what the tasks' own files say is
to be told; `state[k][s]` is the sink's entry in `delivery.json`, where `stale` stands for
a claim older than `claim_stale_after_ms`.

| Code | Actions |
|---|---|
| `manager.py` `publish`, `store.py` | `TaskEnds`, `PublishEvent`, `PublishDelivery` |
| `recover`, `claim_for_sink`, `deliver_pending`; `notifier.py` | `Poll`, `Claim`, `Show`, `ShowFails`, `Ack`, `Age` |
| `kimisoul.py` delivery in a step, `context.py` `append_message` | `Append`, `WriteFile`, `NextOfModel`, `AckModel`, `AppendFails` |
| turns, reverts and compactions as they touch the history | `TurnStarts`, `TurnEndsHolding`, `TurnEnds`, `Forget` |
| `ui/print/__init__.py` | `Drain` |
| `app.py` at start-up | `Crash`, `Restart`, `Resume` |

`Mailbox` knows nothing of files, claims or turns: a notification is posted to every
reader at once, seen any number of times, and closed for a reader only after he has seen
it, except for the model's copy, which the print loop may discard. `Delivers` is its
specification under the mapping `Box`.

### AgentTurn

`ctx` is the context in memory and `file` the lines of `context.jsonl`; `Restored(file)`
is what `restore()` would make of them. A call on the context is a job, a sequence of
instructions (`say`, `put`, `count`, `mark`, `clear`, `wipe`, `revert`, `load`), each
ended by an await of the code, where the turn may be cancelled (`Cuts` is what the thread
at work may have done by then), the file may refuse the write (`Failures`: memory has the
message already) and other tasks run. `_grow_context` is shielded and has a
job of its own, `grow`, which outlives the turn. `past` remembers the history behind each
checkpoint that has a line in the file, for the properties alone.

| Code | Actions |
|---|---|
| `Context.append_message`, `update_token_count`, `checkpoint`, `revert_to`, `clear` | `TurnRuns`, `GrowRuns` with `Effect`; `WriteFails`, `GrowFails` with `Failures` |
| `KimiSoul.run`, `_turn` | `Prompt`, `OpenTurn`, `ClearCommand`, `CommandDone`, `EndRun`, `Raise` |
| `_agent_loop` | `BeginLoop`, `BeginStep`, `TellCheckpoints`, `NextStep`, `Return` |
| `compact_context` | `Compact`, `CompactCommand`, `Rebuild`, `Overflow` |
| `_step` | `Inject`, `Answer`, `SendMail`, `ToolsEnd`, `Rejected`, `TurnBack`, `TurnBackFails`, `Resolve` |
| `steer`, `_consume_pending_steers` | `Steer`, `Consume`, `ConsumeFails` |
| the wire server's cancel, the machine, `Context.restore` | `Cancel`, `Crash`, `Restart` |

Abstracted: a message is a kind and a number; of the token counts only "messages since
the last count" is kept; the calls of a step are one call with one result; the system
prompt's line is left out, and a line is in the file whole or not at all, whatever cuts its
write. A failed write ends the turn, but for that of a notification, which
`deliver_pending` swallows. The way in which
`/clear` falls back to clearing in place has the same effect as the one modelled. The
retries of a model call, which change nothing here, are part of the wait for it. A new
turn's `_grow_context` begins after the old one's is through (a bound: the two then write
one after the other).

### OAuthRefresh

Refresh tokens are numbered as the server issues them; `live` holds those it takes. The
three guards are `owner` (the manager's asyncio lock), `flock` (the file lock between
processes, which `GoBare` gives up) and the third reading of the file in `Check`. `lost`,
`bare` and `out` remember that a token was lost on its way to the file, that a refresh
went on without the file lock, and that the user has logged out.

| Code | Actions |
|---|---|
| `ensure_fresh`, `_refresh_tokens` | `StartOn`, `Start`, `Enter`, `Check`, `Save`, `SaveFails`, `Rejected` |
| `_CrossProcessLock` | `Lock`, `GoBare` |
| `refresh_token` and the token server | `Send`, `SendFails`, `Revoke` |
| `login_kimi_code`, `logout_kimi_code` as they touch the file | `Login`, `Logout` |
| cancellation, the machine, time | `CancelTask`, `Crash`, `Age`, `Cool` |

Abstracted: the access token goes with its refresh token; two readings of the file with
no await between are one; a file that cannot be moved away is left out.

## What is checked

| Run | Instance | Question |
|---|---|---|
| `session_turns` | 2 clients, 2 prompts or 1 prompt and 1 request, 2 workers | Is the supervisor's belief about turns right, whatever crashes, restarts and races (`QuietMeansNotBusy`, `InFlightOwned`, `QuestionKept`)? |
| `session_initialize` | 1 client, 2 initializes, 1 prompt, 2 workers | Does each worker get the clients' initialize exactly once, and has everyone deduped an answer coming, unless the worker refused the first one with an error (`InitializeOnce`, `InitializeRestored`, `DedupedAwaitAnswer`)? |
| `session_liveness` | 1 client, 1 prompt, 1 cancel, 2 workers | Does every call return and every prompt settle (`CallsReturn`, `InFlightSettles`)? |
| `session_race_kill` | 2 clients, 1 prompt | Violated: a worker that runs a turn is killed (below) |
| `session_stuck_busy` | 1 client, 1 prompt | Violated: the status stays busy (below) |
| `approvals` | 1 turn, 1 subagent, 2 requests, 2 actions | Does a tool run only on the user's word (`GrantedByUser`), are tool and record of one mind (`VerdictIsFinal`), does an answer for the session hold once its tool has resumed (`SessionApprovalCovers`), does the screen show what is pending (`ScreenAgrees`)? |
| `approvals_live` | 1 turn, 1 subagent, 1 background agent, 1 request | `CardsAppear`, `DeadCardsGo`, `CancelledTurnEnds` |
| `approvals_orphan` | 1 turn, 1 subagent, 1 request | Violated: a subagent outlives its turn (below) |
| `background_tasks` | 1 command, 2 agents, 1 instance, at most 1 task running | Whoever overwrites whom, is what is told true, final and told at all (`NoticeTruthful`, `StopNeverCompletes`, `FinalKept`, `EndIsTold`), does a kill stop the command (`KillStops`), does one runner at a time work on an instance, and no soul besides but one left by a kill or a time-out (`OneRunnerPerInstance`)? |
| `notifications` | 2 notifications, model and shell, 2 claimed at once | Do files, claims and turns implement `Mailbox` (`Delivers`, `HistoryWasShown`), does the end of a task reach the shell (`DueIsShown`), are the claims of a cancelled turn given back (`ClaimsAreReturned`)? |
| `agent_turn` | 1 or 2 turns of 2 steps, nine mixes of events | Do memory and file say the same (`RestoresWhatWasSaid`), and if a write was cut or failed, is the file at least the memory with messages missing (`FileWithinMemory`), has every call its result (`CallsArePaired`), does a D-Mail turn back to the moment it names (`MailTurnsBack`), has a loop that returns shown the model every steer it accepted (`SteersAreAnswered`)? |
| `oauth_refresh` | 3 tasks, 2 managers in 2 processes, 3 tokens | Is no token spent twice and none lost (`NoTokenSpentTwice`, `CredentialsKept`), does everyone come to use the file's token (`AdoptsTheFile`), does every call end (`RefreshEnds`)? |

Bounds. `MaxGen` is the number of workers spawned for a session: two are needed for a
loop to meet a worker it was not created for, and a third brings no new position, as at
most one worker is alive and a loop acts on "its own" or "another" one. Two clients
make the unlocked busy check race with itself; two prompts make completions settle out
of order; `QuestionOrSecondPrompt` keeps a question and the second prompt out of one
behaviour, which only the theorems cover. Two requests are needed for an approval for the
session to reach another request, two actions for it to have one it must not reach; `MaxOut` bounds only how
much is under way when a client initializes again. What the theorems below state is
proved without any of these bounds. Clients, ids, requests and actions are
interchangeable, so the safety runs use symmetry; the liveness runs do not.
`CHECK_DEADLOCK FALSE` in the `Approvals` runs and in `agent_turn`: when every turn has
run and every request is settled, nothing is left to do.

The four later modules take a set `Budgets`: each of its members says how often the
bounded events (tasks, crashes, faults, cancels, steers, ...) may happen in one behaviour,
and `Init` chooses one. A single large budget would be out of TLC's reach; the members
are chosen so that every pair of events that disturb the same state meets in one of them.
`background_tasks`: a command with a crash (manager against worker against recovery), an
agent with a crash, two notes of approvals and a soul left behind (threads against the
runner and recovery), and two agents on one instance with `MaxRunning` 1, so that the second
is refused or resumes what the first has left: once with a note of an approval, once with a
soul left at work. `notifications`: one key with a crash and a failing
handler, two keys in one batch; a third brings no new position in a batch.
`agent_turn`: two turns are needed for a shielded `_grow_context` or a pending D-Mail to
meet a later turn, two steps for a D-Mail to be sent and applied in between, and two steers
for one to arrive while the other is consumed; compactions meet D-Mails, cancels and
crashes in different members; a failing write meets a second turn and a steer in one, a
notification, a D-Mail and a compaction in the other. `oauth_refresh`: two tasks of
one manager for the asyncio lock, another process for the file lock, three tokens so that a token lost is followed by
another refresh; logins, forced refreshes, faults, crashes and revocations two or three at
a time.

Fairness. `SessionProcess`: a step of whoever holds the lock, of a read loop and of the
worker is eventually taken, as the event loop runs every ready task and a turn ends; the
lock is fair to those who wait (strong fairness), as `asyncio.Lock` wakes them in order.
Nothing is assumed of clients, of crashes or of the administrator. `Approvals`: the hub
loop, the client's reader, a tool whose future is set and a runner that is cancelled or
whose soul is done are run; a soul that is being cancelled unwinds and ends. Nothing is
assumed of the user, of the provider, nor that a running soul ever ends by itself.
`BackgroundTasks`: an operation of the manager runs to its end, reconciliation comes round
again and a session that crashed is opened again (weak); a worker goes on (weak); its
control loop and the runners, which the heartbeat or a reconciliation may keep waiting, are
served in the end (strong); a worker that is no more comes to look stale. No command need
end, no user need answer. `Notifications`: the loop goes on (weak), the shell's watcher
polls every second whatever else is polled and claims grow old (strong); nobody need prompt
the model. `OAuthRefresh`: the background loops call `ensure_fresh` every minute (weak
fairness of `StartOn`), `asyncio.Lock` wakes its waiters in order (strong fairness of
`Enter`), the file lock is taken or given up after six tries (weak fairness of both
together, as the lock itself promises no order), requests have a time-out, a cooldown
passes. `AgentTurn` states none: its properties are safety properties.

## Where code and claims differ

* `NeverKillBusyWorker` (`web/runner/process.py:1158-1193`): the proxy token is
  refreshed, and the worker restarted, after a test that the session is idle which is
  made before the lock is taken; and a loop that wakes late clears the in-flight ids of
  a newer worker (`:634`). A second client's prompt that starts in between is killed.
* `BusyStatusSettles` (`web/runner/process.py:1271-1289`): a prompt whose write fails is
  taken back from the in-flight ids, but the busy status it announced stays.
* `SubagentsEndWithTurn` (`soul/__init__.py:218`): `run_soul` waits for the soul outside
  its `try`. Cancelled there, as the runner of a subagent is when its turn is cancelled
  or its step fails, it leaves the soul's task running: "the soul and all subagents are
  done" (`wire/server.py:784`) is not so.

The models also take these steps, which no run of its own reports. The properties say
where they stop holding because of one (`refused`, `revived`, `orphan`, `torn`, `stray`,
`era`, `lost`, `bare`, `out`), or speak of the part that stays true.

* Initialize. A worker answers an initialize that arrives during a turn with an error. The
  branch for errors (`web/runner/process.py:838`) leaves the pending initialize as it is, so
  the clients deduped behind it wait for good, although `:183-189` and `:1241-1243` say that
  they are answered (`DedupedAwaitAnswer` says `refused`).
* Approvals. The answer "for this session" is carried out by the tool that asked, when it
  resumes (`soul/approval.py:372`). If a failed step has cancelled that tool, before the
  user answered its card or between the answer and its resumption, the action is not
  approved and the next request asks again; `docs/en/guides/interaction.md:182` makes no
  such exception (`SessionApprovalCovers` does, for a tool that is gone).

* Background tasks. A thread that notes an approval (`agent_runner.py:207`) may write
  "running" over a final status, a worker given up on writes over "lost", and a heartbeat or
  the launch writes back an old copy: a final status is not final (`FinalKept` names the
  writers). An agent killed before its runner starts, or lost in a crash, leaves its
  instance at `running_background`, which nobody resumes. The soul of an agent that was
  killed or ran out of time may go on (`soul/__init__.py:218`, as above) while its instance
  is free: the agent that resumes it writes the same conversation at the same time, what the
  refusal in `tools/agent/__init__.py:176-183` is there to prevent. `OneRunnerPerInstance`
  says when (`orphan`). A crash between `spec.json` and
  `runtime.json` leaves a task that counts as active for ever. Workers that are given up
  and go on exceed `max_running_tasks` (`docs/en/guides/interaction.md:122`). A command
  whose worker dies before its process group is recorded cannot be stopped.
* Notifications. After a crash between `event.json` and `delivery.json` the event is
  deduplicated and never delivered (`DueIsShown` says so). A cancelled turn leaves its batch
  claimed for `claim_stale_after_ms`. A D-Mail's revert drops a notification that is
  acknowledged. The print loop acknowledges what the model has not seen.
* Turn loop. A steer accepted before the loop starts or while the Stop hook runs is
  discarded (`soul/kimisoul.py:997-999`), although the client was told that it was taken;
  one whose media the model cannot take is lost and fails the turn (`ConsumeFails`). One
  that is consumed at the last step allowed, or waits in the queue when a step, a compaction
  or a write raises, is not answered, although it was to reach the next step
  (`docs/en/customization/wire-mode.md:284`); `SteersAreAnswered` names these exits.
  A message whose write fails stays in memory and is not in the file
  (`soul/context.py:263-271`); where it is a notification the failure is swallowed
  (`notifications/manager.py:118-124`) and the turn goes on so, and where it is said by
  `_grow_context` the history keeps a call without its result
  (`soul/kimisoul.py:1467-1474`). A
  D-Mail of a cancelled or failed step stays pending and is applied by a later one. After
  a cancel has cut away the line of a checkpoint and the process has been restarted, a
  D-Mail to it finds no such line, and `revert_to` (`soul/context.py:170-204`) keeps the
  whole file: nothing is turned back (`MailTurnsBack` speaks of checkpoints that are known,
  the domain of `past`). The
  count of checkpoints the tools know is old after a compaction on overflow, so the
  assertion at `soul/kimisoul.py:1374` can fail (`TurnBackFails`). A cancel during a revert,
  a compaction or `/clear` leaves the file moved away or half written, and a shielded
  `_grow_context` writes into the next turn.
* OAuth. A refresh in flight undoes a `/logout` and overwrites a `/login`; a token whose
  answer is lost, whose turn is cancelled or whose process crashes before `Save` is gone,
  and the user has to log in again.

## What is proved

All theorems are of `Spec` and hold for any number of clients, prompts, respawns,
turns, subagents, requests, tasks, notifications, managers and processes, and for any
budgets. They assume what the modules assume of their constants (`SessionProcess`: the ids
and tasks are distinct, `MaxGen` is a natural number; `Approvals`: the three kinds of souls
are distinct, `None` is none of the values; `BackgroundTasks`, `Notifications`,
`OAuthRefresh` and `AgentTurn`: `TasksAssumption` with `NoneAssumption`,
`NotificationsAssumption`, `OAuthAssumption`, `AgentTurnAssumption`, which type the
constants and keep `None` apart). TLC evaluates every one of these assumptions.

* `SessionProcessTyping!TypeCorrect`: typing. The invariant adds where the owner of the
  lock stands and what it holds there (`ControlInv`).
* `InFlightOwnedCorrect` (`InFlightOwned`): `Owned` follows a prompt from the write through
  the worker's input, its turn and its output to the loop that handles the answer. Needs
  that the read loop of the current worker is the one in `_read_task`, and has not passed
  the end of the stream while that worker runs (`ReaderInv`): else the answers would be
  left unread, or read by a loop that drops them.
* `QuestionKeptCorrect` (`QuestionKept`): an action property from the same invariant. The
  only other writer is a loop at the end of its stream, and `ReaderInv` says that it is an
  earlier worker's.
* `QuietCorrect` (`QuietMeansNotBusy`): not inductive alone. Between the test that
  nobody is in flight and the announcement the lock is held, and during a spawn the
  in-flight set is empty (`SpawnsIdle`); `StatusInv` says so.
* `InitializeOnceCorrect`, `InitializeRestoredCorrect`: one invariant,
  `InitInv`, ties the count of initializes a running worker was sent to the flag
  `initialized`, the cached line and the pending id, at each position of the replay.
* `DedupedCorrect` (`DedupedAwaitAnswer`): that the pending id is set says nothing of an
  answer. `AnswerOwed` follows the initialize itself through the worker's input and output
  to the read loop that handles its answer, with `ReaderInv` as for `Owned`; `refused` is
  the one case in which the answer has come and the queue is left.
* `ApprovalsProofs!TypeCorrect`: that `auto` holds actions needs that a tool which waits
  has asked for one (`Asked`).
* `VerdictsFinal` (`VerdictIsFinal`): inductive as it stands once every step is shown to
  be of one of three kinds (`StepKinds`): a tool asks, a message moves, or records are
  settled only while pending.
* `SessionApprovalHolds` (`SessionApprovalCovers`): two invariants. `AutoCovers`: no request
  for an approved action is pending. `SessionTold` follows the user's answer from the
  record to the tool that waits, and from there into `auto`, or to the tool's
  cancellation. Both need that a tool that has not asked has no record (`Known`), which in
  turn needs that whatever is in a queue, in the table or on the screen has one.
* `GrantsBacked` (`GrantedByUser`): `Backed` and `AutoBacked` follow the user's word from
  the answer through the session's approvals to each tool that was told so.
* `ScreenCorrect` (`ScreenAgrees`): `Agreement` says what the table
  and the screen will be once the messages under way are applied, and that this is the
  set of pending requests. `After` defines that without recursion, as the last message
  that mentions a request decides; `AfterAppend` and `AfterHead` are its two laws, and
  `AfterLoss` the reason why a late answer, or the end of a prompt, does no harm.
* `BackgroundTasksProofs!TypeCorrect`: typing, with where the manager's operation stands.
* `NoticesAreTrue` (`NoticeTruthful`): a notice is made from a record, a record is written
  from a copy, and any of them may be old. The invariant (`Honest` for commands,
  `AgentsHonest` for agents) says of a final status wherever it is held, in the record, in
  the worker's copy or in a notice, that the fact it claims has happened. Facts are never
  undone, so an old copy stays true whoever writes it; what `Keeps` and `Alike` define, and
  the lemmas about them, carry that through the writers.
* `StopIsFinal` (`StopNeverCompletes`): the same invariant. That the command was running
  when its kill was asked for is such a fact, and rules out both statuses.
* `FinalIsKept` (`FinalKept`): an action property. Needs `LastWord`: only the last write of a
  worker, or its launch that fails, says how a command ended, so no living worker meets a
  record that says so.
* `OneRunner` (`OneRunnerPerInstance`): `OneAtWork` adds that an agent that has stopped
  working has a final record, so that no reconciliation finds it lost and takes the
  instance away from the agent that works on it now; `SoulsAccounted` that a soul without
  its runner is one whose task was killed or ran out of time.
* `NotificationsProofs!TypeCorrect`, `HistoryShown` (`HistoryWasShown`): `Filed` ties the
  deliveries to the two files, `Handed` says that what waits for its acknowledgement or is
  being written was shown, `InTurn` that nothing is in anybody's hands between turns and
  after a crash.
* `Delivered` (`Delivers`): `Spec` implements `Mailbox` under `Box`: every step posts, shows
  or closes, or is a stutter. From the same invariant.
* `AgentTurnProofs!TypeCorrect`: typing. `Restored` is a recursive function over the lines
  of a file. The library's induction theorems cannot be used, but a set of numbers has a
  least member (`NatLessThanWellFounded`, `WFMin`), and that is enough: what holds of every
  file is shown by its least counterexample (`Induction`, `SeqInduction`).
* `RestoredCorrect` (`RestoresWhatWasSaid`): between two instructions the file alone does
  not restore to the context. The invariant says what the jobs are made of, with each
  message followed by its write (`JobOK`, `GrowOK`), and that the file with the writes
  that are due (`Whole`) restores to the context in memory (`Consistent`). `WholeSteps`
  sorts the steps by what they do to both; a failed write is not among them, as memory and
  file part there, but it too leaves lines the model knows (`FailureIs`).
* `AgentTurnHistoryProofs!MailTurnsBackCorrect` (`MailTurnsBack`): the checkpoints of the
  file are in ascending order and below the next one, after any cut, any failed write and any
  restart (`Numbered`, `CutInOrder`), so what a revert keeps has exactly the
  checkpoints below its own; the
  history noted behind each checkpoint is what `Whole` restores to when it is cut there
  (`Remembered`); and a D-Mail, pending or under way, holds the one it names (`MailShape`,
  `MailTrue`).
* `CallsArePairedCorrect` (`CallsArePaired`): `Linked` says that the history is paired
  together with what `_grow_context` has still to say, and that so is everything a history
  may be made from: the jobs, the drafts of compactions, the noted pasts, and, while the
  process is down, the file with all its cuts.
* `EverySteerAnswered` (`SteersAreAnswered`): a steer the running loop
  accepted and the history does not have is in the queue (`Waiting`), and once the model
  has answered nothing remains in the history that it was not asked with (`Shown`). So a
  loop that returns owes no answer, and every other step out of a loop that does is one of
  those the property names (`EndsAnswered`).
* `OAuthRefreshProofs!NoSecondUse` (`NoTokenSpentTwice`) and `CredentialsSafe`
  (`CredentialsKept`): one invariant. Only the owner of the file lock, or one that went bare,
  is between `Check` and `Save` (`FileLocked`); the token it sends is one the server takes
  (`Sendable`); the token it is about to save nobody else has read (`Unread`), which is why
  another's refresh cannot spend it.

Only model-checked: the liveness properties (`InFlightSettles`, `CallsReturn`,
`CardsAppear`, `DeadCardsGo`, `CancelledTurnEnds`, `KillStops`, `EndIsTold`, `DueIsShown`,
`ClaimsAreReturned`, `AdoptsTheFile`, `RefreshEnds`), because fairness and ENABLED are out
of the prover's reach; and `FileWithinMemory`, which compares two histories message by
message, over every cut and failure, and would need an induction over both. Every other
invariant and action property of the passing runs is a theorem.

## Plan

1. `ClientReplay`: attach, history, replay buffer and live broadcasts of
   `session_stream`, over the lagging recorder (`Wire`: raw and merged queues, flush,
   shutdown); abstractly, each client sees every message once and in order.
2. `Goal`: two writers of `goal.json`; the session store's state file likewise.
3. `SessionRuntime`: `SessionProcess` and `Approvals` composed over one pipe, so that the
   supervisor's pending requests meet the worker's; then `AgentTurn` and `Notifications`
   over one history.
4. The key proxy's quotas, the tunnel's request table, parallel tool calls and the
   deferred start of MCP servers.

The runs are kept few enough to be repeated on every change: a component that joins
replaces a run that a composition makes redundant. Theorems still worth proving: the
refinement of `ClientReplay`, and the invariants of the compositions.

Not modelled, because it is input and output, presentation or third-party protocol: the
terminal and web user interfaces, providers, tools' own work, the plugin loader, the device
authorization at login. `PROJECT.json` lists them one by one, with those of the plan.
