-------------------------- MODULE BackgroundTasks --------------------------
(***************************************************************************)
(* Background tasks of a session: what their files say and what they are.  *)
(*   background/manager.py       BackgroundTaskManager                     *)
(*   background/store.py         the files of a task: spec, runtime, ...   *)
(*   background/worker.py        the process that runs one shell command   *)
(*   background/agent_runner.py  the asyncio task that runs one agent      *)
(*   tools/agent/__init__.py     the Agent tool that starts or resumes one *)
(*   app.py                      the reconciliation at start-up            *)
(*                                                                         *)
(* A task is known by its runtime.json.  Nobody locks it: the manager, the *)
(* worker process of a shell command and the threads that note an agent's  *)
(* approvals each read the whole record, change a few fields and write the *)
(* whole record back.  Every such pair is two steps here when the two can  *)
(* be separated by another writer: a manager's pair by the worker process, *)
(* a thread's pair by the event loop.  The manager, the runners and the    *)
(* approvals share one event loop, so a manager's operation under way (mgr)*)
(* keeps the other steps of the loop waiting, but not the processes and    *)
(* threads.  A crash stops the session's process between any two steps;    *)
(* workers and commands are sessions of their own and go on.               *)
(***************************************************************************)
EXTENDS Naturals, FiniteSets

CONSTANTS
  Bash,       \* tasks that run a shell command
  Agents,     \* tasks that run an agent instance
  Instances,  \* agent instances of the subagent store
  None,
  MaxRunning, \* max_running_tasks of the configuration
  Budgets     \* bound: which tasks a session creates, how often it crashes, how
              \* many approvals its agents ask for and how many souls go on
              \* without their runner, one of these

Tasks == Bash \cup Agents

ASSUME TasksAssumption ==
  /\ Bash \cap Agents = {} /\ IsFiniteSet(Tasks)
  /\ None \notin Tasks \cup Instances
  /\ MaxRunning \in Nat
  /\ Budgets \subseteq [tasks : SUBSET Tasks, crashes : Nat, asks : Nat, souls : Nat]

VARIABLES
  up,       \* the session's process is running
  budget,   \* what is left of the session's budget
  mgr,      \* the manager's operation under way and what it is at
  files,    \* of each task's directory: absent, spec (only spec.json), full
  rt,       \* runtime.json
  kill,     \* control.json asks for a kill, or the agent task was killed
  wk,       \* the worker process: where it is and the record it has read
  cmd,      \* the shell command: none, run, or its result ok or bad
  run,      \* the runner of an agent: none, queued, core, cancelling, ended, gone
  outcome,  \* how the runner ended, None before
  waits,    \* a tool of the agent waits for an approval
  upd,      \* the notes of approvals under way: no, task, read
  orphan,   \* agents whose soul goes on although their runner has ended
  agentOf,  \* the instance an agent task runs
  inst,     \* the status of each instance
  notices,  \* the notifications published, as (task, reason)
  revived,  \* history: tasks whose final status was replaced by one that is not
  stopped   \* history: commands that were running when their kill was asked for

diskVars == <<files, rt, kill, inst, notices, agentOf>>
workerVars == <<wk, cmd>>
agentVars == <<run, outcome, waits, upd, orphan>>
vars == <<up, budget, mgr, diskVars, workerVars, agentVars, revived, stopped>>

-----------------------------------------------------------------------------
\* "timed_out" stands for the status "failed" with timed_out set.
Finals == {"completed", "failed", "timed_out", "killed", "lost"}
ASSUME NoneAssumption == None \notin Finals
Statuses == {"created", "starting", "running", "awaiting_approval"} \cup Finals
Records == [status : Statuses, fin : BOOLEAN, seen : {"fresh", "stale"}, child : BOOLEAN]
NewRecord == [status |-> "created", fin |-> FALSE, seen |-> "fresh", child |-> FALSE]
Pcs == {"none", "start", "starting", "check", "spawn", "record", "recording",
        "wait", "beat", "exit", "writing", "done", "dead"}
Ops == {"idle", "spec", "files", "popen", "read", "launch", "recover", "giveup", "publish"}
Notes == {"awaiting_approval", "running"}

IsFinal(t) == rt[t].status \in Finals
Listed == {t \in Tasks : files[t] # "absent"}
Active == {t \in Listed : ~IsFinal(t)}
Live(t) == run[t] \in {"queued", "core", "cancelling", "ended"}
WorkerAlive(t) == wk[t].pc \notin {"none", "done", "dead"}
Busy(op, t) == mgr.op = op /\ mgr.task = t
LoopFree == up /\ mgr.op = "idle"
Idle == [op |-> "idle", task |-> None, todo |-> {}]
At(op, t) == [op |-> op, task |-> t, todo |-> {}]

\* write_runtime: the whole record is replaced.
Write(t, record) ==
  /\ rt' = [rt EXCEPT ![t] = record]
  /\ revived' = IF IsFinal(t) /\ record.status \notin Finals THEN revived \cup {t} ELSE revived

\* The marks made on the event loop: a final status is left alone.
Mark(t, status) ==
  IF IsFinal(t) THEN UNCHANGED <<rt, revived>>
  ELSE Write(t, [rt[t] EXCEPT !.status = status, !.fin = status \in Finals])

Init ==
  /\ up = TRUE /\ budget \in Budgets /\ mgr = Idle
  /\ files = [t \in Tasks |-> "absent"] /\ rt = [t \in Tasks |-> NewRecord]
  /\ kill = [t \in Tasks |-> FALSE]
  /\ wk = [t \in Bash |-> [pc |-> "none", copy |-> NewRecord, timedOut |-> FALSE, sent |-> FALSE]]
  /\ cmd = [t \in Bash |-> "none"]
  /\ run = [t \in Agents |-> "none"] /\ outcome = [t \in Agents |-> None]
  /\ waits = [t \in Agents |-> FALSE] /\ upd = [t \in Agents |-> [n \in Notes |-> "no"]]
  /\ orphan = {} /\ agentOf = [t \in Agents |-> None] /\ inst = [i \in Instances |-> "idle"]
  /\ notices = {} /\ revived = {} /\ stopped = {}

-----------------------------------------------------------------------------
(* Creation.  Nothing in it awaits, so the loop does nothing else.         *)

Room == Cardinality(Active) < MaxRunning
CanCreate(t) == LoopFree /\ files[t] = "absent" /\ t \in budget.tasks

\* create_bash_task: refused when too many tasks are active.
BeginBash(t) ==
  /\ t \in Bash /\ CanCreate(t) /\ Room /\ mgr' = At("spec", t)
  /\ UNCHANGED <<up, budget, diskVars, workerVars, agentVars, revived, stopped>>

\* mutant: an instance may be resumed while a background task runs it
ResumableAnyway(i) == inst[i] # "running_foreground"

Resumable(i) == inst[i] # "running_background"

\* The Agent tool: an instance that is running is not resumed; one that is
\* not is marked first, and the mark is taken back when too many tasks run.
BeginAgent(t, i) ==
  /\ t \in Agents /\ CanCreate(t) /\ Resumable(i)
  /\ IF Room THEN /\ inst' = [inst EXCEPT ![i] = "running_background"]
                  /\ mgr' = At("spec", t) /\ agentOf' = [agentOf EXCEPT ![t] = i]
     ELSE inst' = [inst EXCEPT ![i] = "idle"] /\ UNCHANGED <<mgr, agentOf>>
  /\ UNCHANGED <<up, budget, files, rt, kill, notices, workerVars, agentVars, revived, stopped>>

\* create_task writes spec.json, and from then on the task is listed, ...
WriteSpec(t) ==
  /\ up /\ Busy("spec", t) /\ files' = [files EXCEPT ![t] = "spec"] /\ mgr' = At("files", t)
  /\ UNCHANGED <<up, budget, rt, kill, inst, notices, agentOf, workerVars, agentVars, revived, stopped>>

\* ... then runtime.json and the others.  An agent's runner is only queued.
WriteFiles(t) ==
  /\ up /\ Busy("files", t) /\ files' = [files EXCEPT ![t] = "full"]
  /\ IF t \in Bash THEN mgr' = At("popen", t) /\ UNCHANGED <<rt, revived, run>>
     ELSE /\ Mark(t, "starting") /\ run' = [run EXCEPT ![t] = "queued"] /\ mgr' = Idle
  /\ UNCHANGED <<up, budget, kill, inst, notices, agentOf, workerVars, outcome, waits, upd, orphan, stopped>>

Popen(t) ==
  /\ up /\ Busy("popen", t) /\ wk' = [wk EXCEPT ![t].pc = "start"] /\ mgr' = At("read", t)
  /\ UNCHANGED <<up, budget, diskVars, cmd, agentVars, revived, stopped>>

PopenFails(t) ==
  /\ up /\ Busy("popen", t) /\ Mark(t, "failed") /\ mgr' = Idle
  /\ UNCHANGED <<up, budget, files, kill, inst, notices, agentOf, workerVars, agentVars, stopped>>

\* The manager looks at what the worker has written meanwhile, ...
LaunchRead(t) ==
  /\ up /\ Busy("read", t)
  /\ mgr' = IF rt[t].status = "created" THEN At("launch", t) ELSE Idle
  /\ UNCHANGED <<up, budget, diskVars, workerVars, agentVars, revived, stopped>>

\* ... and writes the record it has read, as "starting".
LaunchWrite(t) ==
  /\ up /\ Busy("launch", t) /\ mgr' = Idle
  /\ Write(t, [NewRecord EXCEPT !.status = "starting"])
  /\ UNCHANGED <<up, budget, files, kill, inst, notices, agentOf, workerVars, agentVars, stopped>>

-----------------------------------------------------------------------------
(* Kill, reconciliation, crash and restart.                                *)

\* The pending approvals of the task are cancelled and its runner hears of it.
Settled(t) == IF waits[t] THEN [upd EXCEPT ![t]["running"] = IF @ = "no" THEN "task" ELSE @] ELSE upd

\* kill: the record of an agent is marked and its runner cancelled, or it
\* never begins; of a command only control.json is written.
Kill(t) ==
  /\ LoopFree /\ t \in Listed /\ ~IsFinal(t) /\ kill' = [kill EXCEPT ![t] = TRUE]
  /\ IF t \in Bash THEN UNCHANGED <<rt, revived, run, waits, upd>>
     ELSE /\ Mark(t, "killed")
          /\ waits' = [waits EXCEPT ![t] = FALSE] /\ upd' = Settled(t)
          /\ run' = [run EXCEPT ![t] = CASE @ = "queued" -> "gone" [] @ = "core" -> "cancelling"
                                         [] OTHER -> @]
  /\ stopped' = IF t \in Bash /\ cmd[t] = "run" THEN stopped \cup {t} ELSE stopped
  /\ UNCHANGED <<up, budget, mgr, files, inst, notices, agentOf, workerVars, outcome, orphan>>

\* mutant: an agent that has finished is not left alone
DeadOrDone == {t \in Listed \cap Agents : ~Live(t)}

\* The agents recover declares lost: not final, and not run by this process.
Dead == {t \in Active \cap Agents : ~Live(t)}

\* recover: agents are lost on the spot, the commands are looked at one by one.
Recover ==
  /\ mgr' = [op |-> "recover", task |-> None, todo |-> Active \cap Bash]
  /\ rt' = [t \in Tasks |-> IF t \in Dead THEN [rt[t] EXCEPT !.status = "lost", !.fin = TRUE] ELSE rt[t]]
  /\ inst' = [i \in Instances |->
                IF inst[i] = "running_background" /\ \E t \in Dead : agentOf[t] = i
                THEN "failed" ELSE inst[i]]
  /\ UNCHANGED <<budget, files, kill, notices, agentOf, workerVars, agentVars, revived, stopped>>

StartReconcile == LoopFree /\ Recover /\ UNCHANGED up

\* mutant: only workers that were seen running are given up
GivenUpRunning(t) == rt[t].status = "running" /\ rt[t].seen = "stale"

GivenUp(t) == ~IsFinal(t) /\ rt[t].seen = "stale"

\* A command whose worker has given no sign of life for long: the manager
\* reads the record once more, ...
RecoverRead(t) ==
  /\ up /\ mgr.op = "recover" /\ t \in mgr.todo \cap Bash
  /\ LET todo == mgr.todo \ {t} IN
     mgr' = IF GivenUp(t)
            THEN [op |-> "giveup", task |-> t, todo |-> todo] ELSE [mgr EXCEPT !.todo = todo]
  /\ UNCHANGED <<up, budget, diskVars, workerVars, agentVars, revived, stopped>>

\* ... and gives it up.  The rest of the record is what it has read, but of
\* a final record nobody reads that.
RecoverWrite(t) ==
  /\ up /\ Busy("giveup", t) /\ mgr' = [mgr EXCEPT !.op = "recover", !.task = None]
  /\ Write(t, [rt[t] EXCEPT !.status = IF kill[t] THEN "killed" ELSE "lost", !.fin = TRUE])
  /\ UNCHANGED <<up, budget, files, kill, inst, notices, agentOf, workerVars, agentVars, stopped>>

\* publish_terminal_notifications: one for each task and reason, ever.
Publish ==
  /\ up /\ mgr.op = "recover" /\ mgr.todo = {} /\ mgr' = Idle
  /\ notices' = notices \cup {<<t, rt[t].status>> : t \in Listed \ Active}
  /\ UNCHANGED <<up, budget, files, rt, kill, inst, agentOf, workerVars, agentVars, revived, stopped>>

Crash ==
  /\ up /\ budget.crashes > 0 /\ up' = FALSE /\ mgr' = Idle
  /\ budget' = [budget EXCEPT !.crashes = @ - 1]
  /\ run' = [t \in Agents |-> IF Live(t) THEN "gone" ELSE run[t]]
  /\ waits' = [t \in Agents |-> FALSE] /\ upd' = [t \in Agents |-> [n \in Notes |-> "no"]]
  /\ orphan' = {}
  /\ UNCHANGED <<diskVars, workerVars, outcome, revived, stopped>>

\* The session is opened again and reconciled before anything else.
Restart == ~up /\ up' = TRUE /\ Recover

-----------------------------------------------------------------------------
(* The worker process of a shell command: one event loop, so its heartbeat *)
(* and its control loop do not come between its own reads and writes.      *)

WorkerKeeps == UNCHANGED <<up, budget, mgr, files, kill, inst, notices, agentOf, agentVars, stopped>>

\* One step of the worker: from pc to pc, with the record it holds.
Goto(t, from, to) == wk[t].pc = from /\ wk' = [wk EXCEPT ![t].pc = to]
Reads(t, from, to) ==
  /\ wk[t].pc = from /\ wk' = [wk EXCEPT ![t].pc = to, ![t].copy = rt[t]]
  /\ WorkerKeeps /\ UNCHANGED <<rt, revived, cmd>>
Writes(t, from, to, record) ==
  /\ wk[t].pc = from /\ wk' = [wk EXCEPT ![t].pc = to, ![t].copy = NewRecord]
  /\ Write(t, record) /\ WorkerKeeps /\ UNCHANGED cmd

StartRead(t) == Reads(t, "start", "starting")
StartWrite(t) ==
  Writes(t, "starting", "check", [wk[t].copy EXCEPT !.status = "starting", !.seen = "fresh"])

\* A task whose kill was asked for before its command runs never runs it.
Check(t) ==
  IF kill[t] THEN Writes(t, "check", "done", [rt[t] EXCEPT !.status = "killed", !.fin = TRUE])
  ELSE /\ Goto(t, "check", "spawn") /\ WorkerKeeps /\ UNCHANGED <<rt, revived, cmd>>

Spawn(t) ==
  /\ Goto(t, "spawn", "record") /\ cmd' = [cmd EXCEPT ![t] = "run"]
  /\ WorkerKeeps /\ UNCHANGED <<rt, revived>>

SpawnFails(t) == Writes(t, "spawn", "done", [rt[t] EXCEPT !.status = "failed", !.fin = TRUE])

\* The command's process is recorded, whatever the record says meanwhile.
RecordRead(t) == Reads(t, "record", "recording")
RecordWrite(t) ==
  Writes(t, "recording", "wait",
         [wk[t].copy EXCEPT !.status = "running", !.seen = "fresh", !.child = TRUE])

\* A heartbeat; the loop is over once it reads that the task has finished.
BeatRead(t) == ~rt[t].fin /\ Reads(t, "wait", "beat")
BeatWrite(t) == Writes(t, "beat", "wait", [wk[t].copy EXCEPT !.seen = "fresh"])

\* The control loop sends SIGTERM once a kill is asked for, the wait for the
\* command when it has timed out; a command may ignore it.
ControlTerm(t) ==
  /\ wk[t].pc = "wait" /\ cmd[t] = "run" /\ kill[t] /\ ~wk[t].sent
  /\ wk' = [wk EXCEPT ![t].sent = TRUE] /\ WorkerKeeps /\ UNCHANGED <<rt, revived, cmd>>

Timeout(t) ==
  /\ wk[t].pc = "wait" /\ cmd[t] = "run" /\ ~wk[t].timedOut
  /\ wk' = [wk EXCEPT ![t].timedOut = TRUE, ![t].sent = TRUE]
  /\ WorkerKeeps /\ UNCHANGED <<rt, revived, cmd>>

\* mutant: the grace period of a kill is never over
ForceTimeout(t) ==
  /\ wk[t].pc = "wait" /\ cmd[t] = "run" /\ wk[t].timedOut
  /\ cmd' = [cmd EXCEPT ![t] = "bad"] /\ WorkerKeeps /\ UNCHANGED <<rt, revived, wk>>

\* After the grace period comes SIGKILL.
ForceKill(t) ==
  /\ wk[t].pc = "wait" /\ cmd[t] = "run" /\ wk[t].sent
  /\ cmd' = [cmd EXCEPT ![t] = "bad"] /\ WorkerKeeps /\ UNCHANGED <<rt, revived, wk>>

\* The command ends by itself or by a signal, with its worker or without.
CommandEnds(t) ==
  /\ cmd[t] = "run" /\ \E result \in {"ok", "bad"} : cmd' = [cmd EXCEPT ![t] = result]
  /\ WorkerKeeps /\ UNCHANGED <<rt, revived, wk>>

\* mutant: the result is looked at before the kill
VerdictByResult(t) == IF wk[t].timedOut THEN "timed_out" ELSE IF cmd[t] = "ok" THEN "completed"
                      ELSE IF kill[t] THEN "killed" ELSE "failed"
\* mutant: whatever did not time out and was not killed is completed
VerdictBlind(t) == IF wk[t].timedOut THEN "timed_out" ELSE IF kill[t] THEN "killed" ELSE "completed"

Verdict(t) == IF wk[t].timedOut THEN "timed_out" ELSE IF kill[t] THEN "killed"
              ELSE IF cmd[t] = "ok" THEN "completed" ELSE "failed"

\* The command has ended: what to report is decided, ...
Finish(t) ==
  /\ cmd[t] # "run" /\ wk[t].pc = "wait"
  /\ wk' = [wk EXCEPT ![t].pc = "writing",
              ![t].copy = [NewRecord EXCEPT !.fin = TRUE, !.child = TRUE, !.status = Verdict(t)]]
  /\ WorkerKeeps /\ UNCHANGED <<rt, revived, cmd>>

\* ... and written over whatever the record says.
FinishWrite(t) == Writes(t, "writing", "done", wk[t].copy)

\* The worker process dies; its command is a session of its own.
WorkerDies(t) ==
  /\ WorkerAlive(t) /\ wk' = [wk EXCEPT ![t].pc = "dead", ![t].copy = NewRecord]
  /\ WorkerKeeps /\ UNCHANGED <<rt, revived, cmd>>

\* worker_stale_after_ms pass without a sign of life: the worker is gone,
\* slow or suspended.  Of a task without a runtime.json none ever passes.
Age(t) ==
  /\ t \in Bash /\ files[t] = "full" /\ ~IsFinal(t) /\ rt[t].seen = "fresh"
  /\ rt' = [rt EXCEPT ![t].seen = "stale"]
  /\ UNCHANGED <<up, budget, mgr, files, kill, inst, notices, agentOf, workerVars, agentVars, revived, stopped>>

-----------------------------------------------------------------------------
(* The runner of an agent, on the session's event loop.                    *)

RunnerKeeps == UNCHANGED <<up, mgr, files, kill, notices, agentOf, workerVars, stopped>>

RunnerStart(t) ==
  /\ LoopFree /\ run[t] = "queued" /\ run' = [run EXCEPT ![t] = "core"] /\ Mark(t, "running")
  /\ RunnerKeeps /\ UNCHANGED <<budget, inst, outcome, waits, upd, orphan>>

\* A tool of the agent asks for an approval and gets an answer; the runner
\* is told of both and makes a task of each.
AskApproval(t) ==
  /\ LoopFree /\ run[t] = "core" /\ ~waits[t] /\ upd[t]["awaiting_approval"] = "no"
  /\ waits' = [waits EXCEPT ![t] = TRUE]
  /\ upd' = [upd EXCEPT ![t]["awaiting_approval"] = "task"]
  /\ budget.asks > 0 /\ budget' = [budget EXCEPT !.asks = @ - 1]
  /\ RunnerKeeps /\ UNCHANGED <<rt, revived, inst, run, outcome, orphan>>

GiveApproval(t) ==
  /\ LoopFree /\ waits[t] /\ upd[t]["running"] = "no"
  /\ waits' = [waits EXCEPT ![t] = FALSE] /\ upd' = Settled(t)
  /\ RunnerKeeps /\ UNCHANGED <<budget, rt, revived, inst, run, outcome, orphan>>

\* _apply_approval_runtime_event hands the mark to a thread, that of an
\* answer only when no other approval is pending, and the thread reads the
\* record.  (One that reads later sees the same or a final status, and then
\* does nothing: it might as well have been dropped.)
Apply(t, n) ==
  /\ LoopFree /\ upd[t][n] = "task"
  /\ upd' = [upd EXCEPT ![t][n] = IF IsFinal(t) \/ (n = "running" /\ waits[t]) THEN "no" ELSE "read"]
  /\ RunnerKeeps /\ UNCHANGED <<budget, rt, revived, inst, run, outcome, waits, orphan>>

\* The thread writes the record, which may have become final meanwhile.
ThreadWrite(t, n) ==
  /\ up /\ upd[t][n] = "read" /\ upd' = [upd EXCEPT ![t][n] = "no"]
  /\ Write(t, [rt[t] EXCEPT !.status = n, !.fin = FALSE])
  /\ RunnerKeeps /\ UNCHANGED <<budget, inst, run, outcome, waits, orphan>>

\* mutant: the instance gets the status of the task
InstanceSame(status) == status

InstanceAfter(status) == CASE status = "completed" -> "idle" [] status = "killed" -> "killed"
                           [] OTHER -> "failed"

\* The runner's own report.  The notes that no thread has in hand are dropped.
Report(t, status) ==
  /\ inst' = [inst EXCEPT ![agentOf[t]] = InstanceAfter(status)] /\ Mark(t, status)
  /\ outcome' = [outcome EXCEPT ![t] = status] /\ run' = [run EXCEPT ![t] = "ended"]
  /\ upd' = [upd EXCEPT ![t] = [n \in Notes |-> IF @[n] = "task" THEN "no" ELSE @[n]]]
  /\ RunnerKeeps /\ UNCHANGED waits

\* run_soul waits for its soul outside the try block that would cancel it, so
\* a runner that is cancelled there leaves the soul at work; elsewhere not.
SoulLeft(t) ==
  \/ UNCHANGED <<budget, orphan>>
  \/ budget.souls > 0 /\ budget' = [budget EXCEPT !.souls = @ - 1] /\ orphan' = orphan \cup {t}

\* The agent is done, fails or is cancelled from within, ...
RunnerEnds(t) ==
  /\ LoopFree /\ run[t] = "core"
  /\ \E status \in {"completed", "failed", "killed"} :
       /\ (status = "completed" => ~waits[t]) /\ Report(t, status)
  /\ UNCHANGED <<budget, orphan>>

\* ... its runner runs out of time, and wait_for cancels what it does, ...
RunnerTimesOut(t) == LoopFree /\ run[t] = "core" /\ Report(t, "timed_out") /\ SoulLeft(t)

\* ... or hears of a kill.
RunnerCancelled(t) == LoopFree /\ run[t] = "cancelling" /\ Report(t, "killed") /\ SoulLeft(t)

\* A soul left alone ends like any other, but nobody is told.
SoulEnds(t) ==
  /\ LoopFree /\ t \in orphan /\ orphan' = orphan \ {t}
  /\ UNCHANGED <<up, budget, mgr, diskVars, workerVars, run, outcome, waits, upd, revived, stopped>>

\* The runner's cleanup: its approvals are cancelled, it is no longer live.
RunnerGone(t) ==
  /\ LoopFree /\ run[t] = "ended" /\ run' = [run EXCEPT ![t] = "gone"]
  /\ waits' = [waits EXCEPT ![t] = FALSE]
  /\ RunnerKeeps /\ UNCHANGED <<budget, rt, revived, inst, outcome, upd, orphan>>

-----------------------------------------------------------------------------
\* What the manager goes on with by itself.
Manager ==
  \/ StartReconcile \/ Publish \/ Restart
  \/ \E t \in Tasks : \/ WriteSpec(t) \/ WriteFiles(t) \/ Popen(t) \/ PopenFails(t)
                      \/ LaunchRead(t) \/ LaunchWrite(t) \/ RecoverRead(t) \/ RecoverWrite(t)
Worker(t) ==
  \/ StartRead(t) \/ StartWrite(t) \/ Check(t) \/ Spawn(t) \/ SpawnFails(t)
  \/ RecordRead(t) \/ RecordWrite(t) \/ BeatWrite(t) \/ FinishWrite(t)
Control(t) == ControlTerm(t) \/ ForceKill(t) \/ Finish(t)
Runner(t) ==
  \/ RunnerStart(t) \/ RunnerCancelled(t) \/ RunnerGone(t)
  \/ \E n \in Notes : Apply(t, n) \/ ThreadWrite(t, n)

Next ==
  \/ Manager \/ Crash
  \/ \E t \in Tasks : BeginBash(t) \/ Kill(t) \/ Age(t)
  \/ \E t \in Agents, i \in Instances : BeginAgent(t, i)
  \/ \E t \in Bash : \/ Worker(t) \/ Control(t) \/ BeatRead(t)
                      \/ Timeout(t) \/ CommandEnds(t) \/ WorkerDies(t)
  \/ \E t \in Agents : Runner(t) \/ AskApproval(t) \/ GiveApproval(t)
                        \/ RunnerEnds(t) \/ RunnerTimesOut(t) \/ SoulEnds(t)

(* The manager's operations run to their end and it reconciles again and    *)
(* again while the session is open, which it is again after a crash.  The   *)
(* loops of asyncio serve a callback that is ready whatever else they are   *)
(* asked to do: hence strong fairness of the steps that a reconciliation or *)
(* a heartbeat may hold up.  No command need end, no user need answer.      *)
Fairness ==
  /\ WF_vars(Manager)
  /\ \A t \in Bash : WF_vars(Worker(t)) /\ SF_vars(Control(t)) /\ WF_vars(~WorkerAlive(t) /\ Age(t))
  /\ \A t \in Agents : SF_vars(Runner(t))

Spec == Init /\ [][Next]_vars /\ Fairness

-----------------------------------------------------------------------------
TypeOK ==
  /\ up \in BOOLEAN /\ budget \in [tasks : SUBSET Tasks, crashes : Nat, asks : Nat, souls : Nat]
  /\ mgr \in [op : Ops, task : Tasks \cup {None}, todo : SUBSET Tasks]
  /\ files \in [Tasks -> {"absent", "spec", "full"}] /\ rt \in [Tasks -> Records]
  /\ kill \in [Tasks -> BOOLEAN]
  /\ wk \in [Bash -> [pc : Pcs, copy : Records, timedOut : BOOLEAN, sent : BOOLEAN]]
  /\ cmd \in [Bash -> {"none", "run", "ok", "bad"}]
  /\ run \in [Agents -> {"none", "queued", "core", "cancelling", "ended", "gone"}]
  /\ outcome \in [Agents -> Finals \cup {None}] /\ waits \in [Agents -> BOOLEAN]
  /\ upd \in [Agents -> [Notes -> {"no", "task", "read"}]]
  /\ orphan \subseteq Agents
  /\ agentOf \in [Agents -> Instances \cup {None}]
  /\ inst \in [Instances -> {"idle", "running_background", "failed", "killed"}]
  /\ notices \subseteq Tasks \X Finals /\ revived \subseteq Tasks /\ stopped \subseteq Bash

\* What the user and the model are told of a task is what became of it, for
\* every order in which manager, worker and threads wrote its record: it
\* completed only if the command succeeded or the agent did, it was stopped
\* only if that was asked for, it timed out only if its time was over.
NoticeTruthful ==
  \A t \in Tasks :
    /\ <<t, "completed">> \in notices => IF t \in Bash THEN cmd[t] = "ok" ELSE outcome[t] = "completed"
    /\ <<t, "killed">> \in notices => kill[t] \/ (t \in Agents /\ outcome[t] = "killed")
    /\ <<t, "timed_out">> \in notices => IF t \in Bash THEN wk[t].timedOut ELSE outcome[t] = "timed_out"

\* A command that is asked to stop while it runs is never reported as
\* completed or failed, however it ends and whoever dies meanwhile.
StopNeverCompletes ==
  \A t \in stopped, s \in {"completed", "failed"} : <<t, s>> \notin notices

\* An agent at work holds its instance, so that nobody resumes it, and no
\* other soul writes the same conversation: unless a late note of an approval
\* has revived a finished task of it, which is then found lost, or the soul of
\* an agent that was killed or ran out of time is still at work.
OneRunnerPerInstance ==
  \A t \in Agents : run[t] \in {"queued", "core", "cancelling"} =>
    \/ \E v \in revived \cap Agents : agentOf[v] = agentOf[t]
    \/ /\ inst[agentOf[t]] = "running_background"
       /\ \A u \in Agents \ {t} : agentOf[u] = agentOf[t] =>
            /\ run[u] \in {"none", "ended", "gone"}
            /\ u \in orphan => kill[u] \/ outcome[u] = "timed_out"

\* A final status is replaced only by a writer that works on an old copy:
\* the manager's launch or its giving up, a worker given up on, or a thread.
FinalKept ==
  [][\A t \in Tasks : IsFinal(t) /\ rt[t].status # rt'[t].status =>
       \/ Busy("launch", t) \/ Busy("giveup", t)
       \/ t \in Bash /\ WorkerAlive(t) /\ rt[t].status \in {"killed", "lost"}
       \/ t \in Agents /\ \E n \in Notes : upd[t][n] = "read"]_vars

\* A command that is asked to stop does, while its worker lives.
KillStops ==
  \A t \in Bash : (kill[t] /\ cmd[t] = "run") ~> (cmd[t] # "run" \/ wk[t].pc = "dead")

\* Once its worker or its runner is no more, some end of the task is told,
\* with crashes of the session and whatever was overwritten.
EndIsTold ==
  \A t \in Tasks :
    (IF t \in Bash THEN wk[t].pc \in {"done", "dead"} ELSE run[t] = "gone")
      ~> (\E s \in Finals : <<t, s>> \in notices)
=============================================================================
