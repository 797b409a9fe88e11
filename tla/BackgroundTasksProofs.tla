------------------------- MODULE BackgroundTasksProofs -------------------------
(***************************************************************************)
(* Theorems about BackgroundTasks, for any tasks, instances, crashes and   *)
(* approvals: typing; what the notices say is what became of the tasks,    *)
(* and no command that was stopped completes; who replaces a final status; *)
(* and one runner at a time works on an agent instance.                    *)
(***************************************************************************)
EXTENDS BackgroundTasks, TLAPS

-----------------------------------------------------------------------------
(* Typing.                                                                 *)

Workers == [pc : Pcs, copy : Records, timedOut : BOOLEAN, sent : BOOLEAN]

ManagerTyped ==
  /\ up \in BOOLEAN /\ budget \in [tasks : SUBSET Tasks, crashes : Nat, asks : Nat, souls : Nat]
  /\ mgr \in [op : Ops, task : Tasks \cup {None}, todo : SUBSET Tasks]
DiskTyped ==
  /\ files \in [Tasks -> {"absent", "spec", "full"}] /\ rt \in [Tasks -> Records]
  /\ kill \in [Tasks -> BOOLEAN]
  /\ inst \in [Instances -> {"idle", "running_background", "failed", "killed"}]
  /\ agentOf \in [Agents -> Instances \cup {None}]
  /\ notices \subseteq Tasks \X Finals /\ revived \subseteq Tasks /\ stopped \subseteq Bash
WorkerTyped == wk \in [Bash -> Workers] /\ cmd \in [Bash -> {"none", "run", "ok", "bad"}]
AgentTyped ==
  /\ run \in [Agents -> {"none", "queued", "core", "cancelling", "ended", "gone"}]
  /\ outcome \in [Agents -> Finals \cup {None}] /\ waits \in [Agents -> BOOLEAN]
  /\ upd \in [Agents -> [Notes -> {"no", "task", "read"}]]
  /\ orphan \subseteq Agents

\* The manager is at one of the tasks, and it launches and gives up commands only.  An agent
\* at work has an instance.
ManagerPlace ==
  /\ mgr.op \in {"spec", "files"} => mgr.task \in Tasks /\ mgr.todo = {}
  /\ mgr.op \in {"popen", "read", "launch", "giveup"} => mgr.task \in Bash
  /\ \A t \in Agents : run[t] # "none" \/ (mgr.op \in {"spec", "files"} /\ mgr.task = t)
                         => agentOf[t] \in Instances

Typed == ManagerTyped /\ DiskTyped /\ WorkerTyped /\ AgentTyped /\ ManagerPlace

\* What an agent, its runner or its soul does.
AgentMoves(t) ==
  Runner(t) \/ AskApproval(t) \/ GiveApproval(t) \/ RunnerEnds(t) \/ RunnerTimesOut(t) \/ SoulEnds(t)

LEMMA Apart == Bash \subseteq Tasks /\ Agents \subseteq Tasks /\ Bash \cap Agents = {} /\ None \notin Tasks
               /\ None \notin Instances
BY TasksAssumption DEF TasksAssumption, Tasks

LEMMA NewRecordTyped == NewRecord \in Records /\ NewRecord.status = "created"
BY DEF NewRecord, Records, Statuses

LEMMA TypedInit == Init => Typed
<1> SUFFICES ASSUME Init PROVE Typed
  OBVIOUS
<1>1. ManagerTyped
  BY TasksAssumption DEF TasksAssumption, Init, ManagerTyped, Idle, Ops
<1>2. DiskTyped
  <2>1. rt \in [Tasks -> Records]
    BY NewRecordTyped DEF Init
  <2>2. kill \in [Tasks -> BOOLEAN]
    BY DEF Init
  <2> QED
    BY <2>1, <2>2 DEF Init, DiskTyped
<1>3. WorkerTyped
  <2>1. [pc |-> "none", copy |-> NewRecord, timedOut |-> FALSE, sent |-> FALSE] \in Workers
    BY NewRecordTyped DEF Workers, Pcs
  <2> QED
    BY <2>1 DEF Init, WorkerTyped
<1>4. AgentTyped
  <2>1. waits \in [Agents -> BOOLEAN]
    BY DEF Init
  <2> QED
    BY <2>1 DEF Init, AgentTyped
<1>5. ManagerPlace
  BY DEF Init, ManagerPlace, Idle
<1> QED
  BY <1>1, <1>2, <1>3, <1>4, <1>5 DEF Typed

\* What a writer makes of a record is a record.
LEMMA Marked ==
  ASSUME NEW r \in Records, NEW s \in Statuses, NEW f \in BOOLEAN
  PROVE  /\ [r EXCEPT !.status = s, !.fin = f] \in Records
         /\ [r EXCEPT !.status = s, !.fin = f].status = s
BY DEF Records

LEMMA Reported ==
  ASSUME NEW r \in Records, NEW s \in Statuses
  PROVE  /\ [r EXCEPT !.status = s, !.seen = "fresh"] \in Records
         /\ [r EXCEPT !.status = s, !.seen = "fresh"].status = s
         /\ [r EXCEPT !.status = s, !.seen = "fresh", !.child = TRUE] \in Records
         /\ [r EXCEPT !.status = s, !.seen = "fresh", !.child = TRUE].status = s
BY DEF Records

LEMMA Seen ==
  ASSUME NEW r \in Records, NEW x \in {"fresh", "stale"}
  PROVE  [r EXCEPT !.seen = x] \in Records /\ [r EXCEPT !.seen = x].status = r.status
BY DEF Records

LEMMA Fixed ==
  /\ [NewRecord EXCEPT !.status = "starting"] \in Records
  /\ [NewRecord EXCEPT !.status = "starting"].status = "starting"
  /\ \A s \in Statuses : /\ [NewRecord EXCEPT !.fin = TRUE, !.child = TRUE, !.status = s] \in Records
                         /\ [NewRecord EXCEPT !.fin = TRUE, !.child = TRUE, !.status = s].status = s
BY DEF Records, NewRecord, Statuses

LEMMA WriteTyped ==
  ASSUME Typed, NEW t \in Tasks, NEW r \in Records, Write(t, r)
  PROVE  rt' \in [Tasks -> Records] /\ revived' \subseteq Tasks
BY DEF Typed, DiskTyped, Write

LEMMA MarkTyped ==
  ASSUME Typed, NEW t \in Tasks, NEW s \in Statuses, Mark(t, s)
  PROVE  rt' \in [Tasks -> Records] /\ revived' \subseteq Tasks
<1>1. [rt[t] EXCEPT !.status = s, !.fin = s \in Finals] \in Records
  <2>1. (s \in Finals) \in BOOLEAN
    OBVIOUS
  <2> QED
    BY <2>1, Marked DEF Typed, DiskTyped
<1> QED
  BY <1>1, WriteTyped DEF Mark, Typed, DiskTyped

LEMMA Words ==
  /\ \A s \in Finals : s \in Statuses
  /\ \A s \in Notes : s \in Statuses
  /\ "starting" \in Statuses /\ "running" \in Statuses /\ "killed" \in Statuses /\ "lost" \in Statuses
  /\ "failed" \in Statuses
BY DEF Finals, Notes, Statuses

\* The worker of t moves and has another copy in hand.
Moved(t, p, c) == wk' = [wk EXCEPT ![t].pc = p, ![t].copy = c]

LEMMA MovedTyped ==
  ASSUME Typed, NEW t \in Bash, NEW p \in Pcs, NEW c \in Records, Moved(t, p, c)
  PROVE  /\ wk' \in [Bash -> Workers]
         /\ wk'[t].pc = p /\ wk'[t].copy = c /\ wk'[t].timedOut = wk[t].timedOut /\ wk'[t].sent = wk[t].sent
         /\ \A u \in Bash \ {t} : wk'[u] = wk[u]
<1> DEFINE w == [wk EXCEPT ![t].pc = p]
<1>1. /\ w \in [Bash -> Workers] /\ \A u \in Bash \ {t} : w[u] = wk[u]
      /\ w[t].pc = p /\ w[t].timedOut = wk[t].timedOut /\ w[t].sent = wk[t].sent
  BY DEF Typed, WorkerTyped, Workers
<1>2. wk' = [w EXCEPT ![t].copy = c]
  BY DEF Moved
<1> HIDE DEF w
<1>3. /\ wk'[t] = [w[t] EXCEPT !.copy = c]
      /\ \A u \in Bash \ {t} : wk'[u] = w[u]
      /\ wk' = [u \in Bash |-> wk'[u]]
  BY <1>1, <1>2
<1>4. w[t] \in Workers
  BY <1>1
<1>5. wk'[t].pc = w[t].pc /\ wk'[t].copy = c
  BY <1>3, <1>4 DEF Workers
<1>6. wk'[t].timedOut = w[t].timedOut /\ wk'[t].sent = w[t].sent
  BY <1>3, <1>4 DEF Workers
<1>7. wk'[t] \in Workers
  BY <1>3, <1>4 DEF Workers
<1>8. wk' \in [Bash -> Workers]
  BY <1>1, <1>3, <1>7
<1> QED
  BY <1>1, <1>3, <1>5, <1>6, <1>8

\* The time of the command of t is over, or a signal is sent to it.
LEMMA SignalTyped ==
  ASSUME Typed, NEW t \in Bash, ControlTerm(t) \/ Timeout(t)
  PROVE  /\ wk' \in [Bash -> Workers]
         /\ wk'[t].pc = wk[t].pc /\ wk'[t].copy = wk[t].copy /\ (wk[t].timedOut => wk'[t].timedOut)
         /\ \A u \in Bash \ {t} : wk'[u] = wk[u]
<1>1. CASE ControlTerm(t)
  BY <1>1 DEF ControlTerm, Typed, WorkerTyped, Workers
<1>2. CASE Timeout(t)
  <2> DEFINE w == [wk EXCEPT ![t].timedOut = TRUE]
  <2>1. /\ w \in [Bash -> Workers] /\ \A u \in Bash \ {t} : w[u] = wk[u]
        /\ w[t].pc = wk[t].pc /\ w[t].copy = wk[t].copy /\ w[t].timedOut
    BY DEF Typed, WorkerTyped, Workers
  <2>2. wk' = [w EXCEPT ![t].sent = TRUE]
    BY <1>2 DEF Timeout
  <2> HIDE DEF w
  <2>3. /\ wk' \in [Bash -> Workers] /\ \A u \in Bash \ {t} : wk'[u] = w[u]
        /\ wk'[t].pc = w[t].pc /\ wk'[t].copy = w[t].copy /\ wk'[t].timedOut = w[t].timedOut
    BY <2>1, <2>2 DEF Workers
  <2> QED
    BY <2>1, <2>3
<1> QED
  BY <1>1, <1>2

\* What a step of a worker does: to its own place and copy, and to the record.
LEMMA ReadsTyped ==
  ASSUME Typed, NEW t \in Bash, NEW from \in Pcs, NEW to \in Pcs, Reads(t, from, to)
  PROVE  Typed'
<1>1. wk' \in [Bash -> Workers]
  <2>1. rt[t] \in Records /\ Moved(t, to, rt[t])
    BY Apart DEF Typed, DiskTyped, Reads, Moved
  <2> QED
    BY <2>1, MovedTyped
<1> QED
  BY <1>1 DEF Reads, WorkerKeeps, agentVars, Typed, ManagerTyped, DiskTyped, WorkerTyped, AgentTyped, ManagerPlace

LEMMA WritesTyped ==
  ASSUME Typed, NEW t \in Bash, NEW from \in Pcs, NEW to \in Pcs, NEW r \in Records, Writes(t, from, to, r)
  PROVE  Typed'
<1>1. wk' \in [Bash -> Workers]
  <2>1. Moved(t, to, NewRecord)
    BY DEF Writes, Moved
  <2> QED
    BY <2>1, NewRecordTyped, MovedTyped
<1>2. rt' \in [Tasks -> Records] /\ revived' \subseteq Tasks
  BY Apart, WriteTyped DEF Writes
<1> QED
  BY <1>1, <1>2 DEF Writes, WorkerKeeps, agentVars, Typed, ManagerTyped, DiskTyped, WorkerTyped, AgentTyped, ManagerPlace

LEMMA KeepsTyped ==
  ASSUME Typed, WorkerKeeps, UNCHANGED <<rt, revived>>, WorkerTyped'
  PROVE  Typed'
BY DEF WorkerKeeps, agentVars, Typed, ManagerTyped, DiskTyped, AgentTyped, ManagerPlace

LEMMA WorkerStepTyped ==
  ASSUME Typed, NEW t \in Bash,
         \/ Worker(t) \/ Control(t) \/ BeatRead(t) \/ Timeout(t) \/ CommandEnds(t) \/ WorkerDies(t)
  PROVE  Typed'
<1>0. /\ {"none", "start", "starting", "check", "spawn", "record", "recording",
          "wait", "beat", "exit", "writing", "done", "dead"} \subseteq Pcs
      /\ wk[t].copy \in Records /\ rt[t] \in Records /\ t \in Tasks /\ wk[t].copy.status \in Statuses
  BY Apart DEF Pcs, Typed, WorkerTyped, DiskTyped, Workers, Records
<1>1. CASE StartRead(t) \/ RecordRead(t) \/ BeatRead(t)
  BY <1>0, <1>1, ReadsTyped DEF StartRead, RecordRead, BeatRead
<1>2. CASE StartWrite(t)
  BY <1>0, <1>2, WritesTyped, Reported, Words DEF StartWrite
<1>3. CASE Check(t)
  <2>1. CASE kill[t]
    BY <1>0, <1>3, <2>1, WritesTyped, Marked, Words DEF Check
  <2>2. CASE ~kill[t]
    <3>1. WorkerTyped'
      BY <1>3, <2>2 DEF Check, Goto, Typed, WorkerTyped, Workers, Pcs
    <3> QED
      BY <1>3, <2>2, <3>1, KeepsTyped DEF Check
  <2> QED
    BY <2>1, <2>2
<1>4. CASE Spawn(t)
  <2>1. WorkerTyped'
    BY <1>4 DEF Spawn, Goto, Typed, WorkerTyped, Workers, Pcs
  <2> QED
    BY <1>4, <2>1, KeepsTyped DEF Spawn
<1>5. CASE SpawnFails(t)
  BY <1>0, <1>5, WritesTyped, Marked, Words DEF SpawnFails
<1>6. CASE RecordWrite(t)
  BY <1>0, <1>6, WritesTyped, Reported, Words DEF RecordWrite
<1>7. CASE BeatWrite(t)
  BY <1>0, <1>7, WritesTyped, Seen DEF BeatWrite
<1>8. CASE FinishWrite(t)
  BY <1>0, <1>8, WritesTyped DEF FinishWrite
<1>9. CASE ControlTerm(t) \/ ForceKill(t) \/ Timeout(t) \/ CommandEnds(t)
  <2>1. WorkerTyped'
    BY <1>9, SignalTyped DEF ControlTerm, ForceKill, Timeout, CommandEnds, Typed, WorkerTyped
  <2> QED
    BY <1>9, <2>1, KeepsTyped DEF ControlTerm, ForceKill, Timeout, CommandEnds
<1>10. CASE Finish(t)
  <2>1. Verdict(t) \in Statuses
    BY DEF Verdict, Statuses, Finals
  <2>2. [NewRecord EXCEPT !.fin = TRUE, !.child = TRUE, !.status = Verdict(t)] \in Records
    BY <2>1, Fixed
  <2>3. WorkerTyped'
    <3>1. Moved(t, "writing", [NewRecord EXCEPT !.fin = TRUE, !.child = TRUE, !.status = Verdict(t)])
      BY <1>10 DEF Finish, Moved
    <3> QED
      BY <1>0, <1>10, <2>2, <3>1, MovedTyped DEF Finish, WorkerKeeps, Typed, WorkerTyped
  <2> QED
    BY <1>10, <2>3, KeepsTyped DEF Finish
<1>11. CASE WorkerDies(t)
  <2>1. WorkerTyped'
    <3>1. Moved(t, "dead", NewRecord)
      BY <1>11 DEF WorkerDies, Moved
    <3> QED
      BY <1>0, <1>11, <3>1, NewRecordTyped, MovedTyped DEF WorkerDies, Typed, WorkerTyped
  <2> QED
    BY <1>11, <2>1, KeepsTyped DEF WorkerDies
<1> QED
  BY <1>1, <1>2, <1>3, <1>4, <1>5, <1>6, <1>7, <1>8, <1>9, <1>10, <1>11 DEF Worker, Control

-----------------------------------------------------------------------------
(* Typing of the manager's steps.                                          *)

LEMMA RecoverTyped == Typed /\ Recover /\ up' \in BOOLEAN => Typed'
<1> SUFFICES ASSUME Typed, Recover, up' \in BOOLEAN PROVE Typed'
  OBVIOUS
<1>1. rt' \in [Tasks -> Records]
  <2>1. \A t \in Tasks : [rt[t] EXCEPT !.status = "lost", !.fin = TRUE] \in Records
    BY Marked, Words DEF Typed, DiskTyped
  <2> QED
    BY <2>1 DEF Recover, Typed, DiskTyped
<1>2. Active \cap Bash \subseteq Tasks /\ "recover" \in Ops
  BY Apart DEF Ops
<1>3. mgr' \in [op : Ops, task : Tasks \cup {None}, todo : SUBSET Tasks]
  BY <1>2 DEF Recover
<1>4. inst' \in [Instances -> {"idle", "running_background", "failed", "killed"}]
  BY DEF Recover, Typed, DiskTyped
<1>5. ManagerPlace'
  BY DEF Recover, Typed, ManagerPlace, agentVars
<1> QED
  BY <1>1, <1>3, <1>4, <1>5
  DEF Recover, workerVars, agentVars, Typed, ManagerTyped, DiskTyped, WorkerTyped, AgentTyped

LEMMA ManagerStepTyped ==
  ASSUME Typed, NEW t \in Tasks,
         \/ BeginBash(t) \/ WriteSpec(t) \/ WriteFiles(t) \/ Popen(t) \/ PopenFails(t) \/ LaunchRead(t)
         \/ LaunchWrite(t) \/ RecoverRead(t) \/ RecoverWrite(t) \/ Publish
  PROVE  Typed'
<1>0. /\ {"idle", "spec", "files", "popen", "read", "launch", "recover", "giveup", "publish"} \subseteq Ops
      /\ "start" \in Pcs
  BY DEF Ops, Pcs
<1> USE Apart DEF Typed, ManagerTyped, DiskTyped, WorkerTyped, AgentTyped, ManagerPlace, diskVars, workerVars, agentVars,
    Busy, At, Idle
<1>1. CASE BeginBash(t)
  BY <1>0, <1>1 DEF BeginBash
<1>2. CASE WriteSpec(t)
  BY <1>0, <1>2 DEF WriteSpec
<1>3. CASE WriteFiles(t)
  <2>1. CASE t \in Bash
    BY <1>0, <1>3, <2>1 DEF WriteFiles
  <2>2. CASE t \notin Bash
    <3>1. t \in Agents
      BY <2>2 DEF Tasks
    <3>2. rt' \in [Tasks -> Records] /\ revived' \subseteq Tasks
      BY <1>3, <2>2, MarkTyped, Words DEF WriteFiles
    <3>3. mgr' \in [op : Ops, task : Tasks \cup {None}, todo : SUBSET Tasks] /\ mgr'.op = "idle"
      BY <1>0, <1>3, <2>2 DEF WriteFiles
    <3>4. /\ run' \in [Agents -> {"none", "queued", "core", "cancelling", "ended", "gone"}]
          /\ \A u \in Agents : run'[u] # "none" => run[u] # "none" \/ u = t
      BY <1>3, <2>2, <3>1 DEF WriteFiles
    <3>5. ManagerPlace'
      <4>1. \A u \in Agents : run'[u] # "none" => agentOf'[u] \in Instances
        BY <1>3, <3>1, <3>4 DEF WriteFiles
      <4> QED
        BY <3>3, <4>1
    <3> QED
      BY <1>3, <3>1, <3>2, <3>3, <3>4, <3>5 DEF WriteFiles
  <2> QED
    BY <2>1, <2>2
<1>4. CASE Popen(t)
  <2>1. wk' \in [Bash -> Workers]
    <3>1. t \in Bash /\ wk[t] \in Workers
      BY <1>4 DEF Popen
    <3>2. [wk[t] EXCEPT !.pc = "start"] \in Workers
      BY <1>0, <3>1 DEF Workers
    <3>3. wk' = [wk EXCEPT ![t] = [wk[t] EXCEPT !.pc = "start"]]
      BY <1>4 DEF Popen
    <3> QED
      BY <3>2, <3>3
  <2> QED
    BY <1>0, <1>4, <2>1 DEF Popen
<1>5. CASE PopenFails(t)
  <2>1. rt' \in [Tasks -> Records] /\ revived' \subseteq Tasks
    BY <1>5, MarkTyped, Words DEF PopenFails
  <2> QED
    BY <1>0, <1>5, <2>1 DEF PopenFails
<1>6. CASE LaunchRead(t)
  BY <1>0, <1>6 DEF LaunchRead
<1>7. CASE LaunchWrite(t)
  <2>1. rt' \in [Tasks -> Records] /\ revived' \subseteq Tasks
    BY <1>7, WriteTyped, Fixed DEF LaunchWrite
  <2> QED
    BY <1>0, <1>7, <2>1 DEF LaunchWrite
<1>8. CASE RecoverRead(t)
  <2>1. mgr' \in [op : Ops, task : Tasks \cup {None}, todo : SUBSET Tasks]
        /\ mgr'.op \in {"recover", "giveup"} /\ (mgr'.op = "giveup" => mgr'.task = t)
    BY <1>0, <1>8 DEF RecoverRead
  <2> QED
    BY <1>8, <2>1 DEF RecoverRead
<1>9. CASE RecoverWrite(t)
  <2>1. [rt[t] EXCEPT !.status = IF kill[t] THEN "killed" ELSE "lost", !.fin = TRUE] \in Records
    BY Marked, Words
  <2>2. rt' \in [Tasks -> Records] /\ revived' \subseteq Tasks
    BY <1>9, <2>1, WriteTyped DEF RecoverWrite
  <2>3. mgr' \in [op : Ops, task : Tasks \cup {None}, todo : SUBSET Tasks] /\ mgr'.op = "recover"
    BY <1>0, <1>9 DEF RecoverWrite
  <2> QED
    BY <1>9, <2>2, <2>3 DEF RecoverWrite
<1>10. CASE Publish
  <2>1. {<<u, rt[u].status>> : u \in Listed \ Active} \subseteq Tasks \X Finals
    BY DEF Listed, Active, IsFinal
  <2> QED
    BY <1>0, <1>10, <2>1 DEF Publish
<1> QED
  BY <1>1, <1>2, <1>3, <1>4, <1>5, <1>6, <1>7, <1>8, <1>9, <1>10

-----------------------------------------------------------------------------
(* Typing of the session's other steps.                                    *)

LEMMA CrashTyped == Typed /\ Crash => Typed'
<1> SUFFICES ASSUME Typed, Crash PROVE Typed'
  OBVIOUS
<1>1. budget' \in [tasks : SUBSET Tasks, crashes : Nat, asks : Nat, souls : Nat]
  <2>1. budget.crashes - 1 \in Nat
    BY DEF Crash, Typed, ManagerTyped
  <2> QED
    BY <2>1 DEF Crash, Typed, ManagerTyped
<1>2. mgr' \in [op : Ops, task : Tasks \cup {None}, todo : SUBSET Tasks] /\ mgr'.op = "idle"
  BY DEF Crash, Idle, Ops
<1>3. waits' \in [Agents -> BOOLEAN]
  BY DEF Crash
<1>4. run' \in [Agents -> {"none", "queued", "core", "cancelling", "ended", "gone"}]
      /\ \A t \in Agents : run[t] = "none" => run'[t] = "none"
  BY DEF Crash, Typed, AgentTyped, Live
<1>5. ManagerPlace'
  BY <1>2, <1>4 DEF Crash, diskVars, Typed, ManagerPlace
<1> QED
  BY <1>1, <1>2, <1>3, <1>4, <1>5
  DEF Crash, diskVars, workerVars, Typed, ManagerTyped, DiskTyped, WorkerTyped, AgentTyped

LEMMA BeginAgentTyped ==
  ASSUME Typed, NEW t \in Agents, NEW i \in Instances, BeginAgent(t, i)
  PROVE  Typed'
<1>1. /\ inst' \in [Instances -> {"idle", "running_background", "failed", "killed"}]
      /\ agentOf' \in [Agents -> Instances \cup {None}]
      /\ \A u \in Agents \ {t} : agentOf'[u] = agentOf[u]
  BY DEF BeginAgent, Typed, DiskTyped
<1>2. CASE Room
  <2>1. mgr' = At("spec", t) /\ agentOf'[t] = i
    BY <1>2 DEF BeginAgent, Typed, DiskTyped
  <2>2. mgr' \in [op : Ops, task : Tasks \cup {None}, todo : SUBSET Tasks]
    BY <2>1, Apart DEF At, Ops
  <2>3. ManagerPlace'
    BY <1>1, <2>1, Apart DEF BeginAgent, agentVars, At, CanCreate, LoopFree, Typed, ManagerPlace
  <2> QED
    BY <1>1, <2>2, <2>3
    DEF BeginAgent, workerVars, agentVars, Typed, ManagerTyped, DiskTyped, WorkerTyped, AgentTyped
<1>3. CASE ~Room
  BY <1>1, <1>3 DEF BeginAgent, workerVars, agentVars,
     Typed, ManagerTyped, DiskTyped, WorkerTyped, AgentTyped, ManagerPlace
<1> QED
  BY <1>2, <1>3

LEMMA SettledTyped ==
  ASSUME Typed, NEW t \in Agents
  PROVE  Settled(t) \in [Agents -> [Notes -> {"no", "task", "read"}]]
BY DEF Settled, Typed, AgentTyped, Notes

LEMMA KillTyped ==
  ASSUME Typed, NEW t \in Tasks, Kill(t)
  PROVE  Typed'
<1>1. kill' \in [Tasks -> BOOLEAN] /\ stopped' \subseteq Bash
  BY DEF Kill, Typed, DiskTyped
<1>2. CASE t \in Bash
  BY <1>1, <1>2 DEF Kill, workerVars, Typed, ManagerTyped, DiskTyped, WorkerTyped, AgentTyped, ManagerPlace
<1>3. CASE t \notin Bash
  <2>1. t \in Agents
    BY <1>3 DEF Tasks
  <2>2. rt' \in [Tasks -> Records] /\ revived' \subseteq Tasks
    BY <1>3, MarkTyped, Words DEF Kill
  <2>3. upd' \in [Agents -> [Notes -> {"no", "task", "read"}]]
    BY <1>3, <2>1, SettledTyped DEF Kill
  <2>4. waits' \in [Agents -> BOOLEAN]
    BY <1>3 DEF Kill, Typed, AgentTyped
  <2>5. run' \in [Agents -> {"none", "queued", "core", "cancelling", "ended", "gone"}]
        /\ \A u \in Agents : run[u] = "none" => run'[u] = "none"
    BY <1>3, <2>1 DEF Kill, Typed, AgentTyped
  <2>6. ManagerPlace'
    BY <2>5 DEF Kill, Typed, ManagerPlace
  <2> QED
    BY <1>1, <2>2, <2>3, <2>4, <2>5, <2>6 DEF Kill, workerVars, Typed, ManagerTyped, DiskTyped, WorkerTyped, AgentTyped
<1> QED
  BY <1>2, <1>3

LEMMA AgeTyped ==
  ASSUME Typed, NEW t \in Tasks, Age(t)
  PROVE  Typed'
<1>1. rt' \in [Tasks -> Records]
  BY DEF Age, Typed, DiskTyped, Records
<1> QED
  BY <1>1 DEF Age, workerVars, agentVars, Typed, ManagerTyped, DiskTyped, WorkerTyped, AgentTyped, ManagerPlace

\* The runner's report on its agent and its instance.
LEMMA ReportTyped ==
  ASSUME Typed, NEW t \in Agents, run[t] # "none", NEW s \in Finals, Report(t, s),
         budget' \in [tasks : SUBSET Tasks, crashes : Nat, asks : Nat, souls : Nat], orphan' \subseteq Agents
  PROVE  Typed'
<1>1. InstanceAfter(s) \in {"idle", "running_background", "failed", "killed"}
  BY DEF InstanceAfter
<1>2. inst' \in [Instances -> {"idle", "running_background", "failed", "killed"}]
  BY <1>1 DEF Report, Typed, DiskTyped, ManagerPlace
<1>3. rt' \in [Tasks -> Records] /\ revived' \subseteq Tasks
  BY Apart, MarkTyped, Words DEF Report
<1>4. outcome' \in [Agents -> Finals \cup {None}]
      /\ run' \in [Agents -> {"none", "queued", "core", "cancelling", "ended", "gone"}]
  BY DEF Report, Typed, AgentTyped
<1>5. upd' \in [Agents -> [Notes -> {"no", "task", "read"}]]
  BY DEF Report, Typed, AgentTyped
<1>6. ManagerPlace'
  BY DEF Report, RunnerKeeps, Typed, ManagerPlace, AgentTyped
<1> QED
  BY <1>2, <1>3, <1>4, <1>5, <1>6
  DEF Report, RunnerKeeps, workerVars, Typed, ManagerTyped, DiskTyped, WorkerTyped, AgentTyped

LEMMA SoulLeftTyped ==
  ASSUME Typed, NEW t \in Agents, SoulLeft(t)
  PROVE  budget' \in [tasks : SUBSET Tasks, crashes : Nat, asks : Nat, souls : Nat] /\ orphan' \subseteq Agents
<1>1. CASE UNCHANGED <<budget, orphan>>
  BY <1>1 DEF Typed, ManagerTyped, AgentTyped
<1>2. CASE budget.souls > 0 /\ budget' = [budget EXCEPT !.souls = @ - 1] /\ orphan' = orphan \cup {t}
  <2>1. budget.souls - 1 \in Nat
    BY <1>2 DEF Typed, ManagerTyped
  <2> QED
    BY <1>2, <2>1 DEF Typed, ManagerTyped, AgentTyped
<1> QED
  BY <1>1, <1>2 DEF SoulLeft

LEMMA RunnerStepTyped ==
  ASSUME Typed, NEW t \in Agents, AgentMoves(t)
  PROVE  Typed'
<1> USE DEF RunnerKeeps, workerVars
<1>1. CASE RunnerStart(t)
  <2>1. rt' \in [Tasks -> Records] /\ revived' \subseteq Tasks
    BY <1>1, Apart, MarkTyped, Words DEF RunnerStart
  <2> QED
    BY <1>1, <2>1 DEF RunnerStart, Typed, ManagerTyped, DiskTyped, WorkerTyped, AgentTyped, ManagerPlace
<1>2. CASE RunnerCancelled(t)
  BY <1>2, ReportTyped, SoulLeftTyped DEF RunnerCancelled, Finals
<1>3. CASE RunnerGone(t)
  <2>1. waits' \in [Agents -> BOOLEAN]
    BY <1>3 DEF RunnerGone, Typed, AgentTyped
  <2> QED
    BY <1>3, <2>1 DEF RunnerGone, Typed, ManagerTyped, DiskTyped, WorkerTyped, AgentTyped, ManagerPlace
<1>4. ASSUME NEW n \in Notes, Apply(t, n) PROVE Typed'
  <2>1. upd' \in [Agents -> [Notes -> {"no", "task", "read"}]]
    BY <1>4 DEF Apply, Typed, AgentTyped
  <2> QED
    BY <1>4, <2>1 DEF Apply, Typed, ManagerTyped, DiskTyped, WorkerTyped, AgentTyped, ManagerPlace
<1>5. ASSUME NEW n \in Notes, ThreadWrite(t, n) PROVE Typed'
  <2>1. upd' \in [Agents -> [Notes -> {"no", "task", "read"}]]
    BY <1>5 DEF ThreadWrite, Typed, AgentTyped
  <2>2. rt[t] \in Records /\ n \in Statuses
    BY Apart, Words DEF Typed, DiskTyped
  <2>3. rt' \in [Tasks -> Records] /\ revived' \subseteq Tasks
    BY <1>5, <2>2, Apart, WriteTyped, Marked DEF ThreadWrite
  <2> QED
    BY <1>5, <2>1, <2>3 DEF ThreadWrite, Typed, ManagerTyped, DiskTyped, WorkerTyped, AgentTyped, ManagerPlace
<1>6. CASE AskApproval(t)
  <2>1. budget' \in [tasks : SUBSET Tasks, crashes : Nat, asks : Nat, souls : Nat]
    <3>1. budget.asks - 1 \in Nat
      BY <1>6 DEF AskApproval, Typed, ManagerTyped
    <3> QED
      BY <1>6, <3>1 DEF AskApproval, Typed, ManagerTyped
  <2>2. upd' \in [Agents -> [Notes -> {"no", "task", "read"}]]
    BY <1>6 DEF AskApproval, Typed, AgentTyped, Notes
  <2>3. waits' \in [Agents -> BOOLEAN]
    BY <1>6 DEF AskApproval, Typed, AgentTyped
  <2> QED
    BY <1>6, <2>1, <2>2, <2>3 DEF AskApproval, Typed, ManagerTyped, DiskTyped, WorkerTyped, AgentTyped, ManagerPlace
<1>7. CASE GiveApproval(t)
  <2>1. waits' \in [Agents -> BOOLEAN] /\ upd' \in [Agents -> [Notes -> {"no", "task", "read"}]]
    BY <1>7, SettledTyped DEF GiveApproval, Typed, AgentTyped
  <2> QED
    BY <1>7, <2>1 DEF GiveApproval, Typed, ManagerTyped, DiskTyped, WorkerTyped, AgentTyped, ManagerPlace
<1>8. CASE RunnerEnds(t)
  BY <1>8, ReportTyped DEF RunnerEnds, Finals, Typed, ManagerTyped, AgentTyped
<1>9. CASE RunnerTimesOut(t)
  BY <1>9, ReportTyped, SoulLeftTyped DEF RunnerTimesOut, Finals
<1>10. CASE SoulEnds(t)
  BY <1>10 DEF SoulEnds, diskVars, Typed, ManagerTyped, DiskTyped, WorkerTyped, AgentTyped, ManagerPlace
<1> QED
  BY <1>1, <1>2, <1>3, <1>4, <1>5, <1>6, <1>7, <1>8, <1>9, <1>10 DEF Runner, AgentMoves

LEMMA TypedStep == Typed /\ [Next]_vars => Typed'
<1> SUFFICES ASSUME Typed, [Next]_vars PROVE Typed'
  OBVIOUS
<1>1. CASE StartReconcile \/ Restart
  BY <1>1, RecoverTyped DEF StartReconcile, Restart, Typed, ManagerTyped
<1>2. CASE Publish
  <2>1. CASE Tasks = {}
    BY <1>2, <2>1 DEF Publish, Idle, Ops, workerVars, agentVars, Listed,
       Typed, ManagerTyped, DiskTyped, WorkerTyped, AgentTyped, ManagerPlace
  <2>2. CASE Tasks # {}
    BY <1>2, <2>2, ManagerStepTyped
  <2> QED
    BY <2>1, <2>2
<1>3. ASSUME NEW t \in Tasks,
             \/ BeginBash(t) \/ WriteSpec(t) \/ WriteFiles(t) \/ Popen(t) \/ PopenFails(t) \/ LaunchRead(t)
             \/ LaunchWrite(t) \/ RecoverRead(t) \/ RecoverWrite(t)
      PROVE  Typed'
  BY <1>3, ManagerStepTyped
<1>4. CASE Crash
  BY <1>4, CrashTyped
<1>5. ASSUME NEW t \in Tasks, Kill(t) \/ Age(t) PROVE Typed'
  BY <1>5, KillTyped, AgeTyped
<1>6. ASSUME NEW t \in Agents, NEW i \in Instances, BeginAgent(t, i) PROVE Typed'
  BY <1>6, BeginAgentTyped
<1>7. ASSUME NEW t \in Bash,
             \/ Worker(t) \/ Control(t) \/ BeatRead(t) \/ Timeout(t) \/ CommandEnds(t) \/ WorkerDies(t)
      PROVE  Typed'
  BY <1>7, WorkerStepTyped
<1>8. ASSUME NEW t \in Agents, AgentMoves(t) PROVE Typed'
  BY <1>8, RunnerStepTyped
<1>9. CASE UNCHANGED vars
  BY <1>9 DEF vars, diskVars, workerVars, agentVars, Typed, ManagerTyped, DiskTyped, WorkerTyped, AgentTyped, ManagerPlace
<1> QED
  BY <1>1, <1>2, <1>3, <1>4, <1>5, <1>6, <1>7, <1>8, <1>9 DEF Next, Manager, AgentMoves

\* Every variable has its type in every reachable state.
THEOREM TypeCorrect == Spec => []TypeOK
<1>1. Typed => TypeOK
  BY DEF Typed, ManagerTyped, DiskTyped, WorkerTyped, AgentTyped, Workers, TypeOK
<1> QED
  BY <1>1, TypedInit, TypedStep, PTL DEF Spec

-----------------------------------------------------------------------------
(* What a status stands for, whoever holds it: the record, the copy a      *)
(* worker has in hand, or a notice.  The facts are never undone, so a copy *)
(* or a notice stays true however late it is written or read.              *)

Coming(t) == mgr.op \in {"spec", "files", "popen"} /\ mgr.task = t
Attended(t) == (mgr.op \in {"popen", "read", "launch", "giveup"} /\ mgr.task = t) \/ t \in mgr.todo
Ends == {"completed", "failed", "timed_out"}

\* The command has a result, or will never run.
Over(t) ==
  \/ cmd[t] \in {"ok", "bad"}
  \/ wk[t].pc \in {"none", "done", "dead"} /\ cmd[t] = "none" /\ files[t] # "absent" /\ ~Coming(t)

Fact(t, s) ==
  /\ s = "completed" => cmd[t] = "ok"
  /\ s = "timed_out" => wk[t].timedOut
  /\ s = "killed" => kill[t]
  /\ s = "failed" => Over(t)
  /\ t \in stopped => s \notin {"completed", "failed"}

\* Where the worker is, what it has done.
Placed(t) ==
  /\ wk[t].pc \in {"none", "start", "starting", "check", "spawn"} => cmd[t] = "none"
  /\ wk[t].pc \in {"record", "recording", "wait", "beat", "writing"} => cmd[t] # "none"
  /\ files[t] = "absent" \/ Coming(t) => wk[t].pc = "none" /\ rt[t].status = "created"
  /\ Attended(t) => files[t] # "absent"
  /\ t \in stopped => kill[t] /\ cmd[t] # "none"

\* Only the worker's last write says how a task ended, unless it never began.
LastWord(t) ==
  /\ rt[t].status \in Ends => wk[t].pc \in {"none", "done", "dead"}
  /\ wk[t].pc # "writing" => wk[t].copy.status \notin Ends

\* A step keeps the facts about u, and a status it writes or reads is one.
Keeps(u) ==
  /\ cmd[u] = "ok" => cmd'[u] = "ok"
  /\ wk[u].timedOut => wk'[u].timedOut
  /\ kill[u] => kill'[u]
  /\ Over(u) => Over(u)'
  /\ u \in stopped' => u \in stopped \/ cmd[u] = "run"
  /\ rt'[u].status \in {rt[u].status, wk[u].copy.status} \/ Fact(u, rt[u].status)'
  /\ wk'[u].copy.status \in {rt[u].status, wk[u].copy.status} \/ Fact(u, wk[u].copy.status)'
  /\ Placed(u)' /\ LastWord(u)'

\* Steps of another task, and steps that touch nothing of u that matters here.
Alike(u) ==
  /\ wk'[u].pc = wk[u].pc /\ wk'[u].copy = wk[u].copy /\ (wk[u].timedOut => wk'[u].timedOut)
  /\ rt'[u].status = rt[u].status /\ cmd'[u] = cmd[u] /\ kill'[u] = kill[u] /\ files'[u] = files[u]
  /\ (mgr' = mgr \/ (~Coming(u)' /\ (Attended(u)' => Attended(u) \/ files[u] # "absent"))) /\ (u \in stopped' => u \in stopped)

LEMMA AlikeKeeps ==
  ASSUME Typed, NEW u \in Bash, Placed(u), LastWord(u), Alike(u)
  PROVE  Keeps(u)
BY DEF Alike, Keeps, Over, Placed, LastWord, Coming, Attended

\* What a write and a read of the worker leave behind.
LEMMA WritesAt ==
  ASSUME Typed, NEW t \in Bash, NEW from \in Pcs, NEW to \in Pcs, NEW r \in Records, Writes(t, from, to, r)
  PROVE  /\ wk[t].pc = from /\ wk'[t].pc = to /\ wk'[t].copy = NewRecord /\ wk'[t].timedOut = wk[t].timedOut
         /\ rt'[t] = r /\ \A u \in Bash \ {t} : wk'[u] = wk[u] /\ rt'[u] = rt[u]
         /\ cmd' = cmd /\ kill' = kill /\ files' = files /\ mgr' = mgr /\ stopped' = stopped
<1>1. /\ wk'[t].pc = to /\ wk'[t].copy = NewRecord /\ wk'[t].timedOut = wk[t].timedOut
      /\ \A u \in Bash \ {t} : wk'[u] = wk[u]
  <2>1. Moved(t, to, NewRecord)
    BY DEF Writes, Moved
  <2> QED
    BY <2>1, NewRecordTyped, MovedTyped
<1>2. rt'[t] = r /\ \A u \in Bash \ {t} : rt'[u] = rt[u]
  BY Apart DEF Writes, Write, Typed, DiskTyped
<1>3. wk[t].pc = from /\ cmd' = cmd /\ kill' = kill /\ files' = files /\ mgr' = mgr /\ stopped' = stopped
  BY DEF Writes, WorkerKeeps
<1> QED
  BY <1>1, <1>2, <1>3

LEMMA ReadsAt ==
  ASSUME Typed, NEW t \in Bash, NEW from \in Pcs, NEW to \in Pcs, Reads(t, from, to)
  PROVE  /\ wk[t].pc = from /\ wk'[t].pc = to /\ wk'[t].copy = rt[t] /\ wk'[t].timedOut = wk[t].timedOut
         /\ \A u \in Bash \ {t} : wk'[u] = wk[u]
         /\ rt' = rt /\ cmd' = cmd /\ kill' = kill /\ files' = files /\ mgr' = mgr /\ stopped' = stopped
<1>1. rt[t] \in Records
  BY Apart DEF Typed, DiskTyped
<1>2. /\ wk'[t].pc = to /\ wk'[t].copy = rt[t] /\ wk'[t].timedOut = wk[t].timedOut
      /\ \A u \in Bash \ {t} : wk'[u] = wk[u]
  <2>1. Moved(t, to, rt[t])
    BY DEF Reads, Moved
  <2> QED
    BY <1>1, <2>1, MovedTyped
<1>3. /\ wk[t].pc = from /\ rt' = rt /\ cmd' = cmd /\ kill' = kill /\ files' = files
      /\ mgr' = mgr /\ stopped' = stopped
  BY DEF Reads, WorkerKeeps
<1> QED
  BY <1>2, <1>3

\* A write that is not about how the task ended, and one that ends the worker.
LEMMA WriteKeeps ==
  ASSUME Typed, NEW t \in Bash, NEW from \in Pcs, NEW to \in Pcs, NEW r \in Records, Writes(t, from, to, r),
         NEW s, r.status = s,
         Placed(t), LastWord(t), from # "none",
         \/ r.status \notin Finals
            /\ (<<from, to>> \in {<<"starting", "check">>, <<"recording", "wait">>})
         \/ r.status = wk[t].copy.status /\ <<from, to>> = <<"beat", "wait">>
         \/ to = "done" /\ (r.status = wk[t].copy.status \/ Fact(t, s)')
  PROVE  Keeps(t)
BY WritesAt, NewRecordTyped DEF Keeps, Over, Placed, LastWord, Coming, Attended, Fact, Ends, Finals

LEMMA ReadKeeps ==
  ASSUME Typed, NEW t \in Bash, Placed(t), LastWord(t),
         StartRead(t) \/ RecordRead(t) \/ BeatRead(t)
  PROVE  Keeps(t)
<1>1. PICK from \in {"start", "record", "wait"}, to \in {"starting", "recording", "beat"} :
        /\ Reads(t, from, to)
        /\ <<from, to>> \in {<<"start", "starting">>, <<"record", "recording">>, <<"wait", "beat">>}
  BY DEF StartRead, RecordRead, BeatRead
<1>2. from \in Pcs /\ to \in Pcs
  BY DEF Pcs
<1> QED
  BY <1>1, <1>2, ReadsAt DEF Keeps, Over, Placed, LastWord, Coming, Attended

\* The steps of the worker of t, seen from t and from another task.
LEMMA WorkerKeepsFacts ==
  ASSUME Typed, NEW t \in Bash, Placed(t), LastWord(t),
         \/ Worker(t) \/ Control(t) \/ BeatRead(t) \/ Timeout(t) \/ CommandEnds(t) \/ WorkerDies(t)
  PROVE  Keeps(t)
<1>0. /\ {"none", "start", "starting", "check", "spawn", "record", "recording",
          "wait", "beat", "exit", "writing", "done", "dead"} \subseteq Pcs
      /\ wk[t].copy \in Records /\ rt[t] \in Records /\ t \in Tasks /\ wk[t].copy.status \in Statuses
      /\ wk[t] \in Workers
  BY Apart DEF Pcs, Typed, WorkerTyped, DiskTyped, Workers, Records
<1>1. CASE StartRead(t) \/ RecordRead(t) \/ BeatRead(t)
  BY <1>1, ReadKeeps
<1>2. CASE StartWrite(t)
  <2> DEFINE r == [wk[t].copy EXCEPT !.status = "starting", !.seen = "fresh"]
  <2>1. r \in Records /\ r.status = "starting" /\ Writes(t, "starting", "check", r)
    BY <1>0, <1>2, Reported, Words DEF StartWrite
  <2> HIDE DEF r
  <2> QED
    BY <1>0, <2>1, WriteKeeps DEF Finals
<1>3. CASE Check(t)
  <2>1. CASE kill[t]
    <3> DEFINE r == [rt[t] EXCEPT !.status = "killed", !.fin = TRUE]
    <3>1. r \in Records /\ r.status = "killed" /\ Writes(t, "check", "done", r)
      BY <1>0, <1>3, <2>1, Marked, Words DEF Check
    <3>2. Fact(t, "killed")'
      BY <1>0, <2>1, <3>1, WritesAt DEF Fact
    <3> HIDE DEF r
    <3> QED
      BY <1>0, <3>1, <3>2, WriteKeeps
  <2>2. CASE ~kill[t]
    BY <1>0, <1>3, <2>2 DEF Check, Goto, WorkerKeeps, Keeps, Over, Placed, LastWord, Coming, Attended, Workers, Typed, WorkerTyped
  <2> QED
    BY <2>1, <2>2
<1>4. CASE Spawn(t)
  BY <1>0, <1>4 DEF Spawn, Goto, WorkerKeeps, Keeps, Over, Placed, LastWord, Coming, Attended, Workers, Typed, WorkerTyped
<1>5. CASE SpawnFails(t)
  <2> DEFINE r == [rt[t] EXCEPT !.status = "failed", !.fin = TRUE]
  <2>1. r \in Records /\ r.status = "failed" /\ Writes(t, "spawn", "done", r)
    BY <1>0, <1>5, Marked, Words DEF SpawnFails
  <2>2. Fact(t, "failed")'
    BY <1>0, <2>1, WritesAt DEF Fact, Over, Placed, Coming, Attended
  <2> HIDE DEF r
  <2> QED
    BY <1>0, <2>1, <2>2, WriteKeeps
<1>6. CASE RecordWrite(t)
  <2> DEFINE r == [wk[t].copy EXCEPT !.status = "running", !.seen = "fresh", !.child = TRUE]
  <2>1. r \in Records /\ r.status = "running" /\ Writes(t, "recording", "wait", r)
    BY <1>0, <1>6, Reported, Words DEF RecordWrite
  <2> HIDE DEF r
  <2> QED
    BY <1>0, <2>1, WriteKeeps DEF Finals
<1>7. CASE BeatWrite(t)
  <2> DEFINE r == [wk[t].copy EXCEPT !.seen = "fresh"]
  <2>1. r \in Records /\ r.status = wk[t].copy.status /\ Writes(t, "beat", "wait", r)
    BY <1>0, <1>7, Seen DEF BeatWrite
  <2> QED
    BY <1>0, <2>1, WriteKeeps
<1>8. CASE FinishWrite(t)
  BY <1>0, <1>8, WriteKeeps DEF FinishWrite
<1>9. CASE ControlTerm(t) \/ Timeout(t)
  <2>1. /\ wk'[t].pc = wk[t].pc /\ wk'[t].copy = wk[t].copy /\ (wk[t].timedOut => wk'[t].timedOut)
    BY <1>9, SignalTyped
  <2>2. /\ rt' = rt /\ cmd' = cmd /\ kill' = kill /\ files' = files /\ mgr' = mgr /\ stopped' = stopped
    BY <1>9 DEF ControlTerm, Timeout, WorkerKeeps
  <2>3. Alike(t)
    BY <2>1, <2>2 DEF Alike, Coming, Attended
  <2> QED
    BY <2>3, AlikeKeeps
<1>10. CASE ForceKill(t) \/ CommandEnds(t)
  BY <1>0, <1>10 DEF ForceKill, CommandEnds, WorkerKeeps, Keeps, Over, Placed, LastWord, Coming, Attended, Typed, WorkerTyped
<1>11. CASE Finish(t)
  <2> DEFINE r == [NewRecord EXCEPT !.fin = TRUE, !.child = TRUE, !.status = Verdict(t)]
  <2>1. Verdict(t) \in Statuses
    BY DEF Verdict, Statuses, Finals
  <2>2. r \in Records /\ r.status = Verdict(t) /\ Moved(t, "writing", r)
    BY <1>11, <2>1, Fixed DEF Finish, Moved
  <2> HIDE DEF r
  <2>3. /\ wk'[t].pc = "writing" /\ wk'[t].copy = r /\ wk'[t].timedOut = wk[t].timedOut
    BY <1>0, <2>2, MovedTyped
  <2>4. /\ rt' = rt /\ cmd' = cmd /\ kill' = kill /\ files' = files /\ mgr' = mgr /\ stopped' = stopped
        /\ wk[t].pc = "wait" /\ cmd[t] # "run"
    BY <1>11 DEF Finish, WorkerKeeps
  <2>5. cmd[t] \in {"ok", "bad"}
    BY <2>4 DEF Placed, Typed, WorkerTyped
  <2>6. Fact(t, wk[t].copy.status)'
    BY <2>2, <2>3, <2>4, <2>5 DEF Fact, Verdict, Over, Placed
  <2> QED
    BY <2>3, <2>4, <2>5, <2>6 DEF Keeps, Over, Placed, LastWord, Coming, Attended
<1>12. CASE WorkerDies(t)
  <2>1. Moved(t, "dead", NewRecord)
    BY <1>12 DEF WorkerDies, Moved
  <2>2. /\ wk'[t].pc = "dead" /\ wk'[t].copy = NewRecord /\ wk'[t].timedOut = wk[t].timedOut
    BY <1>0, <2>1, NewRecordTyped, MovedTyped
  <2>3. /\ rt' = rt /\ cmd' = cmd /\ kill' = kill /\ files' = files /\ mgr' = mgr /\ stopped' = stopped
        /\ wk[t].pc \notin {"none", "done", "dead"}
    BY <1>12 DEF WorkerDies, WorkerAlive, WorkerKeeps
  <2>4. Fact(t, wk[t].copy.status)'
    BY <2>2, NewRecordTyped DEF Fact
  <2> QED
    BY <2>2, <2>3, <2>4, NewRecordTyped DEF Keeps, Over, Placed, LastWord, Coming, Attended, Ends
<1> QED
  BY <1>1, <1>2, <1>3, <1>4, <1>5, <1>6, <1>7, <1>8, <1>9, <1>10, <1>11, <1>12 DEF Worker, Control

LEMMA OtherWorkerAlike ==
  ASSUME Typed, NEW t \in Bash, NEW u \in Bash \ {t},
         \/ Worker(t) \/ Control(t) \/ BeatRead(t) \/ Timeout(t) \/ CommandEnds(t) \/ WorkerDies(t)
  PROVE  Alike(u)
<1> USE DEF WorkerKeeps
<1>1. kill' = kill /\ files' = files /\ mgr' = mgr /\ stopped' = stopped
  BY DEF Worker, Control, BeatRead, Timeout, CommandEnds, WorkerDies, StartRead, StartWrite, Check, Spawn, SpawnFails,
     RecordRead, RecordWrite, BeatWrite, FinishWrite, ControlTerm, ForceKill, Finish, Reads, Writes
<1>2. wk'[u] = wk[u]
  BY DEF Worker, Control, BeatRead, Timeout, CommandEnds, WorkerDies, StartRead, StartWrite, Check, Spawn, SpawnFails,
     RecordRead, RecordWrite, BeatWrite, FinishWrite, ControlTerm, ForceKill, Finish, Reads, Writes, Goto,
     Typed, WorkerTyped
<1>3. rt'[u] = rt[u] /\ cmd'[u] = cmd[u]
  BY Apart DEF Worker, Control, BeatRead, Timeout, CommandEnds, WorkerDies, StartRead, StartWrite, Check, Spawn,
     SpawnFails, RecordRead, RecordWrite, BeatWrite, FinishWrite, ControlTerm, ForceKill, Finish, Reads, Writes, Write,
     Typed, WorkerTyped, DiskTyped
<1> QED
  BY <1>1, <1>2, <1>3 DEF Alike, Coming, Attended

LEMMA GivenUpTo ==
  ASSUME Typed, NEW t \in Tasks, RecoverWrite(t)
  PROVE  mgr'.op = "recover" /\ mgr.op = "giveup" /\ mgr.task = t /\ mgr'.todo = mgr.todo
<1> DEFINE m == [mgr EXCEPT !.op = "recover"]
<1>1. m \in [op : Ops, task : Tasks \cup {None}, todo : SUBSET Tasks] /\ m.op = "recover"
      /\ m.todo = mgr.todo
  BY DEF Typed, ManagerTyped, Ops
<1>2. mgr' = [m EXCEPT !.task = None]
  BY DEF RecoverWrite
<1> HIDE DEF m
<1> QED
  BY <1>1, <1>2 DEF RecoverWrite, Busy

\* The steps of the session that touch no command, or not u.
LEMMA SessionAlike ==
  ASSUME Typed, NEW u \in Bash,
         \/ StartReconcile \/ Restart \/ Publish \/ Crash
         \/ \E t \in Tasks : LaunchRead(t) \/ RecoverRead(t) \/ Age(t)
         \/ \E t \in Agents, i \in Instances : BeginAgent(t, i)
  PROVE  Alike(u)
<1> USE Apart DEF Alike, Coming, Attended, diskVars, workerVars, agentVars, Idle, At
<1>1. CASE StartReconcile \/ Restart
  <2>1. rt'[u] = rt[u] /\ mgr'.op = "recover"
    <3>1. u \in Tasks /\ u \notin Dead
      BY DEF Dead
    <3>2. Recover
      BY <1>1 DEF StartReconcile, Restart
    <3> QED
      BY <3>1, <3>2 DEF Recover
  <2>2. Attended(u)' => files[u] # "absent"
    <3>1. mgr' = [op |-> "recover", task |-> None, todo |-> Active \cap Bash]
      BY <1>1 DEF StartReconcile, Restart, Recover
    <3>2. Attended(u)' => u \in Active
      BY <3>1
    <3> QED
      BY <3>2 DEF Active, Listed
  <2> QED
    BY <1>1, <2>1, <2>2 DEF StartReconcile, Restart, Recover
<1>2. CASE Publish \/ Crash
  BY <1>2 DEF Publish, Crash
<1>3. ASSUME NEW t \in Tasks, LaunchRead(t) \/ RecoverRead(t) PROVE Alike(u)
  <2>1. mgr'.op \in {"launch", "idle", "recover", "giveup"}
    BY <1>3 DEF LaunchRead, RecoverRead, Typed, ManagerTyped
  <2>2. CASE LaunchRead(t)
    BY <2>1, <2>2 DEF LaunchRead, Busy
  <2>3. CASE RecoverRead(t)
    <3>1. mgr'.todo = mgr.todo \ {t} /\ (mgr'.op = "giveup" => mgr'.task = t) /\ t \in mgr.todo
      BY <2>3 DEF RecoverRead, Typed, ManagerTyped
    <3>2. mgr.op = "recover" /\ (mgr'.op \in {"popen", "read", "launch", "giveup"} => mgr'.op = "giveup")
      BY <2>1, <2>3 DEF RecoverRead
    <3>3. Attended(u)' => Attended(u)
      BY <3>1, <3>2
    <3> QED
      BY <2>1, <2>3, <3>3 DEF RecoverRead
  <2> QED
    BY <1>3, <2>2, <2>3
<1>4. ASSUME NEW t \in Tasks, Age(t) PROVE Alike(u)
  <2>1. rt'[u].status = rt[u].status
    BY <1>4 DEF Age, Typed, DiskTyped, Records
  <2> QED
    BY <1>4, <2>1 DEF Age
<1>5. ASSUME NEW t \in Agents, NEW i \in Instances, BeginAgent(t, i) PROVE Alike(u)
  BY <1>5 DEF BeginAgent, CanCreate, LoopFree
<1> QED
  BY <1>1, <1>2, <1>3, <1>4, <1>5

LEMMA RunnerAlike ==
  ASSUME Typed, NEW u \in Bash, NEW t \in Agents, AgentMoves(t)
  PROVE  Alike(u)
<1>1. rt'[u] = rt[u]
  BY Apart DEF AgentMoves, Runner, AskApproval, GiveApproval, RunnerEnds, RunnerTimesOut, SoulEnds, RunnerStart,
     RunnerCancelled, RunnerGone, Apply, ThreadWrite, Report, Mark, Write, diskVars, Typed, DiskTyped
<1>2. wk' = wk /\ cmd' = cmd /\ kill' = kill /\ files' = files /\ mgr' = mgr /\ stopped' = stopped
  BY DEF AgentMoves, Runner, AskApproval, GiveApproval, RunnerEnds, RunnerTimesOut, SoulEnds, RunnerStart,
     RunnerCancelled, RunnerGone, Apply, ThreadWrite, Report, RunnerKeeps, diskVars, workerVars
<1> QED
  BY <1>1, <1>2 DEF Alike, Coming, Attended

\* The manager's operations on t, and the kill of t, seen from any command.
LEMMA ManagerKeepsFacts ==
  ASSUME Typed, NEW u \in Bash, Placed(u), LastWord(u), NEW t \in Tasks,
         \/ BeginBash(t) \/ WriteSpec(t) \/ WriteFiles(t) \/ Popen(t) \/ PopenFails(t)
         \/ LaunchWrite(t) \/ RecoverWrite(t) \/ Kill(t)
  PROVE  Keeps(u)
<1> USE Apart DEF diskVars, workerVars, agentVars, Busy, Idle, At
<1>0. u \in Tasks /\ rt[u] \in Records /\ rt[t] \in Records
  BY DEF Typed, DiskTyped
<1>1. CASE BeginBash(t)
  BY <1>1 DEF BeginBash, CanCreate, LoopFree, Keeps, Over, Placed, LastWord, Coming, Attended
<1>2. CASE WriteSpec(t)
  BY <1>0, <1>2 DEF WriteSpec, Keeps, Over, Placed, LastWord, Coming, Attended, Typed, DiskTyped
<1>3. CASE WriteFiles(t)
  <2>1. CASE t \in Bash
    BY <1>0, <1>3, <2>1 DEF WriteFiles, Keeps, Over, Placed, LastWord, Coming, Attended, Typed, DiskTyped
  <2>2. CASE t \notin Bash
    <3>1. rt'[u] = rt[u] /\ files'[u] = files[u]
      BY <1>3, <2>2 DEF WriteFiles, Mark, Write, Typed, DiskTyped
    <3>2. Alike(u)
      BY <1>3, <2>2, <3>1 DEF WriteFiles, Alike, Coming, Attended
    <3> QED
      BY <3>2, AlikeKeeps
  <2> QED
    BY <2>1, <2>2
<1>4. CASE Popen(t)
  <2>1. CASE u = t
    <3>1. wk'[u].pc = "start" /\ wk'[u].copy = wk[u].copy /\ wk'[u].timedOut = wk[u].timedOut
      BY <1>4, <2>1 DEF Popen, Typed, WorkerTyped, Workers
    <3>2. wk[u].pc = "none" /\ rt[u].status = "created" /\ cmd[u] = "none" /\ files[u] # "absent"
          /\ wk[u].copy.status \notin Ends
      BY <1>4, <2>1 DEF Popen, Placed, Coming, Attended, LastWord
    <3>3. /\ rt' = rt /\ cmd' = cmd /\ kill' = kill /\ files' = files /\ stopped' = stopped
          /\ mgr.op = "popen" /\ mgr.task = u /\ mgr'.op = "read"
      BY <1>4, <2>1 DEF Popen
    <3> QED
      BY <3>1, <3>2, <3>3 DEF Keeps, Over, Placed, LastWord, Coming, Attended, Ends
  <2>2. CASE u # t
    <3>1. wk'[u] = wk[u]
      BY <1>4, <2>2 DEF Popen, Typed, WorkerTyped
    <3>2. Alike(u)
      BY <1>4, <3>1 DEF Popen, Alike, Coming, Attended
    <3> QED
      BY <3>2, AlikeKeeps
  <2> QED
    BY <2>1, <2>2
<1>5. CASE PopenFails(t)
  <2>1. CASE u = t
    <3>1. rt[u].status = "created" /\ wk[u].pc = "none" /\ cmd[u] = "none"
      BY <1>5, <2>1 DEF PopenFails, Placed, Coming, Attended
    <3>2. rt'[u].status = "failed"
      <4>1. rt'[u] = [rt[u] EXCEPT !.status = "failed", !.fin = "failed" \in Finals]
        BY <1>0, <1>5, <2>1, <3>1 DEF PopenFails, Mark, Write, IsFinal, Finals, Typed, DiskTyped
      <4>2. ("failed" \in Finals) \in BOOLEAN
        OBVIOUS
      <4> QED
        BY <1>0, <4>1, <4>2 DEF Records
    <3> QED
      BY <1>5, <2>1, <3>1, <3>2 DEF PopenFails, Keeps, Over, Placed, LastWord, Coming, Attended, Fact
  <2>2. CASE u # t
    <3>1. rt'[u] = rt[u]
      BY <1>5, <2>2 DEF PopenFails, Mark, Write, Typed, DiskTyped
    <3>2. Alike(u)
      BY <1>5, <3>1 DEF PopenFails, Alike, Coming, Attended
    <3> QED
      BY <3>2, AlikeKeeps
  <2> QED
    BY <2>1, <2>2
<1>6. CASE LaunchWrite(t) \/ RecoverWrite(t)
  <2>1. CASE u = t
    <3>1. CASE LaunchWrite(t)
      <4>1. rt'[u].status = "starting"
        BY <1>0, <2>1, <3>1, Fixed DEF LaunchWrite, Write, Typed, DiskTyped
      <4>2. mgr'.op = "idle" /\ mgr.op = "launch"
        BY <3>1 DEF LaunchWrite
      <4> QED
        BY <2>1, <3>1, <4>1, <4>2 DEF LaunchWrite, Keeps, Over, Placed, LastWord, Coming, Attended, Fact, Ends
    <3>2. CASE RecoverWrite(t)
      <4>1. rt'[u] = [rt[u] EXCEPT !.status = IF kill[u] THEN "killed" ELSE "lost", !.fin = TRUE]
        BY <1>0, <2>1, <3>2 DEF RecoverWrite, Write, Typed, DiskTyped
      <4>2. rt'[u].status = IF kill[u] THEN "killed" ELSE "lost"
        <5>1. (IF kill[u] THEN "killed" ELSE "lost") \in Statuses
          BY Words
        <5> QED
          BY <1>0, <4>1, <5>1 DEF Records
      <4>3. mgr'.op = "recover" /\ mgr.op = "giveup" /\ mgr.task = t
        BY <3>2, GivenUpTo
      <4> QED
        BY <2>1, <3>2, <4>2, <4>3 DEF RecoverWrite, Keeps, Over, Placed, LastWord, Coming, Attended, Fact, Ends
    <3> QED
      BY <1>6, <3>1, <3>2
  <2>2. CASE u # t
    <3>1. rt'[u] = rt[u]
      BY <1>6, <2>2 DEF LaunchWrite, RecoverWrite, Write, Typed, DiskTyped
    <3>2. mgr'.op \in {"idle", "recover"}
      BY <1>6, GivenUpTo DEF LaunchWrite
    <3>3. Attended(u)' => Attended(u)
      BY <1>6, <3>2, GivenUpTo DEF LaunchWrite, Attended
    <3>4. Alike(u)
      BY <1>6, <3>1, <3>2, <3>3 DEF LaunchWrite, RecoverWrite, Alike, Coming
    <3> QED
      BY <3>4, AlikeKeeps
  <2> QED
    BY <2>1, <2>2
<1>7. CASE Kill(t)
  <2>1. rt'[u] = rt[u]
    BY <1>7 DEF Kill, Mark, Write, Typed, DiskTyped
  <2> QED
    BY <1>7, <2>1 DEF Kill, Keeps, Over, Placed, LastWord, Coming, Attended, Typed, DiskTyped
<1> QED
  BY <1>1, <1>2, <1>3, <1>4, <1>5, <1>6, <1>7

-----------------------------------------------------------------------------
(* The notices about commands.                                             *)

Honest ==
  /\ \A u \in Bash : Placed(u) /\ LastWord(u)
  /\ \A u \in Bash : Fact(u, rt[u].status) /\ Fact(u, wk[u].copy.status)
  /\ \A u \in Bash, s \in Finals : <<u, s>> \in notices => Fact(u, s)

LEMMA EveryStepKeeps ==
  ASSUME Typed, [Next]_vars, NEW u \in Bash, Placed(u), LastWord(u)
  PROVE  Keeps(u)
<1>1. CASE StartReconcile \/ Restart \/ Publish \/ Crash
  BY <1>1, SessionAlike, AlikeKeeps
<1>2. ASSUME NEW t \in Tasks, LaunchRead(t) \/ RecoverRead(t) \/ Age(t) PROVE Keeps(u)
  BY <1>2, SessionAlike, AlikeKeeps
<1>3. ASSUME NEW t \in Agents, NEW i \in Instances, BeginAgent(t, i) PROVE Keeps(u)
  BY <1>3, SessionAlike, AlikeKeeps
<1>4. ASSUME NEW t \in Tasks,
             \/ BeginBash(t) \/ WriteSpec(t) \/ WriteFiles(t) \/ Popen(t) \/ PopenFails(t)
             \/ LaunchWrite(t) \/ RecoverWrite(t) \/ Kill(t)
      PROVE  Keeps(u)
  BY <1>4, ManagerKeepsFacts
<1>5. ASSUME NEW t \in Bash,
             \/ Worker(t) \/ Control(t) \/ BeatRead(t) \/ Timeout(t) \/ CommandEnds(t) \/ WorkerDies(t)
      PROVE  Keeps(u)
  <2>1. CASE t = u
    BY <1>5, <2>1, WorkerKeepsFacts
  <2>2. CASE t # u
    BY <1>5, <2>2, OtherWorkerAlike, AlikeKeeps
  <2> QED
    BY <2>1, <2>2
<1>6. ASSUME NEW t \in Agents, AgentMoves(t) PROVE Keeps(u)
  BY <1>6, RunnerAlike, AlikeKeeps
<1>7. CASE UNCHANGED vars
  <2>1. Alike(u)
    BY <1>7 DEF vars, diskVars, workerVars, agentVars, Alike, Coming
  <2> QED
    BY <2>1, AlikeKeeps
<1> QED
  BY <1>1, <1>2, <1>3, <1>4, <1>5, <1>6, <1>7 DEF Next, Manager, AgentMoves

\* Notices are published from the records, and never taken back.
LEMMA NoticesFrom ==
  ASSUME [Next]_vars, NEW u \in Tasks, NEW s \in Finals, <<u, s>> \in notices' \ notices
  PROVE  s = rt[u].status /\ UNCHANGED <<rt, wk, cmd, outcome>>
<1>1. \A t \in Tasks : ~ \/ BeginBash(t) \/ WriteSpec(t) \/ WriteFiles(t) \/ Popen(t) \/ PopenFails(t)
                         \/ LaunchRead(t) \/ LaunchWrite(t) \/ RecoverRead(t) \/ RecoverWrite(t) \/ Kill(t) \/ Age(t)
  BY DEF BeginBash, WriteSpec, WriteFiles, Popen, PopenFails, LaunchRead, LaunchWrite, RecoverRead, RecoverWrite, Kill, Age,
     diskVars
<1>2. ~Crash /\ ~StartReconcile /\ ~Restart /\ \A t \in Agents, i \in Instances : ~BeginAgent(t, i)
  BY DEF Crash, StartReconcile, Restart, Recover, BeginAgent, diskVars
<1>3. \A t \in Bash : ~(Worker(t) \/ Control(t) \/ BeatRead(t) \/ Timeout(t) \/ CommandEnds(t) \/ WorkerDies(t))
  BY DEF Worker, Control, StartRead, StartWrite, Check, Spawn, SpawnFails, RecordRead, RecordWrite, BeatRead, BeatWrite,
     FinishWrite, ControlTerm, ForceKill, Finish, Timeout, CommandEnds, WorkerDies, Reads, Writes, WorkerKeeps
<1>4. \A t \in Agents : ~AgentMoves(t)
  BY DEF AgentMoves, Runner, RunnerStart, RunnerCancelled, RunnerGone, Apply, ThreadWrite, AskApproval, GiveApproval,
     RunnerEnds, RunnerTimesOut, SoulEnds, Report, RunnerKeeps, diskVars
<1>5. Publish
  BY <1>1, <1>2, <1>3, <1>4 DEF Next, Manager, AgentMoves, vars, diskVars
<1> QED
  BY <1>5 DEF Publish, workerVars, agentVars

LEMMA FactsStay ==
  ASSUME NEW u \in Bash, NEW s, Keeps(u), Fact(u, s), Placed(u), LastWord(u)
  PROVE  Fact(u, s)'
BY DEF Keeps, Fact, Over, Placed

LEMMA HonestStep == Typed /\ Honest /\ [Next]_vars => Honest'
<1> SUFFICES ASSUME Typed, Honest, [Next]_vars PROVE Honest'
  OBVIOUS
<1>1. \A u \in Bash : Keeps(u)
  BY EveryStepKeeps DEF Honest
<1>2. \A u \in Bash : (Placed(u) /\ LastWord(u))'
  BY <1>1 DEF Keeps
<1>3. ASSUME NEW u \in Bash PROVE Fact(u, rt[u].status)' /\ Fact(u, wk[u].copy.status)'
  <2>1. Fact(u, rt[u].status) /\ Fact(u, wk[u].copy.status) /\ Placed(u) /\ LastWord(u) /\ Keeps(u)
    BY <1>1 DEF Honest
  <2>2. \A s : Fact(u, s) => Fact(u, s)'
    BY <2>1, FactsStay
  <2>3. \A s : s = rt'[u].status /\ s \in {rt[u].status, wk[u].copy.status} => Fact(u, rt[u].status)'
    BY <2>1, <2>2 DEF Fact
  <2>4. \A s : s = wk'[u].copy.status /\ s \in {rt[u].status, wk[u].copy.status} => Fact(u, wk[u].copy.status)'
    BY <2>1, <2>2 DEF Fact
  <2> QED
    BY <2>1, <2>3, <2>4 DEF Keeps
<1>4. ASSUME NEW u \in Bash, NEW s \in Finals, <<u, s>> \in notices' PROVE Fact(u, s)'
  <2>1. Fact(u, s)
    BY <1>4, Apart, NoticesFrom DEF Honest
  <2> QED
    BY <1>1, <2>1, FactsStay DEF Honest
<1> QED
  BY <1>2, <1>3, <1>4 DEF Honest

LEMMA HonestInit == Init => Honest
BY NewRecordTyped, Apart DEF Init, Honest, Placed, LastWord, Fact, Coming, Attended, Idle, Ends

\* A command that is asked to stop while it runs is never told to have completed or failed.
THEOREM StopIsFinal == Spec => []StopNeverCompletes
<1>1. Typed /\ Honest => StopNeverCompletes
  BY DEF Typed, DiskTyped, Honest, Fact, StopNeverCompletes, Finals
<1> QED
  BY <1>1, TypedInit, TypedStep, HonestInit, HonestStep, PTL DEF Spec

-----------------------------------------------------------------------------
(* Who replaces a final status.                                            *)

ByOldCopy(t) ==
  \/ Busy("launch", t) \/ Busy("giveup", t)
  \/ t \in Bash /\ WorkerAlive(t) /\ rt[t].status \in {"killed", "lost"}
  \/ t \in Agents /\ \E n \in Notes : upd[t][n] = "read"

Changed(t) == IsFinal(t) /\ rt[t].status # rt'[t].status

LEMMA MarkLeaves ==
  ASSUME Typed, NEW u \in Tasks, NEW s \in Statuses, Mark(u, s), NEW t \in Tasks
  PROVE  ~Changed(t)
BY DEF Mark, Write, Changed, IsFinal, Typed, DiskTyped

LEMMA WorkerChanges ==
  ASSUME Typed, Honest, NEW u \in Bash, NEW t \in Tasks, Changed(t),
         \/ Worker(u) \/ Control(u) \/ BeatRead(u) \/ Timeout(u) \/ CommandEnds(u) \/ WorkerDies(u)
  PROVE  ByOldCopy(t)
<1>1. PICK from \in Pcs, to \in Pcs, r \in Records :
        Writes(u, from, to, r) /\ from \notin {"none", "done", "dead"}
  <2>1. rt' # rt
    BY DEF Changed
  <2>2. \/ StartWrite(u) \/ (Check(u) /\ kill[u]) \/ SpawnFails(u) \/ RecordWrite(u) \/ BeatWrite(u) \/ FinishWrite(u)
    BY <2>1 DEF Worker, Control, StartRead, Check, Spawn, RecordRead, BeatRead, ControlTerm, ForceKill, Finish, Timeout,
       CommandEnds, WorkerDies, Reads, WorkerKeeps
  <2>3. wk[u].copy \in Records /\ rt[u] \in Records
    BY Apart DEF Typed, WorkerTyped, DiskTyped, Workers
  <2>4. /\ {"starting", "check", "spawn", "recording", "wait", "beat", "writing", "done"} \subseteq Pcs
        /\ wk[u].copy.status \in Statuses
    BY <2>3 DEF Pcs, Records
  <2>5. CASE StartWrite(u)
    <3>1. [wk[u].copy EXCEPT !.status = "starting", !.seen = "fresh"] \in Records
      BY <2>3, Reported, Words
    <3> QED
      BY <2>4, <2>5, <3>1 DEF StartWrite
  <2>6. CASE Check(u) /\ kill[u]
    <3>1. [rt[u] EXCEPT !.status = "killed", !.fin = TRUE] \in Records
      BY <2>3, Marked, Words
    <3> QED
      BY <2>4, <2>6, <3>1 DEF Check
  <2>7. CASE SpawnFails(u)
    <3>1. [rt[u] EXCEPT !.status = "failed", !.fin = TRUE] \in Records
      BY <2>3, Marked, Words
    <3> QED
      BY <2>4, <2>7, <3>1 DEF SpawnFails
  <2>8. CASE RecordWrite(u)
    <3>1. [wk[u].copy EXCEPT !.status = "running", !.seen = "fresh", !.child = TRUE] \in Records
      BY <2>3, Reported, Words
    <3> QED
      BY <2>4, <2>8, <3>1 DEF RecordWrite
  <2>9. CASE BeatWrite(u)
    <3>1. [wk[u].copy EXCEPT !.seen = "fresh"] \in Records
      BY <2>3, Seen
    <3> QED
      BY <2>4, <2>9, <3>1 DEF BeatWrite
  <2>10. CASE FinishWrite(u)
    BY <2>3, <2>4, <2>10 DEF FinishWrite
  <2> QED
    BY <2>2, <2>5, <2>6, <2>7, <2>8, <2>9, <2>10
<1>2. t = u
  BY <1>1 DEF Writes, Write, Changed, Typed, DiskTyped
<1>3. wk[t].pc \notin {"none", "done", "dead"}
  BY <1>1, <1>2 DEF Writes
<1> QED
  BY <1>2, <1>3 DEF ByOldCopy, WorkerAlive, Honest, LastWord, Ends, Changed, IsFinal, Finals

LEMMA RunnerChanges ==
  ASSUME Typed, NEW u \in Agents, NEW t \in Tasks, Changed(t),
         AgentMoves(u)
  PROVE  ByOldCopy(t)
<1>1. rt' # rt
  BY DEF Changed
<1>2. ~RunnerStart(u)
  BY MarkLeaves, Apart, Words DEF RunnerStart
<1>3. \A s \in Finals : ~Report(u, s)
  BY MarkLeaves, Apart, Words DEF Report
<1>4. PICK n \in Notes : ThreadWrite(u, n)
  BY <1>1, <1>2, <1>3 DEF AgentMoves, Runner, RunnerCancelled, RunnerGone, RunnerEnds, RunnerTimesOut, SoulEnds, Apply,
     AskApproval, GiveApproval, diskVars, Finals
<1>5. t = u
  BY <1>4, Apart DEF ThreadWrite, Write, Changed, Typed, DiskTyped
<1> QED
  BY <1>4, <1>5 DEF ThreadWrite, ByOldCopy

LEMMA ManagerChanges ==
  ASSUME Typed, NEW u \in Tasks, NEW t \in Tasks, Changed(t),
         \/ BeginBash(u) \/ WriteSpec(u) \/ WriteFiles(u) \/ Popen(u) \/ PopenFails(u)
         \/ LaunchRead(u) \/ LaunchWrite(u) \/ RecoverRead(u) \/ RecoverWrite(u) \/ Kill(u) \/ Age(u)
  PROVE  ByOldCopy(t)
<1>1. rt' # rt
  BY DEF Changed
<1>2. ~PopenFails(u) /\ ~WriteFiles(u) /\ ~Kill(u)
  BY <1>1, MarkLeaves, Words DEF PopenFails, WriteFiles, Kill
<1>3. ~Age(u)
  BY DEF Age, Changed, IsFinal, Typed, DiskTyped, Records
<1>4. LaunchWrite(u) \/ RecoverWrite(u)
  BY <1>1, <1>2, <1>3 DEF BeginBash, WriteSpec, Popen, LaunchRead, RecoverRead, diskVars
<1>5. t = u
  BY <1>4 DEF LaunchWrite, RecoverWrite, Write, Changed, Typed, DiskTyped
<1> QED
  BY <1>4, <1>5 DEF LaunchWrite, RecoverWrite, ByOldCopy, Busy

LEMMA FinalKeptStep == Typed /\ Honest /\ [Next]_vars => \A t \in Tasks : Changed(t) => ByOldCopy(t)
<1> SUFFICES ASSUME Typed, Honest, [Next]_vars, NEW t \in Tasks, Changed(t) PROVE ByOldCopy(t)
  OBVIOUS
<1>1. rt' # rt
  BY DEF Changed
<1>2. ~Publish /\ ~Crash /\ ~UNCHANGED vars /\ \A u \in Agents, i \in Instances : ~BeginAgent(u, i)
  BY <1>1 DEF Publish, Crash, BeginAgent, diskVars, vars
<1>3. ~StartReconcile /\ ~Restart
  BY DEF StartReconcile, Restart, Recover, Dead, Active, Changed
<1> QED
  BY <1>2, <1>3, WorkerChanges, RunnerChanges, ManagerChanges DEF Next, Manager, AgentMoves

\* A final status is replaced only by a writer that works on an old copy.
THEOREM FinalIsKept == Spec => FinalKept
<1>1. (\A t \in Tasks : Changed(t) => ByOldCopy(t)) =>
        \A t \in Tasks : IsFinal(t) /\ rt[t].status # rt'[t].status =>
          \/ Busy("launch", t) \/ Busy("giveup", t)
          \/ t \in Bash /\ WorkerAlive(t) /\ rt[t].status \in {"killed", "lost"}
          \/ t \in Agents /\ \E n \in Notes : upd[t][n] = "read"
  BY DEF Changed, ByOldCopy
<1> QED
  BY <1>1, TypedInit, TypedStep, HonestInit, HonestStep, FinalKeptStep, PTL DEF Spec, FinalKept

-----------------------------------------------------------------------------
(* The notices about agents.                                               *)

AgentFact(t, s) ==
  /\ s = "completed" => outcome[t] = "completed"
  /\ s = "timed_out" => outcome[t] = "timed_out"
  /\ s = "killed" => kill[t] \/ outcome[t] = "killed"

Open(t) ==
  /\ run[t] \notin {"ended", "gone"} => outcome[t] = None
  /\ files[t] = "absent" \/ Coming(t) => run[t] = "none"

AgentsHonest ==
  /\ \A t \in Agents : Open(t) /\ AgentFact(t, rt[t].status)
  /\ \A t \in Agents, s \in Finals : <<t, s>> \in notices => AgentFact(t, s)

AgentKeeps(t) ==
  /\ Open(t)' /\ (kill[t] => kill'[t]) /\ (outcome[t] # None => outcome'[t] = outcome[t])
  /\ rt'[t].status = rt[t].status \/ AgentFact(t, rt[t].status)'

LEMMA MarkSays ==
  ASSUME Typed, NEW u \in Tasks, NEW s \in Statuses, Mark(u, s)
  PROVE  /\ \A t \in Tasks \ {u} : rt'[t] = rt[t]
         /\ rt'[u].status \in {rt[u].status, s} /\ (IsFinal(u) => rt'[u].status = rt[u].status)
         /\ (~IsFinal(u) => rt'[u].status = s)
<1>1. CASE IsFinal(u)
  BY <1>1 DEF Mark
<1>2. CASE ~IsFinal(u)
  <2>1. (s \in Finals) \in BOOLEAN /\ rt[u] \in Records
    BY DEF Typed, DiskTyped
  <2>2. [rt[u] EXCEPT !.status = s, !.fin = s \in Finals].status = s
    BY <2>1, Marked
  <2>3. Write(u, [rt[u] EXCEPT !.status = s, !.fin = s \in Finals])
    BY <1>2 DEF Mark
  <2> QED
    BY <1>2, <2>2, <2>3 DEF Write, Typed, DiskTyped
<1> QED
  BY <1>1, <1>2

LEMMA ReportAgentKeeps ==
  ASSUME Typed, NEW u \in Agents, NEW t \in Agents, Open(t), Open(u), run[u] \in {"core", "cancelling"},
         NEW s \in Finals, Report(u, s)
  PROVE  AgentKeeps(t)
<1>1. /\ \A v \in Tasks \ {u} : rt'[v] = rt[v]
      /\ rt'[u].status \in {rt[u].status, s}
  BY MarkSays, Apart, Words DEF Report
<1>2. outcome[u] = None /\ outcome'[u] = s /\ \A v \in Agents \ {u} : outcome'[v] = outcome[v] /\ run'[v] = run[v]
  BY DEF Open, Coming, Report, Typed, AgentTyped
<1>3. kill' = kill /\ files' = files /\ mgr' = mgr /\ run'[u] = "ended"
  BY DEF Report, RunnerKeeps, Typed, AgentTyped
<1>4. t \in Tasks
  BY Apart
<1>5. CASE t = u
  BY <1>1, <1>2, <1>3, <1>5 DEF AgentKeeps, AgentFact, Open, Coming
<1>6. CASE t # u
  BY <1>1, <1>2, <1>3, <1>4, <1>6 DEF AgentKeeps, Open, Coming
<1> QED
  BY <1>5, <1>6

LEMMA RunnerAgentKeeps ==
  ASSUME Typed, AgentsHonest, NEW u \in Agents, NEW t \in Agents,
         AgentMoves(u)
  PROVE  AgentKeeps(t)
<1>0. t \in Tasks /\ u \in Tasks /\ Open(t) /\ Open(u) /\ rt[u] \in Records
  BY Apart DEF AgentsHonest, Typed, DiskTyped
<1>1. CASE RunnerStart(u)
  <2>1. rt'[t].status = rt[t].status \/ rt'[t].status = "running"
    BY <1>0, <1>1, MarkSays, Words DEF RunnerStart
  <2> QED
    BY <1>0, <1>1, <2>1 DEF RunnerStart, RunnerKeeps, AgentKeeps, AgentFact, Open, Coming, Typed, AgentTyped
<1>2. CASE RunnerCancelled(u) \/ RunnerEnds(u) \/ RunnerTimesOut(u)
  BY <1>0, <1>2, ReportAgentKeeps DEF RunnerCancelled, RunnerEnds, RunnerTimesOut, Finals
<1>3. CASE RunnerGone(u) \/ AskApproval(u) \/ GiveApproval(u) \/ \E n \in Notes : Apply(u, n)
  BY <1>0, <1>3 DEF RunnerGone, AskApproval, GiveApproval, Apply, RunnerKeeps, AgentKeeps, Open, Coming, Typed, AgentTyped
<1>4. ASSUME NEW n \in Notes, ThreadWrite(u, n) PROVE AgentKeeps(t)
  <2>1. [rt[u] EXCEPT !.status = n, !.fin = FALSE].status = n
    BY <1>0, Marked, Words
  <2>2. rt'[t].status = rt[t].status \/ rt'[t].status = n
    BY <1>0, <1>4, <2>1 DEF ThreadWrite, Write, Typed, DiskTyped
  <2> QED
    BY <1>0, <1>4, <2>2 DEF ThreadWrite, RunnerKeeps, AgentKeeps, AgentFact, Open, Coming, Notes
<1>5. CASE SoulEnds(u)
  BY <1>0, <1>5 DEF SoulEnds, diskVars, AgentKeeps, Open, Coming
<1> QED
  BY <1>1, <1>2, <1>3, <1>4, <1>5 DEF Runner, AgentMoves

LEMMA AgentEveryStepKeeps ==
  ASSUME Typed, AgentsHonest, [Next]_vars, NEW t \in Agents
  PROVE  AgentKeeps(t)
<1>0. t \in Tasks /\ Open(t) /\ t \notin Bash
  BY Apart DEF AgentsHonest
<1> USE DEF diskVars, workerVars, agentVars, Busy, Idle, At
<1>1. CASE StartReconcile \/ Restart
  <2>1. Recover
    BY <1>1 DEF StartReconcile, Restart
  <2>2. rt[t] \in Records /\ [rt[t] EXCEPT !.status = "lost", !.fin = TRUE].status = "lost"
    BY <1>0, Marked, Words DEF Typed, DiskTyped
  <2>3. rt'[t] \in {rt[t], [rt[t] EXCEPT !.status = "lost", !.fin = TRUE]}
    BY <1>0, <2>1 DEF Recover
  <2>4. rt'[t].status \in {rt[t].status, "lost"}
    BY <2>2, <2>3
  <2>5. mgr'.op = "recover"
    BY <2>1 DEF Recover
  <2> QED
    BY <1>0, <2>1, <2>4, <2>5 DEF Recover, AgentKeeps, AgentFact, Open, Coming
<1>2. CASE Publish \/ UNCHANGED vars
  BY <1>0, <1>2 DEF Publish, vars, AgentKeeps, Open, Coming
<1>3. CASE Crash
  BY <1>0, <1>3 DEF Crash, Live, AgentKeeps, Open, Coming
<1>4. ASSUME NEW u \in Tasks,
             \/ BeginBash(u) \/ WriteSpec(u) \/ Popen(u) \/ LaunchRead(u) \/ RecoverRead(u)
      PROVE  AgentKeeps(t)
  <2>1. CASE BeginBash(u)
    BY <1>0, <2>1 DEF BeginBash, AgentKeeps, Open, Coming
  <2>2. CASE WriteSpec(u)
    BY <1>0, <2>2 DEF WriteSpec, AgentKeeps, Open, Coming, Typed, DiskTyped
  <2>3. CASE Popen(u)
    <3>1. mgr'.op = "read"
      BY <2>3 DEF Popen
    <3> QED
      BY <1>0, <2>3, <3>1 DEF Popen, AgentKeeps, Open, Coming
  <2>4. CASE LaunchRead(u) \/ RecoverRead(u)
    <3>1. mgr'.op \in {"launch", "idle", "recover", "giveup"}
      BY <2>4 DEF LaunchRead, RecoverRead, Typed, ManagerTyped
    <3> QED
      BY <1>0, <2>4, <3>1 DEF LaunchRead, RecoverRead, AgentKeeps, Open, Coming
  <2> QED
    BY <1>4, <2>1, <2>2, <2>3, <2>4
<1>5. ASSUME NEW u \in Tasks, WriteFiles(u) PROVE AgentKeeps(t)
  <2>1. rt'[t].status \in {rt[t].status, "starting"}
    BY <1>0, <1>5, MarkSays, Words DEF WriteFiles
  <2>2. outcome' = outcome /\ kill' = kill /\ (run'[t] = run[t] \/ (u = t /\ run'[t] = "queued"))
    BY <1>5 DEF WriteFiles, Typed, AgentTyped
  <2>3. /\ files'[t] = (IF u = t THEN "full" ELSE files[t]) /\ mgr.op = "files" /\ mgr.task = u
        /\ (u = t => mgr'.op = "idle") /\ (mgr'.op = "idle" \/ (mgr'.op = "popen" /\ mgr'.task = u))
    <3>1. files'[t] = (IF u = t THEN "full" ELSE files[t]) /\ mgr.op = "files" /\ mgr.task = u
      BY <1>0, <1>5 DEF WriteFiles, Typed, DiskTyped
    <3>2. (u = t => mgr'.op = "idle") /\ (mgr'.op = "idle" \/ (mgr'.op = "popen" /\ mgr'.task = u))
      BY <1>0, <1>5 DEF WriteFiles
    <3> QED
      BY <3>1, <3>2
  <2> QED
    BY <1>0, <2>1, <2>2, <2>3 DEF AgentKeeps, AgentFact, Open, Coming
<1>6. ASSUME NEW u \in Tasks, PopenFails(u) \/ LaunchWrite(u) \/ RecoverWrite(u) \/ Age(u) PROVE AgentKeeps(t)
  <2>1. u \in Bash
    BY <1>6 DEF PopenFails, LaunchWrite, RecoverWrite, Age, Busy, Typed, ManagerPlace
  <2>2. rt'[t] = rt[t]
    BY <1>0, <1>6, <2>1, Apart DEF PopenFails, Mark, LaunchWrite, RecoverWrite, Age, Write, Typed, DiskTyped
  <2>3. mgr' = mgr \/ mgr'.op \in {"idle", "recover"}
    BY <1>6, GivenUpTo DEF PopenFails, LaunchWrite, Age
  <2>4. kill' = kill /\ outcome' = outcome /\ run' = run /\ files' = files
    BY <1>6 DEF PopenFails, LaunchWrite, RecoverWrite, Age
  <2> QED
    BY <1>0, <2>2, <2>3, <2>4 DEF AgentKeeps, Open, Coming
<1>7. ASSUME NEW u \in Tasks, Kill(u) PROVE AgentKeeps(t)
  <2>1. kill'[u] /\ (kill[t] => kill'[t]) /\ outcome' = outcome
    BY <1>0, <1>7 DEF Kill, Typed, DiskTyped
  <2>2. rt'[t].status = rt[t].status \/ (rt'[t].status = "killed" /\ t = u)
    BY <1>0, <1>7, MarkSays, Words DEF Kill
  <2>3. Open(t)'
    BY <1>0, <1>7, <2>1 DEF Kill, Open, Coming, Typed, AgentTyped
  <2> QED
    BY <2>1, <2>2, <2>3 DEF AgentKeeps, AgentFact
<1>8. ASSUME NEW u \in Agents, NEW i \in Instances, BeginAgent(u, i) PROVE AgentKeeps(t)
  <2>1. mgr' = mgr \/ (mgr'.op = "spec" /\ mgr'.task = u /\ files[u] = "absent")
    BY <1>8 DEF BeginAgent, CanCreate
  <2>2. kill' = kill /\ outcome' = outcome /\ run' = run /\ files' = files /\ rt' = rt
    BY <1>8 DEF BeginAgent
  <2> QED
    BY <1>0, <2>1, <2>2 DEF AgentKeeps, Open, Coming
<1>9. ASSUME NEW u \in Bash,
             \/ Worker(u) \/ Control(u) \/ BeatRead(u) \/ Timeout(u) \/ CommandEnds(u) \/ WorkerDies(u)
      PROVE  AgentKeeps(t)
  <2>1. rt'[t] = rt[t]
    BY <1>0, <1>9, Apart DEF Worker, Control, BeatRead, Timeout, CommandEnds, WorkerDies, StartRead, StartWrite, Check,
       Spawn, SpawnFails, RecordRead, RecordWrite, BeatWrite, FinishWrite, ControlTerm, ForceKill, Finish, Reads, Writes,
       Write, Typed, DiskTyped
  <2>2. kill' = kill /\ outcome' = outcome /\ run' = run /\ files' = files /\ mgr' = mgr
    BY <1>9 DEF Worker, Control, BeatRead, Timeout, CommandEnds, WorkerDies, StartRead, StartWrite, Check, Spawn,
       SpawnFails, RecordRead, RecordWrite, BeatWrite, FinishWrite, ControlTerm, ForceKill, Finish, Reads, Writes,
       WorkerKeeps
  <2> QED
    BY <1>0, <2>1, <2>2 DEF AgentKeeps, Open, Coming
<1>10. ASSUME NEW u \in Agents, AgentMoves(u) PROVE AgentKeeps(t)
  BY <1>10, RunnerAgentKeeps
<1> QED
  BY <1>1, <1>2, <1>3, <1>4, <1>5, <1>6, <1>7, <1>8, <1>9, <1>10 DEF Next, Manager, AgentMoves

LEMMA AgentsHonestStep == Typed /\ AgentsHonest /\ [Next]_vars => AgentsHonest'
<1> SUFFICES ASSUME Typed, AgentsHonest, [Next]_vars PROVE AgentsHonest'
  OBVIOUS
<1>1. \A t \in Agents : AgentKeeps(t)
  BY AgentEveryStepKeeps
<1>2. ASSUME NEW t \in Agents, NEW s, AgentFact(t, s) PROVE AgentFact(t, s)'
  BY <1>1, <1>2, NoneAssumption DEF AgentKeeps, AgentFact, Finals
<1>3. ASSUME NEW t \in Agents PROVE Open(t)' /\ AgentFact(t, rt[t].status)'
  <2>1. AgentKeeps(t) /\ AgentFact(t, rt[t].status)
    BY <1>1 DEF AgentsHonest
  <2>2. \A s : s = rt'[t].status /\ s = rt[t].status => AgentFact(t, rt[t].status)'
    BY <1>2, <2>1 DEF AgentFact
  <2> QED
    BY <2>1, <2>2 DEF AgentKeeps
<1>4. ASSUME NEW t \in Agents, NEW s \in Finals, <<t, s>> \in notices' PROVE AgentFact(t, s)'
  <2>1. AgentFact(t, s)
    BY <1>4, Apart, NoticesFrom DEF AgentsHonest
  <2> QED
    BY <1>2, <2>1
<1> QED
  BY <1>3, <1>4 DEF AgentsHonest

LEMMA AgentsHonestInit == Init => AgentsHonest
BY NewRecordTyped, Apart DEF Init, AgentsHonest, Open, Coming, Idle, AgentFact

\* What the notices say of a task is what became of it.
THEOREM NoticesAreTrue == Spec => []NoticeTruthful
<1>1. Honest /\ AgentsHonest => NoticeTruthful
  BY Apart DEF Honest, Fact, AgentsHonest, AgentFact, NoticeTruthful, Finals, Tasks
<1> QED
  BY <1>1, TypedInit, TypedStep, HonestInit, HonestStep, AgentsHonestInit, AgentsHonestStep, PTL DEF Spec

-----------------------------------------------------------------------------
(* One runner for each instance.                                           *)

Working(t) == run[t] \in {"queued", "core", "cancelling"} \/ (mgr.op \in {"spec", "files"} /\ mgr.task = t)
HasRevived(i) == \E v \in revived \cap Agents : agentOf[v] = i
Holds(t) ==
  \/ HasRevived(agentOf[t])
  \/ /\ inst[agentOf[t]] = "running_background"
     /\ \A u \in Agents \ {t} : agentOf[u] = agentOf[t] => ~Working(u)

\* Whoever works holds its instance, and who has stopped has a final record, so that no
\* reconciliation takes the instance of another away.
OneAtWork ==
  /\ \A t \in Agents : Working(t) => Holds(t)
  /\ \A t \in Agents \ revived : up /\ files[t] # "absent" /\ ~Working(t) => IsFinal(t)
  /\ \A t \in Agents : (t \in revived => files[t] # "absent") /\ (files[t] = "absent" => ~IsFinal(t))
  /\ ~up => \A t \in Agents : ~Working(t) /\ run[t] # "ended"

\* A step at which no agent sets out, and which takes no instance from one at work.
NoneStarts ==
  /\ agentOf' = agentOf /\ revived \cap Agents \subseteq revived' /\ up' = up
  /\ up \/ run' = run
  /\ \A t \in Agents :
       /\ Working(t)' => Working(t) /\ (inst'[agentOf[t]] = inst[agentOf[t]] \/ HasRevived(agentOf[t]))
       /\ t \in revived' => t \in revived \/ IsFinal(t)
       /\ IsFinal(t) => IsFinal(t)' \/ t \in revived'
       /\ Working(t) /\ ~Working(t)' => IsFinal(t)' \/ t \in revived'
       /\ files'[t] = "absent" => files[t] = "absent" /\ (IsFinal(t)' => IsFinal(t))
       /\ files[t] = "absent" /\ files'[t] # "absent" => Working(t)'

LEMMA NoneStartsKeeps == OneAtWork /\ NoneStarts => OneAtWork'
<1> SUFFICES ASSUME OneAtWork, NoneStarts PROVE OneAtWork'
  OBVIOUS
<1>1. ASSUME NEW t \in Agents, Working(t)' PROVE Holds(t)'
  <2>1. Working(t) /\ Holds(t) /\ agentOf' = agentOf
    BY <1>1 DEF OneAtWork, NoneStarts
  <2>2. CASE HasRevived(agentOf[t])
    BY <2>1, <2>2 DEF NoneStarts, Holds, HasRevived
  <2>3. CASE ~HasRevived(agentOf[t])
    <3>1. inst'[agentOf[t]] = "running_background"
      BY <1>1, <2>1, <2>3 DEF NoneStarts, Holds
    <3>2. \A u \in Agents \ {t} : agentOf[u] = agentOf[t] => ~Working(u)'
      BY <2>1, <2>3 DEF NoneStarts, Holds
    <3> QED
      BY <2>1, <3>1, <3>2 DEF Holds
  <2> QED
    BY <2>2, <2>3
<1>2. ASSUME NEW t \in Agents \ revived', up', files'[t] # "absent", ~Working(t)' PROVE IsFinal(t)'
  BY <1>2 DEF OneAtWork, NoneStarts
<1>3. ASSUME NEW t \in Agents
      PROVE  (t \in revived' => files'[t] # "absent") /\ (files'[t] = "absent" => ~IsFinal(t)')
  BY DEF OneAtWork, NoneStarts
<1>4. ~up' => \A t \in Agents : ~Working(t)' /\ run'[t] # "ended"
  BY DEF OneAtWork, NoneStarts
<1> QED
  BY <1>1, <1>2, <1>3, <1>4 DEF OneAtWork

LEMMA MarkFinal ==
  ASSUME Typed, NEW u \in Tasks, NEW s \in Statuses, Mark(u, s)
  PROVE  /\ revived' = revived /\ \A t \in Tasks \ {u} : rt'[t] = rt[t]
         /\ \A t \in Tasks : IsFinal(t) => IsFinal(t)'
         /\ (s \in Finals => IsFinal(u)')
<1>1. revived' = revived
  BY DEF Mark, Write
<1>2. \A t \in Tasks : IsFinal(t) => IsFinal(t)'
  BY MarkSays DEF IsFinal
<1>3. s \in Finals => IsFinal(u)'
  BY MarkSays DEF IsFinal
<1> QED
  BY <1>1, <1>2, <1>3, MarkSays

\* An agent stops: its own report gives its instance back, and no one else is at work on it.
LEMMA ReportStops ==
  ASSUME Typed, AgentsHonest, OneAtWork, NEW u \in Agents, up, run[u] \in {"core", "cancelling"},
         NEW s \in Finals, Report(u, s)
  PROVE  NoneStarts
<1>1. /\ revived' = revived /\ (\A t \in Tasks \ {u} : rt'[t] = rt[t])
      /\ (\A t \in Tasks : IsFinal(t) => IsFinal(t)') /\ IsFinal(u)'
  BY MarkFinal, Apart, Words DEF Report
<1>2. /\ agentOf' = agentOf /\ up' = up /\ files' = files /\ mgr' = mgr
      /\ run'[u] = "ended" /\ \A t \in Agents \ {u} : run'[t] = run[t]
  BY DEF Report, RunnerKeeps, Typed, AgentTyped
<1>3. \A t \in Agents : Working(t)' => Working(t) /\ t # u
  <2>1. ~(mgr.op \in {"spec", "files"} /\ mgr.task = u)
    BY DEF AgentsHonest, Open, Coming
  <2> QED
    BY <1>2, <2>1 DEF Working
<1>4. ASSUME NEW t \in Agents, Working(t)' PROVE inst'[agentOf[t]] = inst[agentOf[t]] \/ HasRevived(agentOf[t])
  <2>1. t # u /\ Holds(t) /\ Working(u)
    BY <1>3, <1>4 DEF OneAtWork, Working
  <2>2. CASE agentOf[t] = agentOf[u]
    BY <2>1, <2>2 DEF Holds
  <2>3. CASE agentOf[t] # agentOf[u]
    BY <2>3 DEF Report, Typed, DiskTyped
  <2> QED
    BY <2>2, <2>3
<1>5. \A t \in Agents : Working(t) /\ ~Working(t)' => t = u
  BY <1>2 DEF Working
<1>6. \A t \in Agents : files[t] = "absent" => t # u
  BY DEF AgentsHonest, Open
<1>7. \A t \in Agents : files[t] = "absent" => (IsFinal(t)' => IsFinal(t))
  BY <1>1, <1>6, Apart DEF IsFinal
<1> QED
  BY <1>1, <1>2, <1>3, <1>4, <1>5, <1>7, Apart DEF NoneStarts
\* The rest of what a runner does.
LEMMA RunnerStops ==
  ASSUME Typed, AgentsHonest, OneAtWork, NEW u \in Agents,
         AgentMoves(u)
  PROVE  NoneStarts
<1>0. u \in Tasks /\ rt[u] \in Records
  BY Apart DEF Typed, DiskTyped
<1>1. CASE RunnerCancelled(u) \/ RunnerEnds(u) \/ RunnerTimesOut(u)
  BY <1>1, ReportStops DEF RunnerCancelled, RunnerEnds, RunnerTimesOut, Finals, LoopFree
<1>2. CASE RunnerStart(u)
  <2>1. /\ revived' = revived /\ (\A t \in Tasks \ {u} : rt'[t] = rt[t])
        /\ (\A t \in Tasks : IsFinal(t) => IsFinal(t)')
    BY <1>0, <1>2, MarkFinal, Words DEF RunnerStart
  <2>2. /\ agentOf' = agentOf /\ up' = up /\ files' = files /\ mgr' = mgr /\ inst' = inst
        /\ run[u] = "queued" /\ run' = [run EXCEPT ![u] = "core"] /\ up
    BY <1>2 DEF RunnerStart, RunnerKeeps, LoopFree
  <2>3. \A t \in Agents : Working(t)' <=> Working(t)
    BY <2>2 DEF Working, Typed, AgentTyped
  <2>4. \A t \in Agents : files[t] = "absent" => t # u
    BY <2>2 DEF AgentsHonest, Open
  <2>5. \A t \in Agents : files[t] = "absent" => (IsFinal(t)' => IsFinal(t))
    BY <2>1, <2>4, Apart DEF IsFinal
  <2> QED
    BY <2>1, <2>2, <2>3, <2>5, Apart DEF NoneStarts
<1>3. CASE RunnerGone(u) \/ AskApproval(u) \/ GiveApproval(u) \/ \E n \in Notes : Apply(u, n)
  <2>1. /\ agentOf' = agentOf /\ up' = up /\ files' = files /\ mgr' = mgr /\ inst' = inst /\ rt' = rt
        /\ revived' = revived /\ (run' = run \/ (up /\ run[u] = "ended" /\ run' = [run EXCEPT ![u] = "gone"]))
    BY <1>3 DEF RunnerGone, AskApproval, GiveApproval, Apply, RunnerKeeps, LoopFree
  <2>2. \A t \in Agents : Working(t)' <=> Working(t)
    BY <2>1 DEF Working, Typed, AgentTyped
  <2> QED
    BY <2>1, <2>2 DEF NoneStarts, IsFinal
<1>4. ASSUME NEW n \in Notes, ThreadWrite(u, n) PROVE NoneStarts
  <2>1. [rt[u] EXCEPT !.status = n, !.fin = FALSE].status = n /\ n \notin Finals
    BY <1>0, Marked, Words DEF Notes, Finals
  <2>2. /\ rt'[u].status \notin Finals /\ (\A t \in Tasks \ {u} : rt'[t] = rt[t])
        /\ revived' = IF IsFinal(u) THEN revived \cup {u} ELSE revived
    BY <1>0, <1>4, <2>1 DEF ThreadWrite, Write, Typed, DiskTyped
  <2>3. /\ agentOf' = agentOf /\ up' = up /\ files' = files /\ mgr' = mgr /\ inst' = inst /\ run' = run
    BY <1>4 DEF ThreadWrite, RunnerKeeps
  <2>4. \A t \in Agents : (Working(t)' <=> Working(t)) /\ (t # u => (IsFinal(t)' <=> IsFinal(t)))
    BY <2>2, <2>3, Apart DEF Working, IsFinal
  <2> QED
    BY <2>2, <2>3, <2>4 DEF NoneStarts, IsFinal
<1>5. CASE SoulEnds(u)
  BY <1>5 DEF SoulEnds, diskVars, NoneStarts, Working, IsFinal
<1> QED
  BY <1>1, <1>2, <1>3, <1>4, <1>5 DEF Runner, AgentMoves

\* A worker touches no agent.
LEMMA WorkerStops ==
  ASSUME Typed, NEW u \in Bash,
         \/ Worker(u) \/ Control(u) \/ BeatRead(u) \/ Timeout(u) \/ CommandEnds(u) \/ WorkerDies(u)
  PROVE  NoneStarts
<1>1. (\A t \in Agents : rt'[t] = rt[t]) /\ revived \subseteq revived' /\ revived' \subseteq revived \cup {u}
  BY Apart DEF Worker, Control, BeatRead, Timeout, CommandEnds, WorkerDies, StartRead, StartWrite, Check,
     Spawn, SpawnFails, RecordRead, RecordWrite, BeatWrite, FinishWrite, ControlTerm, ForceKill, Finish, Reads, Writes,
     Write, Typed, DiskTyped
<1>2. agentOf' = agentOf /\ up' = up /\ files' = files /\ mgr' = mgr /\ inst' = inst /\ run' = run
  BY DEF Worker, Control, BeatRead, Timeout, CommandEnds, WorkerDies, StartRead, StartWrite, Check, Spawn,
     SpawnFails, RecordRead, RecordWrite, BeatWrite, FinishWrite, ControlTerm, ForceKill, Finish, Reads, Writes,
     WorkerKeeps, agentVars
<1>3. \A t \in Agents : (Working(t)' <=> Working(t)) /\ (IsFinal(t)' <=> IsFinal(t)) /\ (t \in revived' => t \in revived)
  BY <1>1, <1>2, Apart DEF Working, IsFinal
<1> QED
  BY <1>1, <1>2, <1>3 DEF NoneStarts

\* The manager's operations.
LEMMA ManagerStops ==
  ASSUME Typed, AgentsHonest, OneAtWork, NEW u \in Tasks,
         \/ BeginBash(u) \/ WriteSpec(u) \/ WriteFiles(u) \/ Popen(u) \/ PopenFails(u) \/ LaunchRead(u)
         \/ LaunchWrite(u) \/ RecoverRead(u) \/ RecoverWrite(u) \/ Age(u)
  PROVE  NoneStarts
<1> USE DEF diskVars, workerVars, agentVars, Busy, At, Idle
<1>1. CASE BeginBash(u)
  <2>1. \A t \in Agents : Working(t)' <=> Working(t)
    BY <1>1, Apart DEF BeginBash, CanCreate, LoopFree, Working
  <2> QED
    BY <1>1, <2>1 DEF BeginBash, NoneStarts, IsFinal
<1>2. CASE WriteSpec(u)
  <2>1. \A t \in Agents : (Working(t)' <=> Working(t)) /\ (files'[t] # files[t] => t = u /\ files'[t] = "spec")
    BY <1>2 DEF WriteSpec, Working, Typed, DiskTyped
  <2>2. u \in Agents => Working(u)
    BY <1>2 DEF WriteSpec, Working
  <2> QED
    BY <1>2, <2>1, <2>2 DEF WriteSpec, NoneStarts, IsFinal
<1>3. CASE WriteFiles(u)
  <2>1. /\ agentOf' = agentOf /\ up' = up /\ up /\ inst' = inst /\ mgr.op = "files" /\ mgr.task = u
        /\ \A t \in Agents : files'[t] # files[t] => t = u /\ files'[t] = "full"
    BY <1>3 DEF WriteFiles, Typed, DiskTyped
  <2>2. /\ revived' = revived /\ (\A t \in Tasks \ {u} : rt'[t] = rt[t])
        /\ (\A t \in Tasks : IsFinal(t) => IsFinal(t)')
    BY <1>3, MarkFinal, Words DEF WriteFiles, IsFinal
  <2>3. \A t \in Agents : Working(t)' <=> Working(t)
    <3>1. CASE u \in Bash
      BY <1>3, <2>1, <3>1, Apart DEF WriteFiles, Working
    <3>2. CASE u \notin Bash
      BY <1>3, <2>1, <3>2 DEF WriteFiles, Working, Typed, AgentTyped
    <3> QED
      BY <3>1, <3>2
  <2>4. u \in Agents => Working(u)'
    BY <2>1, <2>3 DEF Working
  <2>5. u \in Agents => files'[u] = "full"
    BY <1>3 DEF WriteFiles, Typed, DiskTyped
  <2>6. \A t \in Agents : files'[t] = "absent" => t # u /\ files[t] = "absent" /\ (IsFinal(t)' => IsFinal(t))
    BY <2>1, <2>2, <2>5, Apart DEF IsFinal
  <2> QED
    BY <2>1, <2>2, <2>3, <2>4, <2>6, Apart DEF NoneStarts
<1>4. CASE Popen(u) \/ LaunchRead(u) \/ RecoverRead(u)
  <2>1. mgr.op \in {"popen", "read", "recover"} /\ mgr'.op \in {"read", "launch", "idle", "recover", "giveup"}
    BY <1>4 DEF Popen, LaunchRead, RecoverRead, Typed, ManagerTyped
  <2>2. /\ agentOf' = agentOf /\ up' = up /\ inst' = inst /\ files' = files /\ rt' = rt /\ run' = run
        /\ revived' = revived
    BY <1>4 DEF Popen, LaunchRead, RecoverRead
  <2>3. \A t \in Agents : Working(t)' <=> Working(t)
    BY <2>1, <2>2 DEF Working
  <2> QED
    BY <2>2, <2>3 DEF NoneStarts, IsFinal
<1>5. CASE PopenFails(u) \/ LaunchWrite(u) \/ RecoverWrite(u) \/ Age(u)
  <2>1. u \in Bash
    BY <1>5 DEF PopenFails, LaunchWrite, RecoverWrite, Age, Typed, ManagerPlace
  <2>2. (\A t \in Agents : rt'[t] = rt[t]) /\ revived \subseteq revived' /\ revived' \subseteq revived \cup {u}
    BY <1>5, <2>1, Apart DEF PopenFails, Mark, LaunchWrite, RecoverWrite, Age, Write, Typed, DiskTyped
  <2>3. mgr' = mgr \/ (mgr.op \in {"popen", "launch", "giveup"} /\ mgr'.op \in {"idle", "recover"})
    <3>1. CASE PopenFails(u) \/ LaunchWrite(u) \/ Age(u)
      BY <3>1 DEF PopenFails, LaunchWrite, Age
    <3> QED
      BY <1>5, <3>1, GivenUpTo
  <2>4. agentOf' = agentOf /\ up' = up /\ inst' = inst /\ files' = files /\ run' = run
    BY <1>5 DEF PopenFails, LaunchWrite, RecoverWrite, Age
  <2>5. \A t \in Agents : (Working(t)' <=> Working(t)) /\ (IsFinal(t)' <=> IsFinal(t)) /\ (t \in revived' => t \in revived)
    BY <2>1, <2>2, <2>3, <2>4, Apart DEF Working, IsFinal
  <2> QED
    BY <2>2, <2>4, <2>5 DEF NoneStarts
<1> QED
  BY <1>1, <1>2, <1>3, <1>4, <1>5

LEMMA KillEnds ==
  ASSUME Typed, OneAtWork, NEW u \in Tasks, Kill(u)
  PROVE  NoneStarts
<1>1. CASE u \in Bash
  <2>1. /\ agentOf' = agentOf /\ up' = up /\ inst' = inst /\ files' = files /\ run' = run /\ mgr' = mgr /\ rt' = rt
        /\ revived' = revived
    BY <1>1 DEF Kill
  <2> QED
    BY <2>1 DEF NoneStarts, Working, IsFinal
<1>2. CASE u \notin Bash
  <2>1. /\ revived' = revived /\ (\A t \in Tasks \ {u} : rt'[t] = rt[t])
        /\ (\A t \in Tasks : IsFinal(t) => IsFinal(t)') /\ IsFinal(u)'
    BY <1>2, MarkFinal, Words DEF Kill, Finals
  <2>2. /\ agentOf' = agentOf /\ up' = up /\ up /\ inst' = inst /\ files' = files /\ mgr' = mgr /\ mgr.op = "idle"
        /\ files[u] # "absent"
    BY <1>2 DEF Kill, LoopFree, Listed
  <2>3. /\ \A t \in Agents \ {u} : run'[t] = run[t]
        /\ u \in Agents => (run'[u] \in {"queued", "core", "cancelling"} => run[u] \in {"queued", "core", "cancelling"})
    BY <1>2 DEF Kill, Typed, AgentTyped
  <2>4. \A t \in Agents : (Working(t)' => Working(t)) /\ (t # u => (Working(t) => Working(t)'))
    BY <2>2, <2>3 DEF Working
  <2>5. \A t \in Agents : files[t] = "absent" => (IsFinal(t)' => IsFinal(t))
    BY <2>1, <2>2, Apart DEF IsFinal
  <2> QED
    BY <2>1, <2>2, <2>4, <2>5, Apart DEF NoneStarts
<1> QED
  BY <1>1, <1>2

\* A reconciliation finds dead only agents revived by a late note.
LEMMA ReconcileStops ==
  ASSUME Typed, OneAtWork, StartReconcile
  PROVE  NoneStarts
<1>1. Recover /\ up /\ up' = up /\ mgr.op = "idle"
  BY DEF StartReconcile, LoopFree
<1>2. Dead \subseteq revived
  BY <1>1 DEF Dead, Active, Listed, Live, Working, OneAtWork
<1>3. /\ agentOf' = agentOf /\ files' = files /\ run' = run /\ revived' = revived /\ mgr'.op = "recover"
  BY <1>1 DEF Recover, agentVars
<1>4. \A t \in Agents : Working(t)' <=> Working(t)
  BY <1>1, <1>3 DEF Working
<1>5. \A t \in Agents : inst'[agentOf[t]] = inst[agentOf[t]] \/ HasRevived(agentOf[t]) \/ ~Working(t)
  <2>1. \A i \in Instances : inst'[i] = inst[i] \/ \E v \in Dead : agentOf[v] = i
    BY <1>1 DEF Recover
  <2>2. \A t \in Agents : Working(t) => agentOf[t] \in Instances
    BY DEF Working, Typed, ManagerPlace
  <2> QED
    BY <1>2, <2>1, <2>2 DEF HasRevived, Dead
<1>6. \A t \in Tasks : IsFinal(t) => rt'[t] = rt[t]
  BY <1>1 DEF Recover, Dead, Active
<1>7. \A t \in Agents : files[t] = "absent" => rt'[t] = rt[t]
  BY <1>1, Apart DEF Recover, Dead, Active, Listed
<1> QED
  BY <1>1, <1>3, <1>4, <1>5, <1>6, <1>7, Apart DEF NoneStarts, IsFinal
LEMMA CrashStops ==
  ASSUME OneAtWork, Crash
  PROVE  OneAtWork'
<1>1. ~up' /\ mgr'.op = "idle" /\ \A t \in Agents : run'[t] \notin {"queued", "core", "cancelling", "ended"}
  BY DEF Crash, Idle, Live
<1>2. \A t \in Agents : ~Working(t)'
  BY <1>1 DEF Working
<1>3. files' = files /\ rt' = rt /\ revived' = revived
  BY DEF Crash, diskVars
<1> QED
  BY <1>1, <1>2, <1>3 DEF OneAtWork, IsFinal

\* When the session comes back nobody is at work, and whoever was is found lost.
LEMMA RestartStops ==
  ASSUME Typed, OneAtWork, Restart
  PROVE  OneAtWork'
<1>1. Recover /\ ~up /\ up'
  BY DEF Restart
<1>2. /\ files' = files /\ revived' = revived /\ run' = run /\ mgr'.op = "recover"
  BY <1>1 DEF Recover, agentVars
<1>3. \A t \in Agents : ~Working(t) /\ ~Working(t)'
  BY <1>1, <1>2 DEF OneAtWork, Working
<1>4. ASSUME NEW t \in Agents, files[t] # "absent" PROVE IsFinal(t)'
  <2>1. t \in Tasks /\ rt[t] \in Records
    BY Apart DEF Typed, DiskTyped
  <2>2. CASE t \in Dead
    <3>1. rt'[t] = [rt[t] EXCEPT !.status = "lost", !.fin = TRUE]
      BY <1>1, <2>1, <2>2 DEF Recover
    <3>2. [rt[t] EXCEPT !.status = "lost", !.fin = TRUE].status = "lost"
      BY <2>1, Marked, Words
    <3> QED
      BY <3>1, <3>2 DEF IsFinal, Finals
  <2>3. CASE t \notin Dead
    <3>1. rt'[t] = rt[t]
      BY <1>1, <2>1, <2>3 DEF Recover
    <3>2. ~Live(t)
      BY <1>1, <1>3 DEF OneAtWork, Working, Live
    <3> QED
      BY <1>4, <2>1, <2>3, <3>1, <3>2 DEF Dead, Active, Listed, IsFinal
  <2> QED
    BY <2>2, <2>3
<1>5. ASSUME NEW t \in Agents, files[t] = "absent" PROVE ~IsFinal(t)'
  <2>1. rt'[t] = rt[t]
    BY <1>1, <1>5, Apart DEF Recover, Dead, Active, Listed
  <2> QED
    BY <1>5, <2>1 DEF OneAtWork, IsFinal
<1> QED
  BY <1>1, <1>2, <1>3, <1>4, <1>5 DEF OneAtWork

\* An agent that sets out takes an instance nobody works on, or one with a revived task.
LEMMA BeginAgentStarts ==
  ASSUME Typed, AgentsHonest, OneAtWork, NEW t \in Agents, NEW i \in Instances, BeginAgent(t, i)
  PROVE  OneAtWork'
<1>1. /\ up /\ up' /\ mgr.op = "idle" /\ inst[i] # "running_background" /\ files[t] = "absent"
      /\ files' = files /\ rt' = rt /\ revived' = revived /\ run' = run
  BY DEF BeginAgent, CanCreate, LoopFree, Resumable, agentVars
<1>2. t \notin revived /\ run[t] = "none" /\ ~Working(t)
  BY <1>1 DEF OneAtWork, AgentsHonest, Open, Working
<1>3. \A u \in Agents : Working(u) /\ agentOf[u] = i => HasRevived(i)
  BY <1>1 DEF OneAtWork, Holds
<1>4. CASE ~Room
  <2>1. mgr' = mgr /\ agentOf' = agentOf /\ \A j \in Instances \ {i} : inst'[j] = inst[j]
    BY <1>4 DEF BeginAgent, Typed, DiskTyped
  <2>2. \A u \in Agents : Working(u) => agentOf[u] \in Instances
    BY DEF Working, Typed, ManagerPlace
  <2>3. NoneStarts
    BY <1>1, <1>3, <2>1, <2>2 DEF NoneStarts, Working, IsFinal
  <2> QED
    BY <2>3, NoneStartsKeeps
<1>5. CASE Room
  <2>1. /\ mgr' = At("spec", t) /\ agentOf' = [agentOf EXCEPT ![t] = i]
        /\ inst' = [inst EXCEPT ![i] = "running_background"]
    BY <1>5 DEF BeginAgent
  <2>2. \A u \in Agents \ {t} : (Working(u)' <=> Working(u)) /\ agentOf'[u] = agentOf[u]
    BY <1>1, <2>1 DEF Working, At, Typed, DiskTyped
  <2>3. Working(t)' /\ agentOf'[t] = i /\ inst'[i] = "running_background"
    BY <2>1 DEF Working, At, Typed, DiskTyped
  <2>4. \A j \in Instances : HasRevived(j) => HasRevived(j)'
    BY <1>1, <1>2, <2>2 DEF HasRevived
  <2>5. Holds(t)'
    <3>1. CASE HasRevived(i)
      BY <2>3, <2>4, <3>1 DEF Holds
    <3>2. CASE ~HasRevived(i)
      BY <1>3, <2>2, <2>3, <3>2 DEF Holds
    <3> QED
      BY <3>1, <3>2
  <2>6. ASSUME NEW u \in Agents \ {t}, Working(u)' PROVE Holds(u)'
    <3>1. Working(u) /\ Holds(u) /\ agentOf[u] \in Instances /\ agentOf'[u] = agentOf[u]
      BY <2>2, <2>6 DEF OneAtWork, Working, Typed, ManagerPlace
    <3>2. CASE HasRevived(agentOf[u])
      BY <2>4, <3>1, <3>2 DEF Holds
    <3>3. CASE ~HasRevived(agentOf[u])
      <4>1. agentOf[u] # i
        BY <1>3, <3>1, <3>3
      <4>2. inst'[agentOf[u]] = "running_background"
        BY <2>1, <3>1, <3>3, <4>1 DEF Holds, Typed, DiskTyped
      <4>3. \A w \in Agents \ {u} : agentOf'[w] = agentOf[u] => ~Working(w)'
        BY <2>2, <2>3, <3>1, <3>3, <4>1 DEF Holds
      <4> QED
        BY <3>1, <4>2, <4>3 DEF Holds
    <3> QED
      BY <3>2, <3>3
  <2>7. \A u \in Agents \ revived' : up' /\ files'[u] # "absent" /\ ~Working(u)' => IsFinal(u)'
    BY <1>1, <2>2, <2>3 DEF OneAtWork, IsFinal
  <2>8. \A u \in Agents : (u \in revived' => files'[u] # "absent") /\ (files'[u] = "absent" => ~IsFinal(u)')
    BY <1>1 DEF OneAtWork, IsFinal
  <2> QED
    BY <1>1, <2>3, <2>5, <2>6, <2>7, <2>8 DEF OneAtWork
<1> QED
  BY <1>4, <1>5

LEMMA OneAtWorkStep == Typed /\ AgentsHonest /\ OneAtWork /\ [Next]_vars => OneAtWork'
<1> SUFFICES ASSUME Typed, AgentsHonest, OneAtWork, [Next]_vars PROVE OneAtWork'
  OBVIOUS
<1>1. CASE StartReconcile
  BY <1>1, ReconcileStops, NoneStartsKeeps
<1>2. CASE Restart
  BY <1>2, RestartStops
<1>3. CASE Crash
  BY <1>3, CrashStops
<1>4. CASE Publish
  <2>1. mgr.op = "recover" /\ mgr'.op = "idle"
    BY <1>4 DEF Publish, Idle
  <2>2. NoneStarts
    BY <1>4, <2>1 DEF Publish, agentVars, NoneStarts, Working, IsFinal
  <2> QED
    BY <2>2, NoneStartsKeeps
<1>5. ASSUME NEW u \in Tasks,
             \/ BeginBash(u) \/ WriteSpec(u) \/ WriteFiles(u) \/ Popen(u) \/ PopenFails(u) \/ LaunchRead(u)
             \/ LaunchWrite(u) \/ RecoverRead(u) \/ RecoverWrite(u) \/ Age(u)
      PROVE  OneAtWork'
  BY <1>5, ManagerStops, NoneStartsKeeps
<1>6. ASSUME NEW u \in Tasks, Kill(u) PROVE OneAtWork'
  BY <1>6, KillEnds, NoneStartsKeeps
<1>7. ASSUME NEW u \in Agents, NEW i \in Instances, BeginAgent(u, i) PROVE OneAtWork'
  BY <1>7, BeginAgentStarts
<1>8. ASSUME NEW u \in Bash,
             \/ Worker(u) \/ Control(u) \/ BeatRead(u) \/ Timeout(u) \/ CommandEnds(u) \/ WorkerDies(u)
      PROVE  OneAtWork'
  BY <1>8, WorkerStops, NoneStartsKeeps
<1>9. ASSUME NEW u \in Agents, AgentMoves(u) PROVE OneAtWork'
  BY <1>9, RunnerStops, NoneStartsKeeps
<1>10. CASE UNCHANGED vars
  <2>1. NoneStarts
    BY <1>10 DEF vars, diskVars, workerVars, agentVars, NoneStarts, Working, IsFinal
  <2> QED
    BY <2>1, NoneStartsKeeps
<1> QED
  BY <1>1, <1>2, <1>3, <1>4, <1>5, <1>6, <1>7, <1>8, <1>9, <1>10 DEF Next, Manager, AgentMoves

LEMMA OneAtWorkInit == Init => OneAtWork
BY NewRecordTyped, Apart DEF Init, OneAtWork, Working, Idle, IsFinal, Finals

\* A runner is cancelled by a kill only, and a soul goes on alone only after a kill or a timeout.
SoulAccounted(t) ==
  /\ run[t] = "cancelling" => kill[t]
  /\ t \in orphan => run[t] \in {"ended", "gone"} /\ (kill[t] \/ outcome[t] = "timed_out")

SoulsAccounted == \A t \in Agents : SoulAccounted(t)

\* A step that cancels no runner and leaves no soul alone, but may end the one or the other.
Accounts(t) ==
  /\ run'[t] = "cancelling" => run[t] = "cancelling"
  /\ t \in orphan' => t \in orphan
  /\ run[t] \in {"ended", "gone"} => run'[t] \in {"ended", "gone"}

LEMMA AccountsKeep ==
  ASSUME SoulsAccounted, NEW t \in Agents, AgentKeeps(t), Accounts(t)
  PROVE  SoulAccounted(t)'
BY NoneAssumption DEF SoulsAccounted, SoulAccounted, AgentKeeps, Accounts, Finals

LEMMA ReportAccounts ==
  ASSUME Typed, SoulsAccounted, NEW u \in Agents, NEW t \in Agents, AgentKeeps(t), NEW s \in Finals, Report(u, s),
         \/ orphan' = orphan
         \/ orphan' = orphan \cup {u} /\ (kill[u] \/ s = "timed_out")
  PROVE  SoulAccounted(t)'
<1>1. run'[u] = "ended" /\ outcome'[u] = s /\ \A v \in Agents \ {u} : run'[v] = run[v]
  BY DEF Report, Typed, AgentTyped
<1>2. CASE t # u
  BY <1>1, <1>2, AccountsKeep DEF Accounts
<1>3. CASE t = u /\ orphan' = orphan
  BY <1>1, <1>3, AccountsKeep DEF Accounts
<1>4. CASE t = u /\ orphan' # orphan
  BY <1>1, <1>4 DEF AgentKeeps, SoulAccounted
<1> QED
  BY <1>2, <1>3, <1>4

LEMMA AgentMovesAccounts ==
  ASSUME Typed, SoulsAccounted, NEW u \in Agents, AgentMoves(u), NEW t \in Agents, AgentKeeps(t)
  PROVE  SoulAccounted(t)'
<1>1. CASE RunnerEnds(u)
  BY <1>1, ReportAccounts DEF RunnerEnds, Finals
<1>2. CASE RunnerTimesOut(u)
  BY <1>2, ReportAccounts DEF RunnerTimesOut, SoulLeft, Finals
<1>3. CASE RunnerCancelled(u)
  <2>1. kill[u]
    BY <1>3 DEF RunnerCancelled, SoulsAccounted, SoulAccounted
  <2> QED
    BY <1>3, <2>1, ReportAccounts DEF RunnerCancelled, SoulLeft, Finals
<1>4. CASE \/ RunnerStart(u) \/ RunnerGone(u) \/ AskApproval(u) \/ GiveApproval(u) \/ SoulEnds(u)
           \/ \E n \in Notes : Apply(u, n) \/ ThreadWrite(u, n)
  <2>1. Accounts(t)
    BY <1>4 DEF RunnerStart, RunnerGone, AskApproval, GiveApproval, SoulEnds, Apply, ThreadWrite, Accounts,
       Typed, AgentTyped
  <2> QED
    BY <2>1, AccountsKeep
<1> QED
  BY <1>1, <1>2, <1>3, <1>4 DEF AgentMoves, Runner

LEMMA SoulsAccountedStep == Typed /\ AgentsHonest /\ SoulsAccounted /\ [Next]_vars => SoulsAccounted'
<1> SUFFICES ASSUME Typed, AgentsHonest, SoulsAccounted, [Next]_vars, NEW t \in Agents PROVE SoulAccounted(t)'
  BY DEF SoulsAccounted
<1>0. AgentKeeps(t)
  BY AgentEveryStepKeeps
<1> USE DEF agentVars
<1>1. CASE StartReconcile \/ Restart \/ Publish \/ UNCHANGED vars
  <2>1. Accounts(t)
    BY <1>1 DEF StartReconcile, Restart, Recover, Publish, vars, Accounts
  <2> QED
    BY <1>0, <2>1, AccountsKeep
<1>2. CASE Crash
  <2>1. Accounts(t)
    BY <1>2 DEF Crash, Live, Accounts, Typed, AgentTyped
  <2> QED
    BY <1>0, <2>1, AccountsKeep
<1>3. ASSUME NEW u \in Tasks,
             \/ BeginBash(u) \/ WriteSpec(u) \/ Popen(u) \/ PopenFails(u) \/ LaunchRead(u)
             \/ LaunchWrite(u) \/ RecoverRead(u) \/ RecoverWrite(u) \/ Age(u)
      PROVE  SoulAccounted(t)'
  <2>1. Accounts(t)
    BY <1>3 DEF BeginBash, WriteSpec, Popen, PopenFails, LaunchRead, LaunchWrite, RecoverRead, RecoverWrite, Age, Accounts
  <2> QED
    BY <1>0, <2>1, AccountsKeep
<1>4. ASSUME NEW u \in Tasks, WriteFiles(u) PROVE SoulAccounted(t)'
  <2>1. u = t => run[t] = "none"
    BY <1>4 DEF WriteFiles, Busy, AgentsHonest, Open, Coming
  <2>2. Accounts(t)
    BY <1>4, <2>1 DEF WriteFiles, Accounts, Typed, AgentTyped
  <2> QED
    BY <1>0, <2>2, AccountsKeep
<1>5. ASSUME NEW u \in Tasks, Kill(u) PROVE SoulAccounted(t)'
  <2>1. orphan' = orphan /\ outcome' = outcome /\ kill'[u] /\ (kill[t] => kill'[t])
    BY <1>0, <1>5 DEF Kill, AgentKeeps, Typed, DiskTyped
  <2>2. CASE u = t
    BY <1>5, <2>1, <2>2 DEF Kill, SoulsAccounted, SoulAccounted, Typed, AgentTyped, DiskTyped
  <2>3. CASE u # t
    <3>1. Accounts(t)
      BY <1>5, <2>1, <2>3 DEF Kill, Accounts, Typed, AgentTyped
    <3> QED
      BY <1>0, <3>1, AccountsKeep
  <2> QED
    BY <2>2, <2>3
<1>6. ASSUME NEW u \in Agents, NEW i \in Instances, BeginAgent(u, i) PROVE SoulAccounted(t)'
  <2>1. Accounts(t)
    BY <1>6 DEF BeginAgent, Accounts
  <2> QED
    BY <1>0, <2>1, AccountsKeep
<1>7. ASSUME NEW u \in Bash,
             \/ Worker(u) \/ Control(u) \/ BeatRead(u) \/ Timeout(u) \/ CommandEnds(u) \/ WorkerDies(u)
      PROVE  SoulAccounted(t)'
  <2>1. UNCHANGED agentVars
    BY <1>7 DEF Worker, Control, BeatRead, Timeout, CommandEnds, WorkerDies, StartRead, StartWrite, Check, Spawn,
       SpawnFails, RecordRead, RecordWrite, BeatWrite, FinishWrite, ControlTerm, ForceKill, Finish, Reads, Writes,
       WorkerKeeps
  <2>2. Accounts(t)
    BY <2>1 DEF Accounts
  <2> QED
    BY <1>0, <2>2, AccountsKeep
<1>8. ASSUME NEW u \in Agents, AgentMoves(u) PROVE SoulAccounted(t)'
  BY <1>0, <1>8, AgentMovesAccounts
<1> QED
  BY <1>1, <1>2, <1>3, <1>4, <1>5, <1>6, <1>7, <1>8 DEF Next, Manager, AgentMoves

LEMMA SoulsAccountedInit == Init => SoulsAccounted
BY DEF Init, SoulsAccounted, SoulAccounted

\* An agent at work holds its instance and shares it with no soul, unless a task of it was
\* revived or another soul of it goes on after a kill or a timeout.
THEOREM OneRunner == Spec => []OneRunnerPerInstance
<1>1. Typed /\ OneAtWork /\ SoulsAccounted => OneRunnerPerInstance
  BY DEF OneAtWork, Working, Holds, HasRevived, SoulsAccounted, SoulAccounted, OneRunnerPerInstance, Typed, AgentTyped
<1> QED
  BY <1>1, TypedInit, TypedStep, AgentsHonestInit, AgentsHonestStep, OneAtWorkInit, OneAtWorkStep,
     SoulsAccountedInit, SoulsAccountedStep, PTL DEF Spec

=============================================================================
