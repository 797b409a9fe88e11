--------------------------- MODULE SessionProcess ---------------------------
(***************************************************************************)
(* The supervisor of one session's worker process:                         *)
(* cran_code/web/runner/process.py, class SessionProcess, with the receive *)
(* loop of web/api/sessions.py (session_stream) that drives it and the     *)
(* worker at the other end of the pipe reduced to what it owes (it reads   *)
(* its stdin in order, runs one turn at a time, answers every message).    *)
(*                                                                         *)
(* Everything runs on one asyncio loop, so a step is the code between two  *)
(* awaits that can suspend.  Three kinds of task interleave: the callers   *)
(* (one per client, and Admin for restarts and stops), the read loops (one *)
(* per spawn, and an old one may outlive its worker), and the workers.     *)
(* _lock is `holder`: only the caller holding it is inside a locked        *)
(* section, at position `pc`.  The read loops do not take it.              *)
(*                                                                         *)
(* A drain() of a control message (initialize, response, cancel) does not  *)
(* suspend: such messages stay below the 64 KiB high-water mark.  A prompt *)
(* carries uploaded files, and its drain may.                              *)
(***************************************************************************)
EXTENDS Naturals, Sequences

CONSTANTS
  Clients,    \* WebSocket clients; each runs one session_stream coroutine
  Admin,      \* the task that restarts or stops the session over REST
  Prompts,    \* prompt ids, each sent at most once (uuids)
  Inits,      \* initialize ids, each sent at most once
  Cancels,    \* cancel ids, each sent at most once
  Requests,   \* ids of worker requests (approvals, questions)
  None,       \* Python's None
  MaxGen      \* bound: no worker beyond the MaxGen-th can be spawned

ASSUME SessionAssumption ==
  /\ Admin \notin Clients
  /\ None \notin Clients \cup {Admin} \cup Prompts \cup Inits \cup Cancels \cup Requests
  /\ MaxGen \in Nat \ {0}

VARIABLES
  holder,     \* the caller holding _lock, or None
  pc,         \* the holder's position in its locked section
  call,       \* what each caller is executing: an operation and its message
  wasBusy,    \* send_message's local was_busy
  gen,        \* number of workers spawned so far
  proc,       \* _process: the generation of the current worker, 0 for None
  readTask,   \* _read_task, 0 for None
  loop,       \* the position of each read loop task
  expecting,  \* _expecting_exit
  inFlight,   \* _in_flight_prompt_ids
  status,     \* the state of _status
  cachedInit, \* the id in _cached_initialize_message
  initialized,\* _worker_initialized
  pendingInit,\* _pending_initialize_id
  cachedResult,\* whether _cached_initialize_result is set
  deduped,    \* _deduped_initialize_ids
  refused,    \* history: the worker has refused the pending initialize
  pendingReq, \* the keys of _pending_requests
  wst,        \* each worker: unborn, running, stdout closed, exited
  stdin,      \* what each worker has yet to read
  stdout,     \* what each worker wrote and no read loop has read
  turn,       \* the prompt each worker is running
  asks,       \* the requests each worker waits on
  inits,      \* how many initialize messages each running worker was sent
  unsent,     \* ids of messages and requests not yet used
  open        \* requests relayed to the clients, which none has answered

lockVars == <<holder, pc, call, wasBusy>>
procVars == <<gen, proc, readTask, expecting>>
initVars == <<cachedInit, initialized, pendingInit, cachedResult, deduped, refused>>
workVars == <<wst, stdin, stdout, turn, asks, inits>>
vars == <<lockVars, procVars, initVars, workVars, loop, inFlight, status, pendingReq, unsent, open>>

-----------------------------------------------------------------------------
Gens == 1..MaxGen
Loops == Gens   \* a read loop is named for the worker it was created for
Tasks == Clients \cup {Admin}
Ids == Prompts \cup Inits \cup Cancels \cup Requests

InMsg == [kind : {"prompt"}, id : Prompts] \cup [kind : {"init"}, id : Inits]
           \cup [kind : {"resp"}, id : Requests] \cup [kind : {"cancel"}, id : Cancels]
OutMsg == [kind : {"done"}, id : Prompts] \cup [kind : {"initOk", "initErr"}, id : Inits]
            \cup [kind : {"request"}, id : Requests]
NoMsg == [kind |-> "none", id |-> None]

NoCall == [op |-> "none", msg |-> NoMsg]
Calls == [op : {"none", "start", "restart", "force", "stop"}, msg : {NoMsg}]
           \cup [op : {"stream", "send", "refresh"}, msg : InMsg]

LoopPcs == {"done", "top", "wait", "handle", "eofWait", "eofErr", "eofEmit"}
LoopAt(p, g, m) == [pc |-> p, on |-> g, msg |-> m]
Ended == LoopAt("done", 0, NoMsg)

\* is_alive: the process exists and its returncode is None.
IsAlive == proc # 0 /\ wst[proc] # "dead"
IsBusy == inFlight # {}
AtEof(g) == stdout[g] = <<>> /\ wst[g] # "running"
ReaderGone == readTask = 0 \/ loop[readTask].pc = "done"

Init ==
  /\ holder = None /\ pc = "free" /\ wasBusy = FALSE
  /\ call = [t \in Tasks |-> NoCall]
  /\ gen = 0 /\ proc = 0 /\ readTask = 0 /\ expecting = FALSE
  /\ loop = [l \in Loops |-> Ended]
  /\ inFlight = {} /\ status = "stopped" /\ pendingReq = {}
  /\ cachedInit = None /\ initialized = FALSE /\ pendingInit = None
  /\ cachedResult = FALSE /\ deduped = <<>> /\ refused = FALSE
  /\ wst = [g \in Gens |-> "unborn"]
  /\ stdin = [g \in Gens |-> <<>>] /\ stdout = [g \in Gens |-> <<>>]
  /\ turn = [g \in Gens |-> None] /\ asks = [g \in Gens |-> {}]
  /\ inits = [g \in Gens |-> 0]
  /\ unsent = Ids /\ open = {}

-----------------------------------------------------------------------------
(* The locked sections.  Enter and Leave are the `async with self._lock`.  *)

Enter(t, p) == holder' = t /\ pc' = p
\* Leaving by return: send_message goes on after its token refresh.
Leave(t) ==
  /\ holder' = None /\ pc' = "free"
  /\ call' = [call EXCEPT ![t] = IF @.op = "refresh" THEN [@ EXCEPT !.op = "send"] ELSE NoCall]
\* Leaving by an exception, which ends the caller.
Abort(t) == holder' = None /\ pc' = "free" /\ call' = [call EXCEPT ![t] = NoCall]

\* A write reaches the pipe unless the worker has exited; only a running
\* worker will read it.
Deliver(g, m) ==
  /\ stdin' = [stdin EXCEPT ![g] = IF wst[g] = "running" THEN Append(@, m) ELSE @]
  /\ inits' = [inits EXCEPT ![g] = IF wst[g] = "running" /\ m.kind = "init" THEN @ + 1 ELSE @]

\* _start_locked, worker alive: only a missing read loop is recreated.
EnsureReader ==
  IF ReaderGone
    THEN loop' = [loop EXCEPT ![proc] = LoopAt("top", 0, NoMsg)] /\ readTask' = proc
    ELSE UNCHANGED <<loop, readTask>>

BeginSpawnKeepsIds ==    \* mutant: the in-flight ids are not cleared
  /\ pendingReq' = {} /\ expecting' = FALSE /\ pc' = "spawn"
  /\ UNCHANGED inFlight

\* _start_locked, no live worker: bookkeeping up to the awaits of the
\* environment and of create_subprocess_exec.
BeginSpawn ==
  /\ inFlight' = {} /\ pendingReq' = {} /\ expecting' = FALSE
  /\ pc' = "spawn"

\* mutant: the first forwarded initialize does not set the flag
ForwardKeepsFlag(m) ==
  \/ /\ m.kind = "init" /\ initialized
     /\ deduped' = IF cachedResult THEN deduped ELSE Append(deduped, m.id)
     /\ UNCHANGED <<initialized, pendingInit, stdin, inits>>
  \/ /\ m.kind = "init" /\ ~initialized
     /\ Deliver(proc, m) /\ pendingInit' = m.id /\ UNCHANGED <<initialized, deduped>>
  \/ /\ m.kind \in {"resp", "cancel"} /\ Deliver(proc, m)
     /\ UNCHANGED <<initialized, pendingInit, deduped>>

\* The rest of send_message for a message that is not a prompt, on the
\* current process: dedup of initialize, local answer to a cancel, write.
\* A failed write leaves no trace but the error sent to the clients.
Forward(m) ==
  \/ /\ m.kind = "init" /\ initialized
     /\ deduped' = IF cachedResult THEN deduped ELSE Append(deduped, m.id)
     /\ UNCHANGED <<initialized, pendingInit, stdin, inits>>
  \/ /\ m.kind = "init" /\ ~initialized
     /\ \/ /\ wst[proc] # "dead"
           /\ Deliver(proc, m) /\ initialized' = TRUE /\ pendingInit' = m.id
           /\ UNCHANGED deduped
        \/ /\ wst[proc] # "running"
           /\ UNCHANGED <<initialized, pendingInit, deduped, stdin, inits>>
  \/ /\ m.kind \in {"resp", "cancel"}
     /\ IF m.kind = "cancel" /\ ~IsBusy THEN UNCHANGED <<stdin, inits>> ELSE Deliver(proc, m)
     /\ UNCHANGED <<initialized, pendingInit, deduped>>

\* Where a written prompt's drain() goes: the pipe of an exited worker is broken.
Drain == IF wst[proc] = "dead" THEN "broken" ELSE "drain"

\* A prompt on the current process: it is in flight before it is written, and
\* emitting "busy" suspends between the two.
PromptBody(m) ==
  /\ inFlight' = inFlight \cup {m.id} /\ wasBusy' = IsBusy
  /\ IF IsBusy THEN pc' = Drain /\ Deliver(proc, m) /\ UNCHANGED status
               ELSE pc' = "write" /\ status' = "busy" /\ UNCHANGED <<stdin, inits>>

-----------------------------------------------------------------------------
(* session_stream and the REST callers.                                    *)

\* A client connects: history is replayed, then start() is called.
StreamConnect(c) ==
  /\ call[c] = NoCall
  /\ call' = [call EXCEPT ![c].op = "start"]
  /\ UNCHANGED <<holder, pc, wasBusy, procVars, initVars, workVars, loop, inFlight, status,
                 pendingReq, unsent, open>>

\* receive_text and the busy check, made without the lock: a prompt is refused
\* while busy, except that an error status makes the in-flight ids stale.
StreamPrompt(c) == \E p \in unsent \cap Prompts :
  /\ call[c] = NoCall
  /\ unsent' = unsent \ {p}
  /\ IF IsBusy /\ status # "error"
       THEN UNCHANGED <<call, inFlight>>
       ELSE /\ call' = [call EXCEPT ![c] = [op |-> "stream", msg |-> [kind |-> "prompt", id |-> p]]]
            /\ inFlight' = {}
  /\ UNCHANGED <<holder, pc, wasBusy, procVars, initVars, workVars, loop, status, pendingReq, open>>

StreamOther(c) == \E m \in {x \in InMsg : x.kind # "prompt"} :
  /\ call[c] = NoCall
  /\ m.kind \in {"init", "cancel"} => m.id \in unsent
  /\ m.kind = "resp" => m.id \in open
  /\ unsent' = unsent \ {m.id} /\ open' = open \ {m.id}
  /\ call' = [call EXCEPT ![c] = [op |-> "send", msg |-> m]]
  /\ UNCHANGED <<holder, pc, wasBusy, procVars, initVars, workVars, loop, inFlight, status, pendingReq>>

\* mutant: the token is refreshed while holding the lock restart_worker takes
RefreshUnderLock(c) ==
  /\ holder = c /\ pc = "gate" /\ IsAlive /\ ~IsBusy
  /\ call' = [call EXCEPT ![c].op = "refresh"]
  /\ UNCHANGED <<holder, pc, wasBusy, procVars, initVars, workVars, loop, inFlight, status,
                 pendingReq, unsent, open>>

\* send_message finds the proxy token about to expire and restarts first.
TokenRefresh(c) ==
  /\ call[c].op = "stream"
  /\ IsAlive /\ ~IsBusy
  /\ call' = [call EXCEPT ![c].op = "refresh"]
  /\ UNCHANGED <<holder, pc, wasBusy, procVars, initVars, workVars, loop, inFlight, status,
                 pendingReq, unsent, open>>

\* restart_running_workers, delete_session, runner shutdown.
AdminCall == \E op \in {"restart", "force", "stop"} :
  /\ call[Admin] = NoCall
  /\ call' = [call EXCEPT ![Admin].op = op]
  /\ UNCHANGED <<holder, pc, wasBusy, procVars, initVars, workVars, loop, inFlight, status,
                 pendingReq, unsent, open>>

-----------------------------------------------------------------------------
(* start, send_message.                                                    *)

\* mutant: the bookkeeping is reset before the live worker is noticed
StartResets(c) ==
  /\ holder = None /\ call[c].op = "start" /\ pendingReq' = {}
  /\ IF IsAlive
       THEN /\ EnsureReader /\ call' = [call EXCEPT ![c] = NoCall]
            /\ UNCHANGED <<holder, pc, inFlight, expecting>>
       ELSE /\ holder' = c /\ BeginSpawn /\ UNCHANGED <<loop, readTask, call>>
  /\ UNCHANGED <<wasBusy, gen, proc, initVars, workVars, status, unsent, open>>

Start(c) ==
  /\ holder = None /\ call[c].op = "start"
  /\ IF IsAlive
       THEN /\ EnsureReader /\ call' = [call EXCEPT ![c] = NoCall]
            /\ UNCHANGED <<holder, pc, inFlight, pendingReq, expecting>>
       ELSE /\ holder' = c /\ BeginSpawn /\ UNCHANGED <<loop, readTask, call>>
  /\ UNCHANGED <<wasBusy, gen, proc, initVars, workVars, status, unsent, open>>

\* An initialize is cached and a response settles its request before the
\* worker is looked at; both survive a spawn that follows.
SendControl(c) ==
  LET m == call[c].msg IN
  /\ holder = None /\ call[c].op = "send" /\ m.kind # "prompt"
  /\ cachedInit' = IF m.kind = "init" THEN m.id ELSE cachedInit
  /\ IF IsAlive
       THEN /\ pendingReq' = IF m.kind = "resp" THEN pendingReq \ {m.id} ELSE pendingReq
            /\ EnsureReader /\ Forward(m) /\ call' = [call EXCEPT ![c] = NoCall]
            /\ UNCHANGED <<holder, pc, inFlight, expecting>>
       ELSE /\ holder' = c /\ BeginSpawn
            /\ UNCHANGED <<loop, readTask, call, initialized, pendingInit, deduped, stdin, inits>>
  /\ UNCHANGED <<wasBusy, gen, proc, cachedResult, refused, wst, stdout, turn, asks, status, unsent, open>>

\* mutant: every message takes the prompt's path into the in-flight ids
SendAny(c) ==
  /\ holder = None /\ call[c].op \in {"stream", "send"}
  /\ Enter(c, "gate") /\ call' = [call EXCEPT ![c].op = "send"]
  /\ UNCHANGED <<wasBusy, procVars, initVars, workVars, loop, inFlight, status, pendingReq, unsent, open>>

SendPrompt(c) ==
  /\ holder = None /\ call[c].op \in {"stream", "send"} /\ call[c].msg.kind = "prompt"
  /\ Enter(c, "gate") /\ call' = [call EXCEPT ![c].op = "send"]
  /\ UNCHANGED << wasBusy, procVars, initVars, workVars, loop, inFlight, status, pendingReq, unsent, open>>

\* _prompt_gate_error: no key or no quota left.
GateRefuses(c) ==
  /\ holder = c /\ pc = "gate" /\ Leave(c)
  /\ UNCHANGED <<wasBusy, procVars, initVars, workVars, loop, inFlight, status, pendingReq, unsent, open>>

GatePasses(c) ==
  /\ holder = c /\ pc = "gate"
  /\ IF IsAlive
       THEN EnsureReader /\ PromptBody(call[c].msg) /\ UNCHANGED <<pendingReq, expecting>>
       ELSE BeginSpawn /\ UNCHANGED <<loop, readTask, stdin, inits, wasBusy, status>>
  /\ UNCHANGED <<holder, call, gen, proc, initVars, wst, stdout, turn, asks, unsent, open>>

\* create_subprocess_exec, or the environment for it, raises.
SpawnFails(t) ==
  /\ holder = t /\ pc = "spawn" /\ Abort(t)
  /\ UNCHANGED <<wasBusy, procVars, initVars, workVars, loop, inFlight, status, pendingReq, unsent, open>>

\* mutant: only a restart replays, not a spawn for a reconnecting client
ReplaysOnRestart == cachedInit # None /\ call[holder].op # "start"

Replays == cachedInit # None

\* The worker is up: a read loop of its own, no initialize state, and the
\* cached initialize replayed to it.  An earlier read loop is not cancelled.
SpawnWorks(t) ==
  LET g == gen + 1 IN
  /\ holder = t /\ pc = "spawn" /\ gen < MaxGen
  /\ gen' = g /\ proc' = g /\ readTask' = g
  /\ loop' = [loop EXCEPT ![g] = LoopAt("top", 0, NoMsg)]
  /\ cachedResult' = FALSE /\ deduped' = <<>> /\ refused' = FALSE
  /\ \/ /\ initialized' = Replays /\ pendingInit' = cachedInit
        /\ wst' = [wst EXCEPT ![g] = "running"]
        /\ stdin' = [stdin EXCEPT ![g] = IF Replays THEN <<[kind |-> "init", id |-> cachedInit]>> ELSE <<>>]
        /\ inits' = [inits EXCEPT ![g] = IF Replays THEN 1 ELSE 0]
        /\ status' = "idle" /\ pc' = "spawned" /\ UNCHANGED <<holder, call>>
     \/ /\ Replays /\ initialized' = FALSE /\ pendingInit' = None   \* the drain raises
        /\ wst' = [wst EXCEPT ![g] = "closing"]
        /\ Abort(t) /\ UNCHANGED <<stdin, inits, status>>
  /\ UNCHANGED <<wasBusy, expecting, cachedInit, stdout, turn, asks, inFlight, pendingReq, unsent, open>>

\* _start_locked returns to start() or restart_worker().
Started(t) ==
  /\ holder = t /\ pc = "spawned" /\ call[t].op # "send" /\ Leave(t)
  /\ UNCHANGED <<wasBusy, procVars, initVars, workVars, loop, inFlight, status, pendingReq, unsent, open>>

\* _start_locked returns to send_message, which does not look again whether
\* the worker is alive.
StartedSend(c) ==
  /\ holder = c /\ pc = "spawned" /\ call[c].op = "send"
  /\ IF call[c].msg.kind = "prompt"
       THEN PromptBody(call[c].msg) /\ UNCHANGED <<holder, call, initialized, pendingInit, deduped>>
       ELSE Forward(call[c].msg) /\ Leave(c) /\ UNCHANGED <<wasBusy, inFlight, status>>
  /\ UNCHANGED <<procVars, cachedInit, cachedResult, refused, wst, stdout, turn, asks, loop, pendingReq,
                 unsent, open>>

WritePrompt(c) ==
  /\ holder = c /\ pc = "write"
  /\ Deliver(proc, call[c].msg) /\ pc' = Drain
  /\ UNCHANGED <<holder, call, wasBusy, procVars, initVars, wst, stdout, turn, asks, loop, inFlight,
                 status, pendingReq, unsent, open>>

\* The pipe took the message; the worker may die before it reads it.
DrainReturns(c) ==
  /\ holder = c /\ pc = "drain" /\ Leave(c)
  /\ UNCHANGED <<wasBusy, procVars, initVars, workVars, loop, inFlight, status, pendingReq, unsent, open>>

\* BrokenPipeError or ConnectionResetError: the prompt is rolled back.
DrainRaises(c) ==
  LET p == call[c].msg.id IN
  /\ holder = c
  /\ \/ pc = "broken"
     \/ pc = "drain" /\ wst[proc] # "running"
  /\ inFlight' = inFlight \ {p}
  /\ status' = IF wasBusy /\ inFlight' = {} THEN "idle" ELSE status
  /\ Leave(c)
  /\ UNCHANGED <<wasBusy, procVars, initVars, workVars, loop, pendingReq, unsent, open>>

-----------------------------------------------------------------------------
(* restart_worker, stop.                                                   *)

\* The worker is gone: what it had not read is lost, what it wrote stays in
\* the pipe.
Kill(g) ==
  /\ wst' = [wst EXCEPT ![g] = "dead"]
  /\ stdin' = [stdin EXCEPT ![g] = <<>>]
  /\ turn' = [turn EXCEPT ![g] = None]
  /\ asks' = [asks EXCEPT ![g] = {}]

\* A restart that is not forced is skipped while busy; a token refresh also
\* when another caller has just refreshed it.
RestartSkipped(t) ==
  /\ holder = None /\ call[t].op \in {"restart", "refresh"}
  /\ IsBusy \/ call[t].op = "refresh"
  /\ Leave(t)
  /\ UNCHANGED <<wasBusy, procVars, initVars, workVars, loop, inFlight, status, pendingReq, unsent, open>>

RestartBegins(t) ==
  /\ holder = None /\ call[t].op \in {"restart", "force", "refresh"}
  /\ IsBusy => call[t].op = "force"
  /\ call[t].op = "refresh" => IsAlive
  /\ Enter(t, "stop") /\ status' = "restarting"
  /\ UNCHANGED <<call, wasBusy, procVars, initVars, workVars, loop, inFlight, pendingReq, unsent, open>>

StopBegins(t) ==
  /\ holder = None /\ call[t].op = "stop" /\ Enter(t, "stop")
  /\ UNCHANGED <<call, wasBusy, procVars, initVars, workVars, loop, inFlight, status, pendingReq, unsent, open>>

Terminate(t) ==
  /\ holder = t /\ pc = "stop" /\ pc' = "reap" /\ expecting' = TRUE
  /\ UNCHANGED <<holder, call, wasBusy, gen, proc, readTask, initVars, workVars, loop, inFlight,
                 status, pendingReq, unsent, open>>

\* wait() has returned, after kill() if the worker took 10 s: the process is
\* forgotten and the current read loop cancelled.
Reap(t) ==
  /\ holder = t /\ pc = "reap" /\ pc' = "cancelled"
  /\ proc' = 0
  /\ IF proc = 0 THEN UNCHANGED <<wst, stdin, turn, asks>> ELSE Kill(proc)
  /\ loop' = IF readTask = 0 THEN loop ELSE [loop EXCEPT ![readTask] = Ended]
  /\ UNCHANGED <<holder, call, wasBusy, gen, readTask, expecting, initVars, stdout, inits, inFlight,
                 status, pendingReq, unsent, open>>

StopReturns(t) ==
  /\ holder = t /\ pc = "cancelled" /\ readTask' = 0
  /\ IF call[t].op = "stop"
       THEN /\ inFlight' = {} /\ expecting' = FALSE /\ status' = "stopped"
            /\ Leave(t) /\ UNCHANGED pendingReq
       ELSE BeginSpawn /\ UNCHANGED <<holder, call, status>>
  /\ UNCHANGED <<wasBusy, gen, proc, initVars, workVars, loop, unsent, open>>

-----------------------------------------------------------------------------
(* _read_loop.  It names self._process afresh at every use, so a loop that *)
(* outlives its worker goes on with the worker spawned after it.           *)

loopOnly == <<lockVars, gen, proc, readTask, expecting, unsent>>

MoveLoop(l, pos) == loop' = [loop EXCEPT ![l] = pos]

\* `except Exception`: a None process, or two readers of one stream.
Crash(l) == /\ MoveLoop(l, Ended) /\ inFlight' = {} /\ status' = "error"

\* A line is read, and its broadcast to the clients begins.
Take(l, g) ==
  /\ stdout[g] # <<>>
  /\ stdout' = [stdout EXCEPT ![g] = Tail(@)]
  /\ MoveLoop(l, LoopAt("handle", g, Head(stdout[g])))
  /\ open' = IF Head(stdout[g]).kind = "request" THEN open \cup {Head(stdout[g]).id} ELSE open
  /\ UNCHANGED <<inFlight, status>>

\* readline returned b"": whether this is the end is asked of the process
\* that is current now.
EndOfStream(l, g) ==
  /\ AtEof(g)
  /\ IF proc = 0
       THEN Crash(l)
       ELSE /\ MoveLoop(l, IF ~AtEof(proc) THEN LoopAt("top", 0, NoMsg)
                           ELSE IF expecting THEN Ended ELSE LoopAt("eofWait", proc, NoMsg))
            /\ UNCHANGED <<inFlight, status>>
  /\ UNCHANGED <<stdout, open>>

LoopReads(l) ==
  /\ loop[l].pc = "top"
  /\ IF proc = 0
       THEN Crash(l) /\ UNCHANGED <<stdout, open>>
       ELSE \/ Take(l, proc)
            \/ EndOfStream(l, proc)
            \/ /\ stdout[proc] = <<>> /\ wst[proc] = "running"
               /\ IF \E k \in Loops : loop[k].pc = "wait" /\ loop[k].on = proc
                    THEN Crash(l)
                    ELSE MoveLoop(l, LoopAt("wait", proc, NoMsg)) /\ UNCHANGED <<inFlight, status>>
               /\ UNCHANGED <<stdout, open>>
  /\ UNCHANGED <<loopOnly, initVars, wst, stdin, turn, asks, inits, pendingReq>>

LoopWakes(l) ==
  /\ loop[l].pc = "wait"
  /\ Take(l, loop[l].on) \/ EndOfStream(l, loop[l].on)
  /\ UNCHANGED <<loopOnly, initVars, wst, stdin, turn, asks, inits, pendingReq>>

\* mutant: any completion announces idle
HandleDoneIdle(m) ==
  /\ inFlight' = inFlight \ {m.id} /\ status' = "idle"
  /\ UNCHANGED <<pendingInit, cachedResult, deduped, pendingReq>>

\* After the broadcast of the line.
HandleDone(m) ==
  /\ inFlight' = inFlight \ {m.id}
  /\ status' = IF IsBusy /\ inFlight' = {} THEN "idle" ELSE status
  /\ UNCHANGED <<pendingInit, cachedResult, deduped, pendingReq>>

\* mutant: the result is cached and those who wait for it are forgotten
HandleInitOkForgets(m) ==
  /\ IF pendingInit = m.id THEN cachedResult' = TRUE /\ pendingInit' = None
                           ELSE UNCHANGED <<cachedResult, pendingInit>>
  /\ UNCHANGED <<inFlight, status, deduped, pendingReq>>

HandleInitOk(m) ==
  /\ IF pendingInit = m.id
       THEN cachedResult' = TRUE /\ pendingInit' = None /\ deduped' = <<>>
       ELSE UNCHANGED <<cachedResult, pendingInit, deduped>>
  /\ UNCHANGED <<inFlight, status, pendingReq>>

HandleRequest(m) ==
  /\ pendingReq' = pendingReq \cup {m.id}
  /\ UNCHANGED <<inFlight, status, pendingInit, cachedResult, deduped>>

\* The error branch looks at the prompts in flight only: a refusal of the
\* pending initialize leaves it pending, and those who wait for it waiting.
LoopHandles(l) ==
  LET m == loop[l].msg IN
  /\ loop[l].pc = "handle" /\ MoveLoop(l, LoopAt("top", 0, NoMsg))
  /\ CASE m.kind = "done" -> HandleDone(m)
       [] m.kind = "initOk" -> HandleInitOk(m)
       [] m.kind = "request" -> HandleRequest(m)
       [] OTHER -> UNCHANGED <<inFlight, status, pendingInit, cachedResult, deduped, pendingReq>>
  /\ refused' = (refused \/ (m.kind = "initErr" /\ m.id = pendingInit /\ loop[l].on = proc))
  /\ UNCHANGED <<loopOnly, cachedInit, initialized, workVars, open>>

\* process.wait() returns, or times out and the current process is killed;
\* then the stderr of the current process is read.
EofReaped(l) ==
  /\ loop[l].pc = "eofWait"
  /\ \/ wst[loop[l].on] = "dead" /\ UNCHANGED workVars
     \/ /\ wst[loop[l].on] = "closing"
        /\ IF proc # 0 THEN Kill(proc) /\ UNCHANGED <<stdout, inits>> ELSE UNCHANGED workVars
  /\ IF proc = 0 THEN Crash(l)
                 ELSE MoveLoop(l, LoopAt("eofErr", 0, NoMsg)) /\ UNCHANGED <<inFlight, status>>
  /\ UNCHANGED <<loopOnly, initVars, pendingReq, open>>

\* mutant: the dead worker's prompts stay in flight
EofClearsRequests(l) ==
  /\ loop[l].pc = "eofErr"
  /\ IF proc = 0 THEN Crash(l) /\ UNCHANGED pendingReq
     ELSE /\ pendingReq' = {} /\ UNCHANGED <<inFlight, status>>
          /\ MoveLoop(l, LoopAt("eofEmit", 0, NoMsg))
  /\ UNCHANGED <<loopOnly, initVars, workVars, open>>

\* stderr is drained, or 5 s have passed.
EofClears(l) ==
  /\ loop[l].pc = "eofErr"
  /\ IF proc = 0 THEN Crash(l) /\ UNCHANGED pendingReq
     ELSE /\ inFlight' = {} /\ pendingReq' = {}
          /\ MoveLoop(l, LoopAt("eofEmit", 0, NoMsg)) /\ UNCHANGED status
  /\ UNCHANGED <<loopOnly, initVars, workVars, open>>

\* The error response has been broadcast.
EofEmits(l) ==
  /\ loop[l].pc = "eofEmit"
  /\ IF proc = 0 THEN Crash(l)
     ELSE MoveLoop(l, Ended) /\ status' = "error" /\ UNCHANGED inFlight
  /\ UNCHANGED <<loopOnly, initVars, workVars, pendingReq, open>>

LoopStep(l) == LoopReads(l) \/ LoopWakes(l) \/ LoopHandles(l) \/ EofReaped(l) \/ EofClears(l) \/ EofEmits(l)

-----------------------------------------------------------------------------
(* The worker process, from the messages it owes its supervisor            *)
(* (wire/server.py: _dispatch_msg, _handle_initialize, _handle_prompt).    *)

workerOnly == <<lockVars, procVars, initVars, loop, inFlight, status, pendingReq, open>>

WorkerReads(g) ==
  LET m == Head(stdin[g])
      reply(k) == stdout' = [stdout EXCEPT ![g] = Append(@, [kind |-> k, id |-> m.id])] IN
  /\ wst[g] = "running" /\ stdin[g] # <<>>
  /\ stdin' = [stdin EXCEPT ![g] = Tail(@)]
  /\ CASE m.kind = "prompt" -> /\ IF turn[g] = None THEN UNCHANGED stdout ELSE reply("done")
                               /\ turn' = [turn EXCEPT ![g] = IF @ = None THEN m.id ELSE @]
                               /\ UNCHANGED asks
       [] m.kind = "init" -> /\ reply(IF turn[g] = None THEN "initOk" ELSE "initErr")
                             /\ UNCHANGED <<turn, asks>>
       [] m.kind = "resp" -> /\ asks' = [asks EXCEPT ![g] = @ \ {m.id}]
                             /\ UNCHANGED <<turn, stdout>>
       [] OTHER -> UNCHANGED <<turn, asks, stdout>>
  /\ UNCHANGED <<workerOnly, wst, inits, unsent>>

WorkerAsks(g) == \E r \in unsent \cap Requests :
  /\ wst[g] = "running" /\ turn[g] # None
  /\ asks' = [asks EXCEPT ![g] = @ \cup {r}] /\ unsent' = unsent \ {r}
  /\ stdout' = [stdout EXCEPT ![g] = Append(@, [kind |-> "request", id |-> r])]
  /\ UNCHANGED <<workerOnly, wst, stdin, turn, inits>>

\* The turn ends, completed, cancelled or failed; its requests are settled.
TurnEnds(g) ==
  /\ wst[g] = "running" /\ turn[g] # None
  /\ turn' = [turn EXCEPT ![g] = None] /\ asks' = [asks EXCEPT ![g] = {}]
  /\ stdout' = [stdout EXCEPT ![g] = Append(@, [kind |-> "done", id |-> turn[g]])]
  /\ UNCHANGED <<workerOnly, wst, stdin, inits, unsent>>

\* The worker dies by itself: its stdout may end before the exit is reaped.
WorkerCloses(g) ==
  /\ wst[g] = "running"
  /\ wst' = [wst EXCEPT ![g] = "closing"] /\ stdin' = [stdin EXCEPT ![g] = <<>>]
  /\ turn' = [turn EXCEPT ![g] = None] /\ asks' = [asks EXCEPT ![g] = {}]
  /\ UNCHANGED <<workerOnly, stdout, inits, unsent>>

WorkerExits(g) ==
  /\ wst[g] \in {"running", "closing"} /\ Kill(g)
  /\ UNCHANGED <<workerOnly, stdout, inits, unsent>>

-----------------------------------------------------------------------------
ClientStep(c) ==
  StreamConnect(c) \/ StreamPrompt(c) \/ StreamOther(c) \/ TokenRefresh(c)

CallStep(t) ==
  \/ Start(t) \/ SendControl(t) \/ SendPrompt(t) \/ GateRefuses(t) \/ GatePasses(t)
  \/ SpawnFails(t) \/ SpawnWorks(t) \/ Started(t) \/ StartedSend(t)
  \/ WritePrompt(t) \/ DrainReturns(t) \/ DrainRaises(t)
  \/ RestartSkipped(t) \/ RestartBegins(t) \/ StopBegins(t)
  \/ Terminate(t) \/ Reap(t) \/ StopReturns(t)

WorkerStep(g) ==
  WorkerReads(g) \/ WorkerAsks(g) \/ TurnEnds(g) \/ WorkerCloses(g) \/ WorkerExits(g)

Next ==
  \/ AdminCall
  \/ \E c \in Clients : ClientStep(c)
  \/ \E t \in Tasks : CallStep(t)
  \/ \E l \in Loops : LoopStep(l)
  \/ \E g \in Gens : WorkerStep(g)

Spec == Init /\ [][Next]_vars

(***************************************************************************)
(* The event loop runs every ready task (WF of loops and of the holder),   *)
(* asyncio.Lock wakes its waiters in FIFO order (SF of acquiring), and a   *)
(* running worker reads its stdin and ends its turns.                      *)
(***************************************************************************)
Fairness ==
  /\ \A t \in Tasks : /\ SF_vars(holder = None /\ CallStep(t))
                      /\ WF_vars(holder = t /\ CallStep(t))
  /\ \A l \in Loops : WF_vars(LoopStep(l))
  /\ \A g \in Gens : WF_vars(WorkerReads(g)) /\ WF_vars(TurnEnds(g))
FairSpec == Spec /\ Fairness

-----------------------------------------------------------------------------
(* Every variable has its type.                                            *)
TypeOK ==
  /\ holder \in Tasks \cup {None}
  /\ pc \in {"free", "gate", "spawn", "spawned", "write", "drain", "broken", "stop", "reap", "cancelled"}
  /\ call \in [Tasks -> Calls] /\ wasBusy \in BOOLEAN
  /\ gen \in 0..MaxGen /\ proc \in 0..gen /\ readTask \in {0} \cup Loops /\ expecting \in BOOLEAN
  /\ loop \in [Loops -> [pc : LoopPcs, on : 0..MaxGen, msg : OutMsg \cup {NoMsg}]]
  /\ inFlight \subseteq Prompts
  /\ status \in {"stopped", "idle", "busy", "restarting", "error"}
  /\ cachedInit \in Inits \cup {None} /\ initialized \in BOOLEAN
  /\ pendingInit \in Inits \cup {None} /\ cachedResult \in BOOLEAN
  /\ deduped \in Seq(Inits) /\ refused \in BOOLEAN /\ pendingReq \subseteq Requests
  /\ wst \in [Gens -> {"unborn", "running", "closing", "dead"}]
  /\ stdin \in [Gens -> Seq(InMsg)] /\ stdout \in [Gens -> Seq(OutMsg)]
  /\ turn \in [Gens -> Prompts \cup {None}] /\ asks \in [Gens -> SUBSET Requests]
  /\ inits \in [Gens -> Nat] /\ unsent \subseteq Ids /\ open \subseteq Requests

(* A status that invites a prompt (idle) or says there is no worker        *)
(* (stopped) is never shown while a prompt id is in flight: whoever adds   *)
(* the first id or clears the last one also moves the status.              *)
QuietMeansNotBusy == status \in {"idle", "stopped"} => ~IsBusy

(* No phantom prompt: while the current worker runs, each id that keeps    *)
(* the session busy is a prompt still being written to it, or one it has   *)
(* yet to read, is running, or has answered without the answer being       *)
(* handled.  Nothing is left over from an earlier worker.                  *)
InFlightOwned ==
  \A p \in inFlight :
    (proc # 0 /\ wst[proc] = "running") =>
      \/ holder # None /\ call[holder].msg.id = p /\ pc \in {"write", "drain", "broken"}
      \/ \E i \in DOMAIN stdin[proc] : stdin[proc][i] = [kind |-> "prompt", id |-> p]
      \/ turn[proc] = p
      \/ \E i \in DOMAIN stdout[proc] : stdout[proc][i] = [kind |-> "done", id |-> p]
      \/ \E l \in Loops : loop[l].pc = "handle" /\ loop[l].msg = [kind |-> "done", id |-> p]

(* A running worker gets initialize once, whichever clients send one and   *)
(* however the spawn, the replay and the clients interleave (a duplicate   *)
(* "would confuse the wire server").                                       *)
InitializeOnce == \A g \in Gens : inits[g] <= 1

(* Client capabilities survive restarts and respawns: once a client has    *)
(* initialized, every running worker that is past its spawn has been sent  *)
(* an initialize.                                                          *)
InitializeRestored ==
  (holder = None /\ cachedInit # None /\ proc # 0 /\ wst[proc] = "running") => inits[proc] = 1

(* Ids wait in the queue of deduped initializes only while the result is   *)
(* not cached, and an answer that will empty the queue is on its way: the  *)
(* initialize waits in the running worker's input, or its answer in the    *)
(* output or in a read loop's hands.  Except where the worker has refused  *)
(* that initialize, because a turn ran: nothing answers the queue then,    *)
(* although process.py:183-189 and 1241-1243 promise that it is answered.  *)
DedupedAwaitAnswer ==
  deduped # <<>> =>
    /\ initialized /\ pendingInit # None /\ ~cachedResult
    /\ (proc # 0 /\ wst[proc] = "running") =>
         LET answers == [kind : {"initOk", "initErr"}, id : {pendingInit}] IN
         \/ refused
         \/ \E i \in DOMAIN stdin[proc] : stdin[proc][i] = [kind |-> "init", id |-> pendingInit]
         \/ \E i \in DOMAIN stdout[proc] : stdout[proc][i] \in answers
         \/ \E l \in Loops : loop[l].pc = "handle" /\ loop[l].on = proc /\ loop[l].msg \in answers

(* A request the running worker waits on leaves the set that is re-sent to *)
(* new clients only when a client answers it, or when the read loop of an  *)
(* earlier worker that outlived it clears the set.                         *)
QuestionKept ==
  [][\A r \in pendingReq \ pendingReq' :
        (proc # 0 /\ wst[proc] = "running" /\ r \in asks[proc]) =>
           \/ \E t \in Tasks : call[t].msg = [kind |-> "resp", id |-> r]
           \/ \E l \in Loops \ {readTask} : loop[l].pc = "eofErr"]_vars

(* A busy session becomes not busy: by the worker's answer, by the end of  *)
(* its stdout, or by a restart; no crash or race leaves an id behind that  *)
(* has every later prompt refused.                                         *)
InFlightSettles == IsBusy ~> ~IsBusy

(* Every call returns: no task waits for _lock for ever, and none holds it *)
(* for ever.                                                               *)
CallsReturn == \A t \in Tasks : (call[t].op # "none") ~> (call[t].op = "none")

-----------------------------------------------------------------------------
(* Two claims of the code that its steps do not keep.                      *)

(* process.py:1191 "never kill a worker that became busy in the race       *)
(* window": a restart that is not forced ends no worker that runs a turn.  *)
NeverKillBusyWorker ==
  [][\A t \in Tasks : (Terminate(t) /\ call[t].op \in {"restart", "refresh"} /\ proc # 0)
                         => turn[proc] = None]_vars

(* process.py:1272 "Roll back bookkeeping and tell the client ... so it    *)
(* can retry instead of hanging": a "busy" shown with nothing in flight is *)
(* corrected, by a new status or by the next prompt.                       *)
BusyStatusSettles == (status = "busy" /\ ~IsBusy) ~> (status # "busy" \/ IsBusy)
=============================================================================
