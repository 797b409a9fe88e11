------------------------ MODULE SessionProcessTyping ------------------------
(***************************************************************************)
(* What SessionProcess keeps for every value of the constants, on top of   *)
(* ControlInv, StatusInv and InitInv: the types (the read loops and what   *)
(* they read, the pipes and what the workers do with them, the sets of     *)
(* ids), then who owns a prompt in flight, who may drop a question, and    *)
(* who owes the deduped their answer:                                      *)
(*                                                                         *)
(*   IInv       every variable has its type                                *)
(*   ReaderInv  the read loop of the current worker, and where it can be   *)
(*   Owned      where the prompts in flight are while the worker runs      *)
(*   AnswerOwed where the pending initialize, or its answer, is            *)
(***************************************************************************)
EXTENDS SessionProcessProofs

-----------------------------------------------------------------------------
(* The read loops and the output they read.                                *)

LoopPos == [pc : LoopPcs, on : 0..MaxGen, msg : OutMsg \cup {NoMsg}]
LoopTyped == loop \in [Loops -> LoopPos]

\* A loop that waits on a stream or on an exit waits on some worker's.
LoopsOnWorkers == \A l \in Loops : loop[l].pc \in {"wait", "eofWait"} => loop[l].on \in Gens

StdoutTyped == stdout \in [Gens -> Seq(OutMsg)]

LoopInv == LoopTyped /\ LoopsOnWorkers /\ StdoutTyped /\ readTask \in {0} \cup Loops

LEMMA LoopInvInit == Init => LoopInv
<1> SUFFICES ASSUME Init PROVE LoopInv
  OBVIOUS
<1>1. Ended \in LoopPos /\ Ended.pc = "done"
  BY SessionAssumption DEF Ended, LoopAt, LoopPos, LoopPcs, SessionAssumption
<1>2. LoopTyped /\ LoopsOnWorkers
  BY <1>1 DEF Init, LoopTyped, LoopsOnWorkers
<1>3. StdoutTyped /\ readTask \in {0} \cup Loops
  BY DEF Init, StdoutTyped
<1> QED
  BY <1>2, <1>3 DEF LoopInv

\* The positions a loop is moved to.
LEMMA Positions ==
  /\ Ended \in LoopPos /\ LoopAt("top", 0, NoMsg) \in LoopPos
  /\ LoopAt("eofErr", 0, NoMsg) \in LoopPos /\ LoopAt("eofEmit", 0, NoMsg) \in LoopPos
  /\ \A p \in {"wait", "eofWait"}, g \in Gens : LoopAt(p, g, NoMsg) \in LoopPos
  /\ \A g \in Gens, m \in OutMsg : LoopAt("handle", g, m) \in LoopPos
  /\ \A p \in LoopPcs, g \in 0..MaxGen, m \in OutMsg \cup {NoMsg} :
        LoopAt(p, g, m).pc = p /\ LoopAt(p, g, m).on = g
  /\ Ended.pc = "done"
BY SessionAssumption DEF SessionAssumption, Ended, LoopAt, LoopPos, LoopPcs, Gens

LEMMA MoveLoopTyped ==
  ASSUME LoopInv, NEW l \in Loops, NEW pos \in LoopPos, MoveLoop(l, pos),
         pos.pc \in {"wait", "eofWait"} => pos.on \in Gens
  PROVE  LoopTyped' /\ LoopsOnWorkers'
BY DEF LoopInv, LoopTyped, LoopsOnWorkers, MoveLoop

LEMMA CrashTyped ==
  ASSUME LoopInv, NEW l \in Loops, Crash(l)
  PROVE  LoopTyped' /\ LoopsOnWorkers'
BY Positions, MoveLoopTyped DEF Crash

\* What a loop takes from the stream is a message of the worker's.
LEMMA TakeTyped ==
  ASSUME LoopInv, NEW l \in Loops, NEW g \in Gens, Take(l, g)
  PROVE  /\ LoopTyped' /\ LoopsOnWorkers' /\ StdoutTyped'
         /\ Head(stdout[g]) \in OutMsg
<1>1. stdout[g] \in Seq(OutMsg) /\ stdout[g] # <<>>
  BY DEF Take, LoopInv, StdoutTyped
<1>2. Head(stdout[g]) \in OutMsg /\ Tail(stdout[g]) \in Seq(OutMsg)
  BY <1>1
<1>3. LoopAt("handle", g, Head(stdout[g])) \in LoopPos
  BY <1>2, Positions
<1>4. LoopAt("handle", g, Head(stdout[g])).pc = "handle"
  BY DEF LoopAt
<1>5. LoopTyped' /\ LoopsOnWorkers'
  BY <1>3, <1>4, MoveLoopTyped DEF Take
<1>6. StdoutTyped'
  BY <1>2 DEF Take, LoopInv, StdoutTyped
<1> QED
  BY <1>2, <1>5, <1>6

LEMMA EndOfStreamTyped ==
  ASSUME LoopInv, proc \in 0..MaxGen, NEW l \in Loops, NEW g \in Gens, EndOfStream(l, g)
  PROVE  LoopTyped' /\ LoopsOnWorkers'
<1>1. CASE proc = 0
  BY <1>1, CrashTyped DEF EndOfStream
<1>2. CASE proc # 0
  <2>1. proc \in Gens
    BY <1>2, SessionAssumption DEF Gens, SessionAssumption
  <2>2. PICK pos \in {LoopAt("top", 0, NoMsg), Ended, LoopAt("eofWait", proc, NoMsg)} : MoveLoop(l, pos)
    BY <1>2 DEF EndOfStream
  <2>3. pos \in LoopPos /\ (pos.pc \in {"wait", "eofWait"} => pos.on \in Gens)
    BY <2>1, <2>2, Positions DEF LoopAt
  <2> QED
    BY <2>2, <2>3, MoveLoopTyped
<1> QED
  BY <1>1, <1>2

LEMMA LoopLoopInv ==
  ASSUME ControlInv, LoopInv, NEW l \in Loops, LoopStep(l) PROVE LoopInv'
<1> USE DEF LoopInv
<1>0. proc \in 0..MaxGen /\ (proc # 0 => proc \in Gens)
  BY SessionAssumption DEF ControlInv, Gens, SessionAssumption
<1>1. UNCHANGED readTask
  BY DEF LoopStep, LoopReads, LoopWakes, LoopHandles, EofReaped, EofClears, EofEmits, loopOnly
<1>2. CASE LoopReads(l)
  <2>1. CASE proc = 0
    BY <1>1, <1>2, <2>1, CrashTyped DEF LoopReads, StdoutTyped
  <2>2. CASE proc # 0 /\ Take(l, proc)
    BY <1>0, <1>1, <2>2, TakeTyped
  <2>3. CASE proc # 0 /\ EndOfStream(l, proc)
    BY <1>0, <1>1, <2>3, EndOfStreamTyped DEF EndOfStream, StdoutTyped
  <2>4. CASE proc # 0 /\ MoveLoop(l, LoopAt("wait", proc, NoMsg)) /\ UNCHANGED stdout
    <3>1. LoopAt("wait", proc, NoMsg) \in LoopPos /\ LoopAt("wait", proc, NoMsg).on \in Gens
      BY <1>0, <2>4, Positions DEF LoopAt
    <3> QED
      BY <1>1, <2>4, <3>1, MoveLoopTyped DEF StdoutTyped
  <2>5. CASE Crash(l) /\ UNCHANGED stdout
    BY <1>1, <2>5, CrashTyped DEF StdoutTyped
  <2> QED
    BY <1>2, <2>1, <2>2, <2>3, <2>4, <2>5 DEF LoopReads
<1>3. CASE LoopWakes(l)
  <2>1. loop[l].on \in Gens
    BY <1>3 DEF LoopWakes, LoopsOnWorkers
  <2>2. CASE Take(l, loop[l].on)
    BY <1>1, <2>1, <2>2, TakeTyped
  <2>3. CASE EndOfStream(l, loop[l].on)
    BY <1>0, <1>1, <2>1, <2>3, EndOfStreamTyped DEF EndOfStream, StdoutTyped
  <2> QED
    BY <1>3, <2>2, <2>3 DEF LoopWakes
<1>4. CASE LoopHandles(l) \/ EofReaped(l) \/ EofClears(l) \/ EofEmits(l)
  <2>1. UNCHANGED stdout
    BY <1>4 DEF LoopHandles, EofReaped, EofClears, EofEmits, workVars
  <2>2. CASE Crash(l)
    BY <1>1, <2>1, <2>2, CrashTyped DEF StdoutTyped
  <2>3. CASE \E pos \in {LoopAt("top", 0, NoMsg), LoopAt("eofErr", 0, NoMsg),
                          LoopAt("eofEmit", 0, NoMsg), Ended} : MoveLoop(l, pos)
    <3>1. PICK pos \in {LoopAt("top", 0, NoMsg), LoopAt("eofErr", 0, NoMsg),
                          LoopAt("eofEmit", 0, NoMsg), Ended} : MoveLoop(l, pos)
      BY <2>3
    <3>2. pos \in LoopPos /\ pos.pc \notin {"wait", "eofWait"}
      BY <3>1, Positions DEF LoopAt
    <3> QED
      BY <1>1, <2>1, <3>1, <3>2, MoveLoopTyped DEF StdoutTyped
  <2> QED
    BY <1>4, <2>2, <2>3 DEF LoopHandles, EofReaped, EofClears, EofEmits
<1> QED
  BY <1>2, <1>3, <1>4 DEF LoopStep
LEMMA EnsureReaderTyped ==
  ASSUME LoopInv, proc \in Gens, EnsureReader, UNCHANGED stdout PROVE LoopInv'
<1>1. CASE UNCHANGED <<loop, readTask>>
  BY <1>1 DEF LoopInv, LoopTyped, LoopsOnWorkers, StdoutTyped
<1>2. CASE MoveLoop(proc, LoopAt("top", 0, NoMsg)) /\ readTask' = proc
  BY <1>2, Positions, MoveLoopTyped DEF LoopInv, StdoutTyped, Loops, LoopAt
<1> QED
  BY <1>1, <1>2 DEF EnsureReader, MoveLoop

LEMMA CallLoopInv ==
  ASSUME ControlInv, LoopInv, NEW t \in Tasks, CallStep(t) PROVE LoopInv'
<1>0. proc \in 0..MaxGen /\ (proc # 0 => proc \in Gens)
  BY SessionAssumption DEF ControlInv, Gens, SessionAssumption
<1>1. CASE UNCHANGED <<loop, readTask, stdout>>
  BY <1>1 DEF LoopInv, LoopTyped, LoopsOnWorkers, StdoutTyped
<1>2. CASE IsAlive /\ EnsureReader /\ UNCHANGED stdout
  BY <1>0, <1>2, EnsureReaderTyped DEF IsAlive
<1>3. CASE SpawnWorks(t)
  <2>1. gen + 1 \in Loops
    BY <1>3, SessionAssumption DEF SpawnWorks, ControlInv, Gens, Loops, SessionAssumption
  <2> QED
    BY <1>3, <2>1, Positions, MoveLoopTyped DEF SpawnWorks, MoveLoop, LoopInv, StdoutTyped, LoopAt
<1>4. CASE Reap(t)
  <2>1. CASE readTask = 0
    BY <1>1, <1>4, <2>1 DEF Reap
  <2>2. CASE readTask # 0
    BY <1>4, <2>2, Positions, MoveLoopTyped DEF Reap, MoveLoop, LoopInv, StdoutTyped
  <2> QED
    BY <2>1, <2>2
<1>5. CASE StopReturns(t)
  BY <1>5 DEF StopReturns, LoopInv, LoopTyped, LoopsOnWorkers, StdoutTyped, workVars
<1> QED
  BY <1>1, <1>2, <1>3, <1>4, <1>5 DEF CallStep, Start, SendControl, SendPrompt, GateRefuses, GatePasses,
    SpawnFails, Started, StartedSend, WritePrompt, DrainReturns, DrainRaises, RestartSkipped, RestartBegins,
    StopBegins, Terminate, procVars, workVars

-----------------------------------------------------------------------------
(* The pipes to the workers, and the workers.                              *)

StdinTyped == stdin \in [Gens -> Seq(InMsg)]
WorkTyped == turn \in [Gens -> Prompts \cup {None}] /\ asks \in [Gens -> SUBSET Requests]
PipeInv == StdinTyped /\ WorkTyped

LEMMA PipeInvInit == Init => PipeInv
BY DEF Init, PipeInv, StdinTyped, WorkTyped

LEMMA DeliverTyped ==
  ASSUME StdinTyped, NEW g \in Gens, NEW m \in InMsg, Deliver(g, m) PROVE StdinTyped'
<1>1. stdin[g] \in Seq(InMsg) /\ Append(stdin[g], m) \in Seq(InMsg)
  BY DEF StdinTyped
<1> QED
  BY <1>1 DEF Deliver, StdinTyped

LEMMA KillTyped ==
  ASSUME PipeInv, NEW g \in Gens, Kill(g) PROVE PipeInv'
BY DEF Kill, PipeInv, StdinTyped, WorkTyped

LEMMA CallPipeInv ==
  ASSUME ControlInv, InitInv, PipeInv, NEW t \in Tasks, CallStep(t) PROVE PipeInv'
<1>0. proc \in 0..MaxGen /\ (proc # 0 => proc \in Gens)
  BY SessionAssumption DEF ControlInv, Gens, SessionAssumption
<1>1. CASE UNCHANGED <<stdin, turn, asks>>
  BY <1>1 DEF PipeInv, StdinTyped, WorkTyped
<1>2. CASE call[t].msg \in InMsg /\ proc # 0 /\ Deliver(proc, call[t].msg) /\ UNCHANGED <<turn, asks>>
  BY <1>0, <1>2, DeliverTyped DEF PipeInv, WorkTyped
<1>3. CASE SendControl(t) \/ GatePasses(t) \/ StartedSend(t) \/ WritePrompt(t)
  <2>1. UNCHANGED <<turn, asks>>
    BY <1>3 DEF SendControl, GatePasses, StartedSend, WritePrompt, procVars, workVars
  <2>2. UNCHANGED stdin \/ (proc # 0 /\ Deliver(proc, call[t].msg))
    BY <1>3 DEF SendControl, GatePasses, StartedSend, WritePrompt, PromptBody, Forward, IsAlive,
      ControlInv, HasWorker
  <2>3. Deliver(proc, call[t].msg) /\ UNCHANGED <<turn, asks>> => call[t].msg \in InMsg
    BY <1>3 DEF SendControl, GatePasses, StartedSend, WritePrompt, ControlInv, CallOK, PromptHeld, Calls, NoMsg
  <2> QED
    BY <1>1, <1>2, <2>1, <2>2, <2>3
<1>4. CASE SpawnWorks(t)
  <2>1. gen + 1 \in Gens
    BY <1>4, SessionAssumption DEF SpawnWorks, ControlInv, Gens, SessionAssumption
  <2>2. Replays => <<[kind |-> "init", id |-> cachedInit]>> \in Seq(InMsg)
    BY DEF Replays, InitInv, InitTyped, InMsg
  <2>3. UNCHANGED <<turn, asks>>
    BY <1>4 DEF SpawnWorks
  <2>4. UNCHANGED stdin \/ \E q \in Seq(InMsg) : stdin' = [stdin EXCEPT ![gen + 1] = q]
    <3>1. <<>> \in Seq(InMsg)
      OBVIOUS
    <3> QED
      BY <1>4, <2>2, <3>1, Zenon DEF SpawnWorks
  <2> QED
    BY <2>1, <2>3, <2>4 DEF PipeInv, StdinTyped, WorkTyped
<1>5. CASE Reap(t)
  BY <1>0, <1>1, <1>5, KillTyped DEF Reap
<1> QED
  BY <1>1, <1>3, <1>4, <1>5 DEF CallStep, Start, SendPrompt, GateRefuses, SpawnFails, Started,
    DrainReturns, DrainRaises, RestartSkipped, RestartBegins, StopBegins, Terminate, StopReturns, workVars

LEMMA WorkerPipeInv ==
  ASSUME PipeInv, LoopInv, NEW g \in Gens, WorkerStep(g) PROVE PipeInv' /\ LoopInv'
<1>1. UNCHANGED <<loop, readTask>>
  BY DEF WorkerStep, WorkerReads, WorkerAsks, TurnEnds, WorkerCloses, WorkerExits, workerOnly, procVars
<1>2. PipeInv' /\ StdoutTyped'
  <2> USE DEF PipeInv, LoopInv, StdoutTyped, StdinTyped, WorkTyped
  <2>1. stdout[g] \in Seq(OutMsg) /\ \A m \in OutMsg : Append(stdout[g], m) \in Seq(OutMsg)
    OBVIOUS
  <2>2. CASE WorkerReads(g)
    <3> DEFINE m == Head(stdin[g])
    <3>1. stdin[g] \in Seq(InMsg) /\ stdin[g] # <<>>
      BY <2>2 DEF WorkerReads
    <3>2. m \in InMsg /\ Tail(stdin[g]) \in Seq(InMsg)
      BY <3>1
    <3>3. /\ stdin' = [stdin EXCEPT ![g] = Tail(@)]
          /\ \/ UNCHANGED stdout
             \/ \E k \in {"initOk", "initErr"} :
                  m.kind = "init" /\ stdout' = [stdout EXCEPT ![g] = Append(@, [kind |-> k, id |-> m.id])]
             \/ m.kind = "prompt" /\ stdout' = [stdout EXCEPT ![g] = Append(@, [kind |-> "done", id |-> m.id])]
          /\ UNCHANGED turn \/ (m.kind = "prompt" /\ turn' = [turn EXCEPT ![g] = IF @ = None THEN m.id ELSE @])
          /\ UNCHANGED asks \/ asks' = [asks EXCEPT ![g] = @ \ {m.id}]
      BY <2>2 DEF WorkerReads
    <3>4. /\ m.kind = "init" => \A k \in {"initOk", "initErr"} : [kind |-> k, id |-> m.id] \in OutMsg
          /\ m.kind = "prompt" => m.id \in Prompts /\ [kind |-> "done", id |-> m.id] \in OutMsg
      BY <3>2 DEF InMsg, OutMsg
    <3>5. StdoutTyped'
      <4>1. UNCHANGED stdout \/ \E r \in OutMsg : stdout' = [stdout EXCEPT ![g] = Append(@, r)]
        BY <3>3, <3>4
      <4> QED
        BY <2>1, <4>1
    <3>6. StdinTyped'
      BY <3>2, <3>3
    <3>7. WorkTyped'
      BY <3>3, <3>4
    <3> QED
      BY <3>5, <3>6, <3>7
  <2>3. CASE WorkerAsks(g)
    BY <2>1, <2>3 DEF WorkerAsks, OutMsg
  <2>4. CASE TurnEnds(g)
    BY <2>1, <2>4 DEF TurnEnds, OutMsg
  <2>5. CASE WorkerCloses(g)
    BY <2>5 DEF WorkerCloses
  <2>6. CASE WorkerExits(g)
    BY <2>6, KillTyped DEF WorkerExits
  <2> QED
    BY <2>2, <2>3, <2>4, <2>5, <2>6 DEF WorkerStep
<1> QED
  BY <1>1, <1>2 DEF LoopInv, LoopTyped, LoopsOnWorkers

LEMMA OtherPipeInv ==
  ASSUME ControlInv, PipeInv, NEW l \in Loops, LoopStep(l) PROVE PipeInv'
<1>1. UNCHANGED <<stdin, turn, asks>> \/ (proc \in Gens /\ Kill(proc))
  BY SessionAssumption DEF LoopStep, LoopReads, LoopWakes, LoopHandles, EofReaped, EofClears, EofEmits, workVars,
    ControlInv, Gens, SessionAssumption
<1> QED
  BY <1>1, KillTyped DEF PipeInv, StdinTyped, WorkTyped
-----------------------------------------------------------------------------
(* The sets of ids, and the rest.                                          *)

IdsTyped ==
  /\ inFlight \subseteq Prompts /\ pendingReq \subseteq Requests /\ deduped \in Seq(Inits)
  /\ unsent \subseteq Ids /\ open \subseteq Requests
RestTyped ==
  /\ pc \in {"free", "gate", "spawn", "spawned", "write", "drain", "broken", "stop", "reap", "cancelled"}
  /\ status \in {"stopped", "idle", "busy", "restarting", "error"}
  /\ proc \in 0..gen
BooleansTyped == wasBusy \in BOOLEAN /\ expecting \in BOOLEAN /\ refused \in BOOLEAN
RestInv == IdsTyped /\ RestTyped /\ BooleansTyped

LEMMA RestInvInit == Init => RestInv
<1> SUFFICES ASSUME Init PROVE RestInv
  OBVIOUS
<1>1. IdsTyped /\ RestTyped
  BY DEF Init, IdsTyped, RestTyped
<1>2. BooleansTyped
  BY Zenon DEF Init, BooleansTyped
<1> QED
  BY <1>1, <1>2 DEF RestInv

LEMMA ClientRest ==
  ASSUME ControlInv, RestInv, NEW c \in Clients, ClientStep(c) PROVE RestInv'
BY DEF ClientStep, StreamConnect, StreamPrompt, StreamOther, TokenRefresh, procVars, initVars,
  RestInv, IdsTyped, RestTyped, BooleansTyped

LEMMA CallIds ==
  ASSUME ControlInv, IdsTyped, NEW t \in Tasks, CallStep(t) PROVE IdsTyped'
<1>1. UNCHANGED <<unsent, open>>
  BY DEF CallStep, Start, SendControl, SendPrompt, GateRefuses, GatePasses, SpawnFails, SpawnWorks, Started,
    StartedSend, WritePrompt, DrainReturns, DrainRaises, RestartSkipped, RestartBegins, StopBegins,
    Terminate, Reap, StopReturns
<1>2. pendingReq' \subseteq pendingReq
  BY DEF CallStep, BeginSpawn, Start, SendControl, SendPrompt, GateRefuses, GatePasses, SpawnFails, SpawnWorks,
    Started, StartedSend, WritePrompt, DrainReturns, DrainRaises, RestartSkipped, RestartBegins, StopBegins,
    Terminate, Reap, StopReturns
<1>3. inFlight' \subseteq inFlight \cup Prompts
  <2>1. GatePasses(t) \/ (StartedSend(t) /\ call[t].msg.kind = "prompt") => call[t].msg.id \in Prompts
    BY DEF GatePasses, StartedSend, ControlInv, CallOK, PromptHeld, Calls, InMsg, NoMsg
  <2> QED
    BY <2>1 DEF CallStep, BeginSpawn, PromptBody, Start, SendControl, SendPrompt, GateRefuses, GatePasses,
      SpawnFails, SpawnWorks, Started, StartedSend, WritePrompt, DrainReturns, DrainRaises, RestartSkipped,
      RestartBegins, StopBegins, Terminate, Reap, StopReturns
<1>4. deduped' \in Seq(Inits)
  <2>0. deduped \in Seq(Inits) /\ <<>> \in Seq(Inits)
    BY DEF IdsTyped
  <2>1. CASE UNCHANGED deduped \/ deduped' = <<>>
    BY <2>0, <2>1
  <2>2. CASE (SendControl(t) \/ StartedSend(t)) /\ Forward(call[t].msg) /\ call[t].msg.kind = "init"
    <3>1. call[t].msg.id \in Inits
      BY <2>2 DEF SendControl, StartedSend, ControlInv, CallOK, Calls, InMsg, NoMsg
    <3>2. UNCHANGED deduped \/ deduped' = Append(deduped, call[t].msg.id)
      BY <2>2 DEF Forward
    <3> QED
      BY <3>1, <3>2 DEF IdsTyped
  <2> QED
    BY <2>1, <2>2 DEF CallStep, Forward, Start, SendControl, SendPrompt, GateRefuses, GatePasses, SpawnFails,
      SpawnWorks, Started, StartedSend, WritePrompt, DrainReturns, DrainRaises, RestartSkipped, RestartBegins,
      StopBegins, Terminate, Reap, StopReturns, initVars
<1> QED
  BY <1>1, <1>2, <1>3, <1>4 DEF IdsTyped

LEMMA CallRest ==
  ASSUME ControlInv, RestTyped, BooleansTyped, NEW t \in Tasks, CallStep(t)
  PROVE  RestTyped' /\ BooleansTyped'
<1>1. pc' \in {"free", "gate", "spawn", "spawned", "write", "drain", "broken", "stop", "reap", "cancelled"}
  BY DEF RestTyped, CallStep, Enter, Leave, Abort, BeginSpawn, PromptBody, Drain, Start, SendControl, SendPrompt,
    GateRefuses, GatePasses, SpawnFails, SpawnWorks, Started, StartedSend, WritePrompt, DrainReturns,
    DrainRaises, RestartSkipped, RestartBegins, StopBegins, Terminate, Reap, StopReturns
<1>2. status' \in {"stopped", "idle", "busy", "restarting", "error"}
  BY DEF RestTyped, CallStep, PromptBody, Start, SendControl, SendPrompt, GateRefuses, GatePasses, SpawnFails,
    SpawnWorks, Started, StartedSend, WritePrompt, DrainReturns, DrainRaises, RestartSkipped, RestartBegins,
    StopBegins, Terminate, Reap, StopReturns
<1>3. proc' \in 0..gen'
  <2>1. \/ UNCHANGED <<proc, gen>>
        \/ proc' = 0 /\ gen' = gen
        \/ proc' = gen + 1 /\ gen' = gen + 1
    BY DEF CallStep, Start, SendControl, SendPrompt, GateRefuses, GatePasses, SpawnFails, SpawnWorks, Started,
      StartedSend, WritePrompt, DrainReturns, DrainRaises, RestartSkipped, RestartBegins, StopBegins,
      Terminate, Reap, StopReturns, procVars
  <2> QED
    BY <2>1, SessionAssumption DEF RestTyped, ControlInv, SessionAssumption
<1>4. UNCHANGED wasBusy \/ wasBusy' = IsBusy
  BY DEF CallStep, PromptBody, Start, SendControl, SendPrompt, GateRefuses, GatePasses, SpawnFails,
    SpawnWorks, Started, StartedSend, WritePrompt, DrainReturns, DrainRaises, RestartSkipped, RestartBegins,
    StopBegins, Terminate, Reap, StopReturns
<1>5. UNCHANGED expecting \/ expecting' = TRUE \/ expecting' = FALSE
  BY DEF CallStep, BeginSpawn, Start, SendControl, SendPrompt, GateRefuses, GatePasses, SpawnFails,
    SpawnWorks, Started, StartedSend, WritePrompt, DrainReturns, DrainRaises, RestartSkipped, RestartBegins,
    StopBegins, Terminate, Reap, StopReturns, procVars
<1>7. UNCHANGED refused \/ refused' = FALSE
  BY DEF CallStep, Start, SendControl, SendPrompt, GateRefuses, GatePasses, SpawnFails,
    SpawnWorks, Started, StartedSend, WritePrompt, DrainReturns, DrainRaises, RestartSkipped, RestartBegins,
    StopBegins, Terminate, Reap, StopReturns, initVars
<1>6. BooleansTyped'
  BY <1>4, <1>5, <1>7, Zenon DEF BooleansTyped, IsBusy
<1> QED
  BY <1>1, <1>2, <1>3, <1>6 DEF RestTyped

LEMMA LoopRest ==
  ASSUME ControlInv, LoopInv, RestInv, NEW l \in Loops, LoopStep(l) PROVE RestInv'
<1>1. UNCHANGED <<pc, proc, gen, wasBusy, expecting, unsent>>
  BY DEF LoopStep, LoopReads, LoopWakes, LoopHandles, EofReaped, EofClears, EofEmits, loopOnly, lockVars
<1>2. status' \in {"stopped", "idle", "busy", "restarting", "error"} /\ inFlight' \subseteq inFlight
  BY DEF LoopStep, LoopReads, LoopWakes, LoopHandles, EofReaped, EofClears, EofEmits, Crash, Take, EndOfStream,
    HandleDone, HandleInitOk, HandleRequest, RestInv, RestTyped
<1>3. deduped' \in Seq(Inits)
  <2>1. deduped \in Seq(Inits) /\ <<>> \in Seq(Inits)
    BY DEF RestInv, IdsTyped
  <2>2. UNCHANGED deduped \/ deduped' = <<>>
    BY DEF LoopStep, LoopReads, LoopWakes, LoopHandles, EofReaped, EofClears, EofEmits, HandleDone,
      HandleInitOk, HandleRequest, initVars
  <2> QED
    BY <2>1, <2>2
<1>4. pendingReq' \subseteq pendingReq \cup Requests
  <2>1. loop[l].msg.kind = "request" => loop[l].msg.id \in Requests
    BY DEF LoopInv, LoopTyped, LoopPos, OutMsg, NoMsg
  <2> QED
    BY <2>1 DEF LoopStep, LoopReads, LoopWakes, LoopHandles, EofReaped, EofClears, EofEmits, HandleDone,
      HandleInitOk, HandleRequest
<1>5. open' \subseteq open \cup Requests
  <2>1. ASSUME NEW g \in Gens, Take(l, g) PROVE open' \subseteq open \cup Requests
    <3>1. Head(stdout[g]) \in OutMsg
      BY <2>1, TakeTyped
    <3> QED
      BY <2>1, <3>1 DEF Take, OutMsg
  <2>2. proc # 0 => proc \in Gens
    BY SessionAssumption DEF ControlInv, Gens, SessionAssumption
  <2>3. loop[l].pc = "wait" => loop[l].on \in Gens
    BY DEF LoopInv, LoopsOnWorkers
  <2>4. CASE UNCHANGED open
    BY <2>4
  <2> QED
    BY <2>1, <2>2, <2>3, <2>4 DEF LoopStep, LoopReads, LoopWakes, LoopHandles, EofReaped, EofClears, EofEmits, EndOfStream
<1>6. IdsTyped'
  BY <1>1, <1>2, <1>3, <1>4, <1>5 DEF RestInv, IdsTyped
<1>7. RestTyped'
  BY <1>1, <1>2 DEF RestInv, RestTyped
<1>8. refused' \in BOOLEAN
  <2>1. UNCHANGED refused \/ refused' = (refused \/ (loop[l].msg.kind = "initErr" /\ loop[l].msg.id = pendingInit
                                                      /\ loop[l].on = proc))
    BY DEF LoopStep, LoopReads, LoopWakes, LoopHandles, EofReaped, EofClears, EofEmits, initVars
  <2> QED
    BY <2>1, Zenon DEF RestInv, BooleansTyped
<1>9. BooleansTyped'
  BY <1>1, <1>8, Zenon DEF RestInv, BooleansTyped
<1> QED
  BY <1>6, <1>7, <1>9 DEF RestInv

LEMMA WorkerRest ==
  ASSUME RestInv, NEW g \in Gens, WorkerStep(g) PROVE RestInv'
<1>1. unsent' \subseteq unsent
  BY DEF WorkerStep, WorkerReads, WorkerAsks, TurnEnds, WorkerCloses, WorkerExits
<1>2. UNCHANGED <<pc, status, proc, gen, wasBusy, expecting, inFlight, pendingReq, deduped, refused, open>>
  BY DEF WorkerStep, WorkerReads, WorkerAsks, TurnEnds, WorkerCloses, WorkerExits, workerOnly, lockVars,
    procVars, initVars
<1> QED
  BY <1>1, <1>2 DEF RestInv, IdsTyped, RestTyped, BooleansTyped

-----------------------------------------------------------------------------
IInv == ControlInv /\ InitInv /\ LoopInv /\ PipeInv /\ RestInv

LEMMA IInvInit == Init => IInv
BY ControlInit, InitInit, LoopInvInit, PipeInvInit, RestInvInit DEF IInv

LEMMA IInvStep == IInv /\ [Next]_vars => IInv'
<1> SUFFICES ASSUME IInv, [Next]_vars PROVE LoopInv' /\ PipeInv' /\ RestInv'
  BY ControlStep, InitStep DEF IInv
<1> USE DEF IInv
<1>1. CASE AdminCall \/ UNCHANGED vars
  BY <1>1 DEF AdminCall, vars, lockVars, procVars, initVars, workVars, LoopInv, LoopTyped, LoopsOnWorkers, StdoutTyped,
    PipeInv, StdinTyped, WorkTyped, RestInv, IdsTyped, RestTyped, BooleansTyped
<1>2. ASSUME NEW c \in Clients, ClientStep(c) PROVE LoopInv' /\ PipeInv' /\ RestInv'
  <2>1. UNCHANGED <<loop, readTask, stdin, stdout, turn, asks>>
    BY <1>2 DEF ClientStep, StreamConnect, StreamPrompt, StreamOther, TokenRefresh, procVars, workVars
  <2> QED
    BY <1>2, <2>1, ClientRest DEF LoopInv, LoopTyped, LoopsOnWorkers, StdoutTyped, PipeInv, StdinTyped, WorkTyped
<1>3. ASSUME NEW t \in Tasks, CallStep(t) PROVE LoopInv' /\ PipeInv' /\ RestInv'
  BY <1>3, CallLoopInv, CallPipeInv, CallIds, CallRest DEF RestInv
<1>4. ASSUME NEW l \in Loops, LoopStep(l) PROVE LoopInv' /\ PipeInv' /\ RestInv'
  BY <1>4, LoopLoopInv, OtherPipeInv, LoopRest
<1>5. ASSUME NEW g \in Gens, WorkerStep(g) PROVE LoopInv' /\ PipeInv' /\ RestInv'
  BY <1>5, WorkerPipeInv, WorkerRest
<1> QED
  BY <1>1, <1>2, <1>3, <1>4, <1>5 DEF Next

\* Every variable has its type in every reachable state.
THEOREM TypeCorrect == Spec => []TypeOK
<1>1. IInv => TypeOK
  <2> SUFFICES ASSUME IInv PROVE TypeOK
    OBVIOUS
  <2> QED
    BY DEF IInv, ControlInv, CallOK, InitInv, InitTyped, FlagsTyped, LoopInv, LoopTyped, LoopPos, StdoutTyped,
      PipeInv, StdinTyped, WorkTyped, RestInv, IdsTyped, RestTyped, BooleansTyped, TypeOK
<1> QED
  BY <1>1, IInvInit, IInvStep, PTL DEF Spec

-----------------------------------------------------------------------------
(* The read loop of the current worker is the one in _read_task, so a loop *)
(* is started only over one that has ended; and a loop at the end of its   *)
(* own worker's stream is not there while that worker runs.                *)

ReaderIsWorkers == (proc # 0 => readTask = proc) /\ (pc = "cancelled" => proc = 0)
EofIsOver == proc # 0 /\ loop[proc].pc \in {"eofWait", "eofErr"} => wst[proc] # "running"
ReaderInv == ReaderIsWorkers /\ EofIsOver

LEMMA ReaderInvInit == Init => ReaderInv
BY DEF Init, ReaderInv, ReaderIsWorkers, EofIsOver

LEMMA CallReader ==
  ASSUME IInv, ReaderInv, NEW t \in Tasks, CallStep(t) PROVE ReaderInv'
<1> USE DEF ReaderInv, ReaderIsWorkers, EofIsOver
<1>0. (proc # 0 => proc \in Loops) /\ (gen < MaxGen => gen + 1 \in Loops) /\ loop \in [Loops -> LoopPos]
  BY SessionAssumption DEF IInv, ControlInv, LoopInv, LoopTyped, Gens, Loops, SessionAssumption
<1>1. CASE UNCHANGED <<proc, readTask, loop, wst>> /\ (UNCHANGED pc \/ pc' # "cancelled")
  BY <1>1
<1>2. CASE EnsureReader /\ proc # 0 /\ UNCHANGED <<proc, wst>> /\ (UNCHANGED pc \/ pc' # "cancelled")
  BY <1>0, <1>2 DEF EnsureReader, LoopAt
<1>3. CASE SpawnWorks(t)
  <2>1. loop'[gen + 1] = LoopAt("top", 0, NoMsg)
    BY <1>0, <1>3 DEF SpawnWorks
  <2> QED
    BY <1>3, <2>1 DEF SpawnWorks, Abort, LoopAt
<1>4. CASE Reap(t)
  BY <1>4 DEF Reap
<1>5. CASE StopReturns(t)
  BY <1>5 DEF StopReturns
<1>6. CASE Start(t) \/ SendControl(t) \/ GatePasses(t)
  <2>1. UNCHANGED pc \/ pc' # "cancelled"
    BY <1>6 DEF Start, SendControl, GatePasses, BeginSpawn, PromptBody, Drain
  <2>2. UNCHANGED <<proc, wst>>
    BY <1>6 DEF Start, SendControl, GatePasses, procVars, workVars
  <2>3. (EnsureReader /\ proc # 0) \/ UNCHANGED <<readTask, loop>>
    BY <1>6 DEF Start, SendControl, GatePasses, IsAlive
  <2> QED
    BY <1>1, <1>2, <2>1, <2>2, <2>3
<1>7. CASE StartedSend(t)
  <2>1. UNCHANGED pc \/ pc' # "cancelled"
    BY <1>7 DEF StartedSend, Leave, PromptBody, Drain
  <2> QED
    BY <1>1, <1>7, <2>1 DEF StartedSend, procVars
<1> QED
  BY <1>1, <1>3, <1>4, <1>5, <1>6, <1>7 DEF CallStep, SendPrompt, GateRefuses, SpawnFails, Started,
    WritePrompt, DrainReturns, DrainRaises, RestartSkipped, RestartBegins, StopBegins, Terminate,
    Enter, Leave, Abort, Drain, procVars, workVars

LEMMA LoopReader ==
  ASSUME IInv, ReaderInv, NEW l \in Loops, LoopStep(l) PROVE ReaderInv'
<1> USE DEF ReaderInv, ReaderIsWorkers, EofIsOver
<1>0. (proc # 0 => proc \in Loops) /\ loop \in [Loops -> LoopPos] /\ wst \in [Gens -> {"unborn", "running", "closing", "dead"}]
  BY SessionAssumption DEF IInv, ControlInv, LoopInv, LoopTyped, InitInv, InitTyped, Gens, Loops, SessionAssumption
<1>1. UNCHANGED <<pc, proc, readTask>>
  BY DEF LoopStep, LoopReads, LoopWakes, LoopHandles, EofReaped, EofClears, EofEmits, loopOnly, lockVars
<1>2. proc # 0 /\ wst'[proc] = "running" => wst[proc] = "running"
  BY <1>0 DEF LoopStep, LoopReads, LoopWakes, LoopHandles, EofReaped, EofClears, EofEmits, Kill, workVars, Gens, Loops
<1>3. \/ \E pos : MoveLoop(l, pos) /\ pos.pc \notin {"eofWait", "eofErr"}
      \/ MoveLoop(l, LoopAt("eofWait", proc, NoMsg)) /\ AtEof(proc)
      \/ MoveLoop(l, LoopAt("eofErr", 0, NoMsg)) /\ loop[l].pc = "eofWait"
  <2>1. \A p \in LoopPcs : LoopAt(p, 0, NoMsg).pc = p /\ Ended.pc = "done"
    BY DEF LoopAt, Ended
  <2>2. ASSUME NEW g, Take(l, g) PROVE \E pos : MoveLoop(l, pos) /\ pos.pc \notin {"eofWait", "eofErr"}
    <3>1. LoopAt("handle", g, Head(stdout[g])).pc = "handle"
      BY DEF LoopAt
    <3> QED
      BY <2>2, <3>1 DEF Take
  <2>3. LoopAt("wait", proc, NoMsg).pc = "wait"
    BY DEF LoopAt
  <2> QED
    BY <2>1, <2>2, <2>3 DEF LoopStep, LoopReads, LoopWakes, LoopHandles, EofReaped, EofClears, EofEmits,
      EndOfStream, Crash, LoopPcs
<1>4. proc # 0 /\ loop'[proc].pc \in {"eofWait", "eofErr"} =>
        loop[proc].pc \in {"eofWait", "eofErr"} \/ AtEof(proc)
  BY <1>0, <1>3 DEF MoveLoop
<1> QED
  BY <1>1, <1>2, <1>4 DEF AtEof

LEMMA WorkerReader ==
  ASSUME IInv, ReaderInv, NEW g \in Gens, WorkerStep(g) PROVE ReaderInv'
<1>1. UNCHANGED <<pc, proc, readTask, loop>>
  BY DEF WorkerStep, WorkerReads, WorkerAsks, TurnEnds, WorkerCloses, WorkerExits, workerOnly, lockVars, procVars
<1>0. (proc # 0 => proc \in Gens) /\ wst \in [Gens -> {"unborn", "running", "closing", "dead"}]
  BY SessionAssumption DEF IInv, ControlInv, InitInv, InitTyped, Gens, SessionAssumption
<1>2. proc # 0 /\ wst'[proc] = "running" => wst[proc] = "running"
  BY <1>0 DEF WorkerStep, WorkerReads, WorkerAsks, TurnEnds, WorkerCloses, WorkerExits, Kill, workerOnly
<1> QED
  BY <1>1, <1>2 DEF ReaderInv, ReaderIsWorkers, EofIsOver

LEMMA ReaderStep == IInv /\ ReaderInv /\ [Next]_vars => ReaderInv'
<1> SUFFICES ASSUME IInv, ReaderInv, [Next]_vars PROVE ReaderInv'
  OBVIOUS
<1>1. CASE AdminCall \/ (\E c \in Clients : ClientStep(c)) \/ UNCHANGED vars
  <2>1. UNCHANGED <<pc, proc, readTask, loop, wst>>
    BY <1>1 DEF AdminCall, ClientStep, StreamConnect, StreamPrompt, StreamOther, TokenRefresh, vars, lockVars,
      procVars, workVars
  <2> QED
    BY <2>1 DEF ReaderInv, ReaderIsWorkers, EofIsOver
<1> QED
  BY <1>1, CallReader, LoopReader, WorkerReader DEF Next

-----------------------------------------------------------------------------
(* Who owns a prompt in flight.                                            *)

Has(s, m) == \E i \in DOMAIN s : s[i] = m
PromptMsg(p) == [kind |-> "prompt", id |-> p]
DoneMsg(p) == [kind |-> "done", id |-> p]

LEMMA HasAppended ==
  ASSUME NEW S, NEW s \in Seq(S), NEW m \in S
  PROVE  Has(Append(s, m), m) /\ \A x : Has(s, x) => Has(Append(s, m), x)
<1>1. Append(s, m)[Len(s) + 1] = m /\ Len(s) + 1 \in DOMAIN Append(s, m)
  OBVIOUS
<1>2. \A i \in DOMAIN s : i \in DOMAIN Append(s, m) /\ Append(s, m)[i] = s[i]
  OBVIOUS
<1> QED
  BY <1>1, <1>2 DEF Has

LEMMA HasInTail ==
  ASSUME NEW S, NEW s \in Seq(S), s # <<>>, NEW x, Has(s, x), Head(s) # x
  PROVE  Has(Tail(s), x)
<1>1. PICK i \in DOMAIN s : s[i] = x
  BY DEF Has
<1>2. i # 1 /\ i \in 1..Len(s)
  BY <1>1
<1>3. i - 1 \in DOMAIN Tail(s) /\ Tail(s)[i - 1] = x
  BY <1>1, <1>2
<1> QED
  BY <1>3 DEF Has

\* Still to be read, being run, answered without the answer being read, or
\* without its being handled.
Owed(p) ==
  \/ Has(stdin[proc], PromptMsg(p)) \/ turn[proc] = p \/ Has(stdout[proc], DoneMsg(p))
  \/ \E l \in Loops : loop[l].pc = "handle" /\ loop[l].msg = DoneMsg(p)
BeingWritten(p) == pc = "write" /\ holder # None /\ call[holder].msg.id = p
Owned == Running => \A p \in inFlight : BeingWritten(p) \/ Owed(p)

LEMMA OwnedInit == Init => Owned
BY DEF Init, Owned, Running

\* What no step touches stays owned.
LEMMA OwnedFrame ==
  ASSUME Owned, UNCHANGED <<proc, wst, stdin, turn, stdout>>, inFlight' \subseteq inFlight,
         \A p \in inFlight' : BeingWritten(p) => BeingWritten(p)',
         \A p \in inFlight', l \in Loops : loop[l].pc = "handle" /\ loop[l].msg = DoneMsg(p)
           => loop'[l].pc = "handle" /\ loop'[l].msg = DoneMsg(p)
  PROVE  Owned'
BY DEF Owned, Running, Owed

\* A read loop is started only over one that has ended.
LEMMA EnsureReaderOwned ==
  ASSUME IInv, ReaderInv, proc # 0, EnsureReader, NEW l \in Loops, loop[l].pc = "handle"
  PROVE  loop'[l] = loop[l]
<1>1. proc \in Loops /\ loop \in [Loops -> LoopPos] /\ readTask = proc
  BY SessionAssumption DEF IInv, ControlInv, LoopInv, LoopTyped, Gens, Loops, SessionAssumption, ReaderInv,
    ReaderIsWorkers
<1> QED
  BY <1>1 DEF EnsureReader, ReaderGone, Loops

\* A prompt written to the running worker waits in its stdin.
LEMMA DeliverOwed ==
  ASSUME StdinTyped, Running, proc \in Gens, NEW m \in InMsg, Deliver(proc, m)
  PROVE  /\ m.kind = "prompt" => Has(stdin'[proc], PromptMsg(m.id))
         /\ \A p : Has(stdin[proc], PromptMsg(p)) => Has(stdin'[proc], PromptMsg(p))
<1>1. stdin[proc] \in Seq(InMsg) /\ stdin'[proc] = Append(stdin[proc], m)
  BY DEF StdinTyped, Running, Deliver
<1>2. m.kind = "prompt" => m = PromptMsg(m.id)
  BY DEF InMsg, PromptMsg
<1> QED
  BY <1>1, <1>2, HasAppended

LEMMA PromptOwned ==
  ASSUME IInv, ReaderInv, Owned, NEW m \in InMsg, m.kind = "prompt", holder # None, call[holder].msg = m,
         PromptBody(m), UNCHANGED <<proc, wst, turn, stdout, holder, call>>, pc # "write",
         \A l \in Loops : loop[l].pc = "handle" => loop'[l] = loop[l]
  PROVE  Owned'
<1> SUFFICES ASSUME Running PROVE \A p \in inFlight' : BeingWritten(p)' \/ Owed(p)'
  BY DEF Owned, Running
<1>0. proc \in Gens /\ StdinTyped
  BY SessionAssumption DEF Running, IInv, ControlInv, PipeInv, Gens, SessionAssumption
<1>1. CASE inFlight = {}
  BY <1>1 DEF PromptBody, IsBusy, BeingWritten
<1>2. CASE inFlight # {}
  <2>1. Deliver(proc, m)
    BY <1>2 DEF PromptBody, IsBusy
  <2>2. \A p \in inFlight : Owed(p)
    BY DEF Owned, BeingWritten
  <2>3. \A p \in inFlight : Owed(p)'
    BY <1>0, <2>1, <2>2, DeliverOwed DEF Owed
  <2>4. Owed(m.id)'
    BY <1>0, <2>1, DeliverOwed DEF Owed
  <2> QED
    BY <2>3, <2>4 DEF PromptBody
<1> QED
  BY <1>1, <1>2

LEMMA ForwardOwned ==
  ASSUME IInv, ReaderInv, Owned, proc # 0, NEW m \in InMsg, Forward(m),
         UNCHANGED <<proc, wst, turn, stdout, inFlight>>, pc # "write",
         \A l \in Loops : loop[l].pc = "handle" => loop'[l] = loop[l]
  PROVE  Owned'
<1> SUFFICES ASSUME Running PROVE \A p \in inFlight : Owed(p)'
  BY DEF Owned, Running
<1>0. proc \in Gens /\ StdinTyped
  BY SessionAssumption DEF Running, IInv, ControlInv, PipeInv, Gens, SessionAssumption
<1>1. \A p \in inFlight : Owed(p)
  BY DEF Owned, BeingWritten
<1>2. Deliver(proc, m) \/ UNCHANGED stdin
  BY DEF Forward
<1> QED
  BY <1>0, <1>1, <1>2, DeliverOwed DEF Owed

LEMMA CallOwned ==
  ASSUME IInv, StatusInv, ReaderInv, Owned, NEW t \in Tasks, CallStep(t) PROVE Owned'
<1>0. (proc # 0 => proc \in Gens) /\ StdinTyped /\ call \in [Tasks -> Calls] /\ holder \in Tasks \cup {None}
  BY SessionAssumption DEF IInv, ControlInv, CallOK, PipeInv, Gens, SessionAssumption
<1>1. CASE UNCHANGED <<proc, wst, stdin, turn, stdout, loop>> /\ inFlight' \subseteq inFlight /\ pc # "write"
  BY <1>1, OwnedFrame DEF BeingWritten
<1>2. CASE Start(t)
  <2>1. UNCHANGED <<proc, wst, stdin, turn, stdout>> /\ inFlight' \subseteq inFlight
    BY <1>2 DEF Start, BeginSpawn, workVars
  <2>2. CASE IsAlive
    BY <1>2, <2>1, <2>2, EnsureReaderOwned, OwnedFrame DEF Start, IsAlive, BeingWritten
  <2>3. CASE ~IsAlive
    BY <1>2, <2>3 DEF Start, BeginSpawn, Owned
  <2> QED
    BY <2>2, <2>3
<1>3. CASE SendControl(t)
  <2>1. CASE IsAlive
    <3>1. call[t].msg \in InMsg
      BY <1>0, <1>3 DEF SendControl, Calls
    <3>2. CASE pc # "write"
      BY <1>3, <2>1, <3>1, <3>2, EnsureReaderOwned, ForwardOwned DEF SendControl, IsAlive
    <3> QED
      BY <1>3, <3>2 DEF SendControl, IInv, ControlInv, PromptHeld
  <2>2. CASE ~IsAlive
    BY <1>3, <2>2 DEF SendControl, BeginSpawn, Owned
  <2> QED
    BY <2>1, <2>2
<1>4. CASE GatePasses(t)
  <2>1. CASE IsAlive
    <3>1. call[t].msg \in InMsg /\ call[t].msg.kind = "prompt" /\ holder # None /\ pc # "write"
      BY <1>0, <1>4, SessionAssumption DEF GatePasses, IInv, ControlInv, PromptHeld, Calls, NoMsg, SessionAssumption
    <3> QED
      BY <1>4, <2>1, <3>1, EnsureReaderOwned, PromptOwned DEF GatePasses, IsAlive, lockVars, procVars, workVars
  <2>2. CASE ~IsAlive
    BY <1>4, <2>2 DEF GatePasses, BeginSpawn, Owned
  <2> QED
    BY <2>1, <2>2
<1>5. CASE SpawnWorks(t)
  BY <1>5 DEF SpawnWorks, StatusInv, SpawnsIdle, Owned
<1>6. CASE StartedSend(t)
  <2>1. call[t].msg \in InMsg /\ proc # 0 /\ pc # "write" /\ holder # None
    BY <1>0, <1>6, SessionAssumption DEF StartedSend, Calls, IInv, ControlInv, HasWorker, Tasks, SessionAssumption
  <2>2. CASE call[t].msg.kind = "prompt"
    BY <1>6, <2>1, <2>2, PromptOwned DEF StartedSend, procVars
  <2>3. CASE call[t].msg.kind # "prompt"
    BY <1>6, <2>1, <2>3, ForwardOwned DEF StartedSend, procVars
  <2> QED
    BY <2>2, <2>3
<1>7. CASE WritePrompt(t)
  <2>1. call[t].msg \in InMsg /\ call[t].msg.kind = "prompt" /\ proc \in Gens
    BY <1>0, <1>7 DEF WritePrompt, IInv, ControlInv, PromptHeld, HasWorker, Calls, NoMsg
  <2> SUFFICES ASSUME Running PROVE \A p \in inFlight : Owed(p)'
    BY <1>7 DEF WritePrompt, procVars, Owned, Running
  <2>2. ASSUME NEW p \in inFlight PROVE Owed(p)'
    <3>1. CASE Owed(p)
      BY <1>0, <1>7, <2>1, <3>1, DeliverOwed DEF WritePrompt, Owed, procVars
    <3>2. CASE BeingWritten(p)
      BY <1>0, <1>7, <2>1, <3>2, DeliverOwed DEF WritePrompt, BeingWritten, Owed, procVars
    <3> QED
      BY <3>1, <3>2 DEF Owned
  <2> QED
    BY <2>2
<1>8. CASE Reap(t)
  BY <1>8 DEF Reap, Owned, Running
<1>9. CASE RestartSkipped(t) \/ RestartBegins(t) \/ StopBegins(t) \/ SendPrompt(t)
  <2>1. pc # "write"
    BY <1>9 DEF RestartSkipped, RestartBegins, StopBegins, SendPrompt, IInv, ControlInv, PromptHeld
  <2> QED
    BY <1>1, <1>9, <2>1 DEF RestartSkipped, RestartBegins, StopBegins, SendPrompt, procVars, workVars
<1>10. CASE GateRefuses(t) \/ SpawnFails(t) \/ Started(t) \/ DrainReturns(t) \/ DrainRaises(t)
             \/ Terminate(t) \/ StopReturns(t)
  <2>1. pc # "write"
    BY <1>10 DEF GateRefuses, SpawnFails, Started, DrainReturns, DrainRaises, Terminate, StopReturns
  <2> QED
    BY <1>1, <1>10, <2>1 DEF GateRefuses, SpawnFails, Started, DrainReturns, DrainRaises, Terminate, StopReturns,
      BeginSpawn, procVars, workVars
<1> QED
  BY <1>2, <1>3, <1>4, <1>5, <1>6, <1>7, <1>8, <1>9, <1>10 DEF CallStep

\* What a loop takes from the stream goes on being handled.
LEMMA TakeOwned ==
  ASSUME IInv, Owned, NEW l \in Loops, NEW g \in Gens, Take(l, g), loop[l].pc # "handle",
         UNCHANGED <<lockVars, proc, wst, stdin, turn>>
  PROVE  Owned'
<1> SUFFICES ASSUME Running, NEW p \in inFlight, Owed(p) PROVE Owed(p)'
  BY DEF Owned, Running, Take, BeingWritten, lockVars
<1>0. /\ proc \in Gens /\ loop \in [Loops -> LoopPos] /\ stdout[g] \in Seq(OutMsg)
      /\ stdout \in [Gens -> Seq(OutMsg)]
  BY SessionAssumption DEF Running, IInv, ControlInv, LoopInv, LoopTyped, StdoutTyped, Gens, SessionAssumption
<1>1. loop'[l].pc = "handle" /\ loop'[l].msg = Head(stdout[g])
  BY <1>0 DEF Take, MoveLoop, LoopAt
<1>2. \A k \in Loops : k # l => loop'[k] = loop[k]
  BY <1>0 DEF Take, MoveLoop
<1>3. CASE Has(stdout[proc], DoneMsg(p))
  <2>1. CASE g = proc /\ Head(stdout[g]) = DoneMsg(p)
    BY <1>1, <2>1 DEF Owed
  <2>2. CASE g = proc /\ Head(stdout[g]) # DoneMsg(p)
    <3>1. Has(Tail(stdout[proc]), DoneMsg(p))
      BY <1>0, <1>3, <2>2, HasInTail DEF Take
    <3> QED
      BY <1>0, <2>2, <3>1 DEF Take, Owed
  <2>3. CASE g # proc
    BY <1>0, <1>3, <2>3 DEF Take, Owed
  <2> QED
    BY <2>1, <2>2, <2>3
<1>4. CASE ~Has(stdout[proc], DoneMsg(p))
  BY <1>2, <1>4 DEF Owed
<1> QED
  BY <1>3, <1>4

LEMMA LoopOwned ==
  ASSUME IInv, Owned, NEW l \in Loops, LoopStep(l) PROVE Owned'
<1>0. /\ (proc # 0 => proc \in Gens) /\ loop \in [Loops -> LoopPos]
      /\ (loop[l].pc = "wait" => loop[l].on \in Gens)
  BY SessionAssumption DEF IInv, ControlInv, LoopInv, LoopTyped, LoopsOnWorkers, Gens, SessionAssumption
<1>1. UNCHANGED <<lockVars, proc>>
  BY DEF LoopStep, LoopReads, LoopWakes, LoopHandles, EofReaped, EofClears, EofEmits, loopOnly
<1>2. ASSUME NEW g \in Gens, Take(l, g), LoopReads(l) \/ LoopWakes(l) PROVE Owned'
  BY <1>1, <1>2, TakeOwned DEF LoopReads, LoopWakes
<1>3. ASSUME NEW pos, MoveLoop(l, pos), UNCHANGED <<wst, stdin, turn, stdout>>, loop[l].pc # "handle",
             inFlight' \subseteq inFlight
      PROVE  Owned'
  BY <1>0, <1>1, <1>3, OwnedFrame DEF MoveLoop, BeingWritten, lockVars
<1>4. CASE LoopReads(l) \/ LoopWakes(l)
  <2>1. CASE \E g \in Gens : Take(l, g)
    BY <1>2, <1>4, <2>1
  <2>2. CASE ~ \E g \in Gens : Take(l, g)
    <3>1. UNCHANGED <<wst, stdin, turn, stdout>> /\ loop[l].pc # "handle" /\ inFlight' \subseteq inFlight
      BY <1>0, <1>4, <2>2 DEF LoopReads, LoopWakes, EndOfStream, Crash
    <3>2. \E pos : MoveLoop(l, pos)
      BY <1>0, <1>4, <2>2 DEF LoopReads, LoopWakes, EndOfStream, Crash
    <3> QED
      BY <1>3, <3>1, <3>2
  <2> QED
    BY <2>1, <2>2
<1>5. CASE LoopHandles(l)
  <2>1. ASSUME NEW p \in inFlight' PROVE loop[l].msg # DoneMsg(p) /\ p \in inFlight
    BY <1>5, <2>1 DEF LoopHandles, HandleDone, HandleInitOk, HandleRequest, DoneMsg
  <2> QED
    BY <1>0, <1>1, <1>5, <2>1, OwnedFrame DEF LoopHandles, MoveLoop, workVars, BeingWritten, lockVars
<1>6. CASE EofReaped(l)
  <2>1. CASE UNCHANGED workVars
    <3>1. \E pos : MoveLoop(l, pos)
      BY <1>6 DEF EofReaped, Crash
    <3> QED
      BY <1>3, <1>6, <2>1, <3>1 DEF EofReaped, Crash, workVars
  <2>2. CASE proc # 0 /\ Kill(proc)
    BY <1>0, <1>1, <2>2 DEF Kill, Owned, Running, IInv, InitInv, InitTyped
  <2> QED
    BY <1>6, <2>1, <2>2 DEF EofReaped
<1>7. CASE EofClears(l) \/ EofEmits(l)
  <2>1. UNCHANGED <<wst, stdin, turn, stdout>> /\ loop[l].pc # "handle" /\ inFlight' \subseteq inFlight
    BY <1>7 DEF EofClears, EofEmits, Crash, workVars
  <2>2. \E pos : MoveLoop(l, pos)
    BY <1>7 DEF EofClears, EofEmits, Crash
  <2> QED
    BY <1>3, <2>1, <2>2
<1> QED
  BY <1>4, <1>5, <1>6, <1>7 DEF LoopStep

LEMMA ClientOwned ==
  ASSUME IInv, Owned, NEW c \in Clients, ClientStep(c) PROVE Owned'
<1>1. UNCHANGED <<pc, holder, proc, wst, stdin, turn, stdout, loop>> /\ inFlight' \subseteq inFlight
  BY DEF ClientStep, StreamConnect, StreamPrompt, StreamOther, TokenRefresh, procVars, workVars
<1>2. pc = "write" /\ holder # None => call'[holder].msg = call[holder].msg
  <2>1. pc = "write" => holder \in Tasks /\ call[holder].msg.kind = "prompt"
    BY DEF IInv, ControlInv, PromptHeld
  <2>2. \A t \in Tasks : call[t].msg.kind = "prompt" => call'[t].msg = call[t].msg
    <3> SUFFICES ASSUME NEW t \in Tasks, call[t].msg.kind = "prompt" PROVE call'[t].msg = call[t].msg
      OBVIOUS
    <3>1. call \in [Tasks -> Calls] /\ c \in Tasks /\ call[c] \in Calls
      BY DEF IInv, ControlInv, CallOK, Tasks
    <3>2. CASE t # c
      BY <3>1, <3>2 DEF ClientStep, StreamConnect, StreamPrompt, StreamOther, TokenRefresh
    <3>3. CASE t = c
      <4>1. call[c] # NoCall
        BY <3>3 DEF NoCall, NoMsg
      <4> QED
        BY <3>1, <3>3, <4>1 DEF ClientStep, StreamConnect, StreamPrompt, StreamOther, TokenRefresh, Calls
    <3> QED
      BY <3>2, <3>3
  <2> QED
    BY <2>1, <2>2
<1> QED
  BY <1>1, <1>2, OwnedFrame DEF BeingWritten

LEMMA WorkerOwned ==
  ASSUME IInv, Owned, NEW g \in Gens, WorkerStep(g) PROVE Owned'
<1>0. /\ proc # 0 => proc \in Gens
      /\ stdin \in [Gens -> Seq(InMsg)] /\ stdout \in [Gens -> Seq(OutMsg)]
      /\ turn \in [Gens -> Prompts \cup {None}]
      /\ wst \in [Gens -> {"unborn", "running", "closing", "dead"}]
  BY SessionAssumption DEF IInv, ControlInv, PipeInv, StdinTyped, WorkTyped, LoopInv, StdoutTyped, InitInv,
    InitTyped, Gens, SessionAssumption
<1>1. UNCHANGED <<lockVars, proc, loop, inFlight>>
  BY DEF WorkerStep, WorkerReads, WorkerAsks, TurnEnds, WorkerCloses, WorkerExits, workerOnly, procVars
<1>2. CASE WorkerCloses(g) \/ WorkerExits(g)
  <2>1. CASE g = proc
    BY <1>0, <1>1, <1>2, <2>1 DEF WorkerCloses, WorkerExits, Kill, Owned, Running
  <2>2. CASE g # proc
    BY <1>0, <1>1, <1>2, <2>2 DEF WorkerCloses, WorkerExits, Kill, Owned, Running, Owed, BeingWritten, lockVars
  <2> QED
    BY <2>1, <2>2
<1>3. CASE WorkerReads(g) \/ WorkerAsks(g) \/ TurnEnds(g)
  <2> SUFFICES ASSUME g \in Gens, proc = g, wst[g] = "running", NEW p \in inFlight, Owed(p) PROVE Owed(p)'
    <3>1. CASE g # proc
      BY <1>0, <1>1, <1>3, <3>1 DEF WorkerReads, WorkerAsks, TurnEnds, Owned, Running, Owed, BeingWritten, lockVars
    <3>2. CASE g = proc
      BY <1>1, <1>3, <3>2 DEF WorkerReads, WorkerAsks, TurnEnds, Owned, Running, BeingWritten, lockVars
    <3> QED
      BY <3>1, <3>2
  <2>0. stdin[g] \in Seq(InMsg) /\ stdout[g] \in Seq(OutMsg) /\ p \in Prompts /\ p # None
    BY <1>0, SessionAssumption DEF IInv, RestInv, IdsTyped, SessionAssumption
  <2>1. ASSUME NEW m \in OutMsg, stdout' = [stdout EXCEPT ![g] = Append(@, m)]
        PROVE  Has(stdout'[g], m) /\ (Has(stdout[g], DoneMsg(p)) => Has(stdout'[g], DoneMsg(p)))
    BY <1>0, <2>0, <2>1, HasAppended
  <2>2. CASE WorkerAsks(g)
    <3>1. PICK r \in Requests : stdout' = [stdout EXCEPT ![g] = Append(@, [kind |-> "request", id |-> r])]
      BY <2>2 DEF WorkerAsks
    <3>2. [kind |-> "request", id |-> r] \in OutMsg
      BY DEF OutMsg
    <3> QED
      BY <1>1, <2>1, <2>2, <3>1, <3>2 DEF WorkerAsks, Owed
  <2>3. CASE TurnEnds(g)
    <3>1. DoneMsg(turn[g]) \in OutMsg /\ stdout' = [stdout EXCEPT ![g] = Append(@, DoneMsg(turn[g]))]
      BY <1>0, <2>3 DEF TurnEnds, DoneMsg, OutMsg
    <3> QED
      BY <1>1, <2>1, <2>3, <3>1 DEF TurnEnds, Owed
  <2>4. CASE WorkerReads(g)
    <3> DEFINE m == Head(stdin[g])
    <3>1. m \in InMsg /\ stdin[g] # <<>> /\ stdin'[g] = Tail(stdin[g])
      BY <1>0, <2>0, <2>4 DEF WorkerReads
    <3>2. Has(stdout[g], DoneMsg(p)) => Has(stdout'[g], DoneMsg(p))
      <4>1. \/ UNCHANGED stdout
            \/ \E k \in {"done", "initOk", "initErr"} :
                 /\ stdout' = [stdout EXCEPT ![g] = Append(@, [kind |-> k, id |-> m.id])]
                 /\ [kind |-> k, id |-> m.id] \in OutMsg
        BY <2>4, <3>1 DEF WorkerReads, InMsg, OutMsg
      <4> QED
        BY <2>1, <4>1
    <3>3. turn[g] = p => turn'[g] = p
      BY <1>0, <2>0, <2>4 DEF WorkerReads
    <3>4. ASSUME Has(stdin[g], PromptMsg(p)) PROVE Owed(p)'
      <4>1. CASE m # PromptMsg(p)
        BY <1>1, <2>0, <3>1, <3>4, <4>1, HasInTail DEF Owed
      <4>2. CASE m = PromptMsg(p) /\ turn[g] = None
        <5>1. turn'[g] = p
          BY <1>0, <2>4, <4>2 DEF WorkerReads, PromptMsg
        <5> QED
          BY <1>1, <5>1 DEF Owed
      <4>3. CASE m = PromptMsg(p) /\ turn[g] # None
        <5>1. stdout' = [stdout EXCEPT ![g] = Append(@, DoneMsg(p))] /\ DoneMsg(p) \in OutMsg
          BY <2>0, <2>4, <4>3 DEF WorkerReads, PromptMsg, DoneMsg, OutMsg
        <5> QED
          BY <1>1, <2>1, <5>1 DEF Owed
      <4> QED
        BY <4>1, <4>2, <4>3
    <3> QED
      BY <1>1, <3>2, <3>3, <3>4 DEF Owed
  <2> QED
    BY <1>3, <2>2, <2>3, <2>4
<1> QED
  BY <1>2, <1>3 DEF WorkerStep

LEMMA OwnedStep == IInv /\ StatusInv /\ ReaderInv /\ Owned /\ [Next]_vars => Owned'
<1> SUFFICES ASSUME IInv, StatusInv, ReaderInv, Owned, [Next]_vars PROVE Owned'
  OBVIOUS
<1>1. CASE AdminCall
  <2>1. pc = "write" /\ holder # None => call'[holder].msg = call[holder].msg
    BY <1>1 DEF AdminCall, IInv, ControlInv, CallOK
  <2> QED
    BY <1>1, <2>1, OwnedFrame DEF AdminCall, BeingWritten, procVars, workVars
<1>2. CASE UNCHANGED vars
  BY <1>2 DEF vars, lockVars, procVars, workVars, Owned, Running, Owed, BeingWritten
<1> QED
  BY <1>1, <1>2, ClientOwned, CallOwned, LoopOwned, WorkerOwned DEF Next

-----------------------------------------------------------------------------
OwnInv == IInv /\ StatusInv /\ ReaderInv /\ Owned

LEMMA OwnInvariant == Spec => []OwnInv
<1>1. Init => OwnInv
  BY IInvInit, StatusInit, ReaderInvInit, OwnedInit DEF OwnInv
<1>2. OwnInv /\ [Next]_vars => OwnInv'
  BY IInvStep, StatusStep, ReaderStep, OwnedStep DEF OwnInv
<1> QED
  BY <1>1, <1>2, PTL DEF Spec

\* No phantom prompt: what keeps a session busy while its worker runs is a
\* prompt on its way to the worker, in it, or on its way back.
THEOREM InFlightOwnedCorrect == Spec => []InFlightOwned
<1>1. OwnInv => InFlightOwned
  <2> SUFFICES ASSUME OwnInv PROVE InFlightOwned
    OBVIOUS
  <2> QED
    BY DEF OwnInv, Owned, Running, BeingWritten, Owed, Has, PromptMsg, DoneMsg, InFlightOwned
<1> QED
  BY <1>1, OwnInvariant, PTL

\* The requests that leave the set in a step.
LEMMA QuestionLost ==
  ASSUME OwnInv, Next, Running, NEW r \in pendingReq, r \notin pendingReq'
  PROVE  \/ \E t \in Tasks : call[t].msg = [kind |-> "resp", id |-> r]
         \/ \E l \in Loops \ {readTask} : loop[l].pc = "eofErr"
<1> USE DEF OwnInv
<1>0. proc \in Gens /\ call \in [Tasks -> Calls] /\ wst[proc] # "dead"
  BY SessionAssumption DEF Running, IInv, ControlInv, CallOK, Gens, SessionAssumption
<1>1. ASSUME NEW t \in Tasks, CallStep(t) PROVE call[t].msg = [kind |-> "resp", id |-> r]
  <2>1. IsAlive /\ pc # "cancelled"
    BY <1>0 DEF Running, IsAlive, ReaderInv, ReaderIsWorkers
  <2>2. SendControl(t)
    BY <1>1, <2>1 DEF CallStep, Start, SendPrompt, GateRefuses, GatePasses, SpawnFails, SpawnWorks, Started,
      StartedSend, WritePrompt, DrainReturns, DrainRaises, RestartSkipped, RestartBegins, StopBegins, Terminate,
      Reap, StopReturns
  <2>3. call[t].msg.kind = "resp" /\ r = call[t].msg.id
    BY <2>1, <2>2 DEF SendControl
  <2> QED
    BY <1>0, <2>2, <2>3 DEF SendControl, Calls, InMsg
<1>2. ASSUME NEW l \in Loops, LoopStep(l) PROVE loop[l].pc = "eofErr" /\ l # readTask
  <2>1. loop[l].pc = "eofErr"
    BY <1>2 DEF LoopStep, LoopReads, LoopWakes, LoopHandles, HandleDone, HandleInitOk, HandleRequest, EofReaped,
      EofClears, EofEmits
  <2> QED
    BY <2>1 DEF Running, ReaderInv, ReaderIsWorkers, EofIsOver
<1>3. UNCHANGED pendingReq \/ (\E t \in Tasks : CallStep(t)) \/ (\E l \in Loops : LoopStep(l))
  BY DEF Next, AdminCall, ClientStep, StreamConnect, StreamPrompt, StreamOther, TokenRefresh, WorkerStep,
    WorkerReads, WorkerAsks, TurnEnds, WorkerCloses, WorkerExits, workerOnly
<1> QED
  BY <1>1, <1>2, <1>3

\* A question the running worker waits on is dropped by its answer, or by the
\* read loop of an earlier worker; never by the loop, or a caller, of its own.
THEOREM QuestionKeptCorrect == Spec => QuestionKept
<1>1. OwnInv /\ [Next]_vars =>
        [\A r \in pendingReq \ pendingReq' :
            (proc # 0 /\ wst[proc] = "running" /\ r \in asks[proc]) =>
               \/ \E t \in Tasks : call[t].msg = [kind |-> "resp", id |-> r]
               \/ \E l \in Loops \ {readTask} : loop[l].pc = "eofErr"]_vars
  BY QuestionLost DEF Running
<1> QED
  BY <1>1, OwnInvariant, PTL DEF Spec, QuestionKept

-----------------------------------------------------------------------------
(* Who owes the deduped their answer.                                      *)

InitMsg(i) == [kind |-> "init", id |-> i]
OkMsg(i) == [kind |-> "initOk", id |-> i]
ErrMsg(i) == [kind |-> "initErr", id |-> i]

\* The initialize is still to be read, or is answered without the answer
\* being read, or without its being handled.
Answering(l, i) == loop[l].pc = "handle" /\ loop[l].on = proc /\ loop[l].msg \in {OkMsg(i), ErrMsg(i)}
InitOwed(i) ==
  \/ Has(stdin[proc], InitMsg(i)) \/ Has(stdout[proc], OkMsg(i)) \/ Has(stdout[proc], ErrMsg(i))
  \/ \E l \in Loops : Answering(l, i)
AnswerOwed == Running /\ initialized /\ ~cachedResult => refused \/ InitOwed(pendingInit)

LEMMA AnswerOwedInit == Init => AnswerOwed
BY DEF Init, AnswerOwed, Running

LEMMA AnswerFrame ==
  ASSUME AnswerOwed, UNCHANGED <<proc, wst, stdin, stdout, initVars>>,
         \A l \in Loops : loop[l].pc = "handle" => loop'[l] = loop[l]
  PROVE  AnswerOwed'
BY DEF AnswerOwed, Running, InitOwed, Answering, initVars

\* An initialize written to the running worker waits in its stdin.
LEMMA DeliverInitOwed ==
  ASSUME StdinTyped, Running, proc \in Gens, NEW m \in InMsg, Deliver(proc, m)
  PROVE  /\ m.kind = "init" => Has(stdin'[proc], InitMsg(m.id))
         /\ \A i : Has(stdin[proc], InitMsg(i)) => Has(stdin'[proc], InitMsg(i))
<1>1. stdin[proc] \in Seq(InMsg) /\ stdin'[proc] = Append(stdin[proc], m)
  BY DEF StdinTyped, Running, Deliver
<1>2. m.kind = "init" => m = InitMsg(m.id)
  BY DEF InMsg, InitMsg
<1> QED
  BY <1>1, <1>2, HasAppended

\* Whatever else is written to the worker, the initialize stays where it is.
LEMMA DeliverFrame ==
  ASSUME StdinTyped, proc \in Gens, AnswerOwed, NEW m \in InMsg, Deliver(proc, m),
         UNCHANGED <<proc, wst, stdout, initialized, cachedResult, pendingInit, refused>>,
         \A l \in Loops : loop[l].pc = "handle" => loop'[l] = loop[l]
  PROVE  AnswerOwed'
<1> SUFFICES ASSUME Running, initialized, ~cachedResult, InitOwed(pendingInit) PROVE InitOwed(pendingInit)'
  BY DEF AnswerOwed, Running
<1> QED
  BY DeliverInitOwed DEF InitOwed, Answering

LEMMA ForwardAnswer ==
  ASSUME IInv, AnswerOwed, proc \in Gens, NEW m \in InMsg, Forward(m),
         UNCHANGED <<proc, wst, stdout, cachedResult, refused>>,
         \A l \in Loops : loop[l].pc = "handle" => loop'[l] = loop[l]
  PROVE  AnswerOwed'
<1>0. StdinTyped
  BY DEF IInv, PipeInv
<1>1. CASE UNCHANGED <<stdin, initialized, pendingInit>>
  BY <1>1 DEF AnswerOwed, Running, InitOwed, Answering
<1>2. CASE Deliver(proc, m) /\ UNCHANGED <<initialized, pendingInit>>
  BY <1>0, <1>2, DeliverFrame
<1>3. CASE Deliver(proc, m) /\ m.kind = "init" /\ pendingInit' = m.id
  <2>1. Running => InitOwed(pendingInit)'
    BY <1>0, <1>3, DeliverInitOwed DEF InitOwed
  <2> QED
    BY <2>1 DEF AnswerOwed, Running
<1> QED
  BY <1>1, <1>2, <1>3 DEF Forward

LEMMA CallAnswer ==
  ASSUME IInv, ReaderInv, AnswerOwed, NEW t \in Tasks, CallStep(t) PROVE AnswerOwed'
<1>0. (proc # 0 => proc \in Gens) /\ StdinTyped /\ call \in [Tasks -> Calls]
  BY SessionAssumption DEF IInv, ControlInv, CallOK, PipeInv, Gens, SessionAssumption
<1>1. CASE UNCHANGED <<proc, wst, stdin, stdout, initVars, loop>>
  BY <1>1, AnswerFrame
<1>2. CASE Start(t)
  <2>1. \A l \in Loops : loop[l].pc = "handle" => loop'[l] = loop[l]
    BY <1>2, EnsureReaderOwned DEF Start, IsAlive
  <2> QED
    BY <1>2, <2>1, AnswerFrame DEF Start, workVars
<1>3. CASE SendControl(t)
  <2>1. CASE IsAlive
    <3>1. call[t].msg \in InMsg /\ proc \in Gens
      BY <1>0, <1>3, <2>1 DEF SendControl, Calls, IsAlive
    <3> QED
      BY <1>3, <2>1, <3>1, EnsureReaderOwned, ForwardAnswer DEF SendControl, IsAlive
  <2>2. CASE ~IsAlive
    BY <1>3, <2>2 DEF SendControl, AnswerOwed, Running, IsAlive
  <2> QED
    BY <2>1, <2>2
<1>4. CASE GatePasses(t)
  <2>1. CASE IsAlive
    <3>1. call[t].msg \in InMsg /\ proc \in Gens
      BY <1>0, <1>4, <2>1 DEF GatePasses, IInv, ControlInv, PromptHeld, Calls, NoMsg, IsAlive
    <3>2. \A l \in Loops : loop[l].pc = "handle" => loop'[l] = loop[l]
      BY <1>4, <2>1, EnsureReaderOwned DEF GatePasses, IsAlive
    <3>3. UNCHANGED stdin \/ Deliver(proc, call[t].msg)
      BY <1>4, <2>1 DEF GatePasses, PromptBody
    <3> QED
      BY <1>0, <1>4, <3>1, <3>2, <3>3, AnswerFrame, DeliverFrame DEF GatePasses, initVars
  <2>2. CASE ~IsAlive
    BY <1>1, <1>4, <2>2 DEF GatePasses
  <2> QED
    BY <2>1, <2>2
<1>5. CASE SpawnWorks(t)
  <2>1. gen + 1 \in Gens /\ stdin \in [Gens -> Seq(InMsg)] /\ wst \in [Gens -> {"unborn", "running", "closing", "dead"}]
    BY <1>0, <1>5, SessionAssumption DEF SpawnWorks, IInv, ControlInv, InitInv, InitTyped, StdinTyped, Gens,
      SessionAssumption
  <2>2. CASE initialized' = FALSE
    BY <2>2 DEF AnswerOwed
  <2>3. CASE Replays /\ pendingInit' = cachedInit /\ stdin' = [stdin EXCEPT ![gen + 1] = <<InitMsg(cachedInit)>>]
    <3>1. proc' = gen + 1 /\ stdin'[proc'] = <<InitMsg(cachedInit)>>
      BY <1>5, <2>1, <2>3 DEF SpawnWorks
    <3>2. Has(stdin'[proc'], InitMsg(pendingInit'))
      BY <2>3, <3>1 DEF Has
    <3> QED
      BY <3>2 DEF AnswerOwed, InitOwed
  <2>4. CASE ~Replays /\ initialized' = Replays
    BY <2>4, Zenon DEF AnswerOwed
  <2> QED
    BY <1>5, <2>2, <2>3, <2>4 DEF SpawnWorks, InitMsg
<1>6. CASE StartedSend(t)
  <2>1. call[t].msg \in InMsg /\ proc \in Gens
    BY <1>0, <1>6 DEF StartedSend, Calls, IInv, ControlInv, HasWorker
  <2>2. CASE call[t].msg.kind = "prompt"
    <3>1. UNCHANGED stdin \/ Deliver(proc, call[t].msg)
      BY <1>6, <2>2 DEF StartedSend, PromptBody
    <3> QED
      BY <1>0, <1>6, <2>1, <2>2, <3>1, AnswerFrame, DeliverFrame DEF StartedSend, procVars, initVars
  <2>3. CASE call[t].msg.kind # "prompt"
    BY <1>6, <2>1, <2>3, ForwardAnswer DEF StartedSend, procVars
  <2> QED
    BY <2>2, <2>3
<1>7. CASE WritePrompt(t)
  <2>1. call[t].msg \in InMsg /\ proc \in Gens
    BY <1>0, <1>7 DEF WritePrompt, IInv, ControlInv, PromptHeld, HasWorker, Calls, NoMsg
  <2> QED
    BY <1>0, <1>7, <2>1, DeliverFrame DEF WritePrompt, procVars, initVars
<1>8. CASE Reap(t)
  BY <1>8 DEF Reap, AnswerOwed, Running
<1> QED
  BY <1>1, <1>2, <1>3, <1>4, <1>5, <1>6, <1>7, <1>8 DEF CallStep, SendPrompt, GateRefuses, SpawnFails, Started,
    DrainReturns, DrainRaises, RestartSkipped, RestartBegins, StopBegins, Terminate, StopReturns, procVars, workVars

\* What a loop takes from the stream goes on being handled.
LEMMA TakeAnswer ==
  ASSUME IInv, AnswerOwed, NEW l \in Loops, NEW g \in Gens, Take(l, g), loop[l].pc # "handle",
         UNCHANGED <<proc, wst, stdin, initVars>>
  PROVE  AnswerOwed'
<1> SUFFICES ASSUME Running, InitOwed(pendingInit) PROVE InitOwed(pendingInit)'
  BY DEF AnswerOwed, Running, initVars
<1> DEFINE i == pendingInit
<1>0. /\ proc \in Gens /\ loop \in [Loops -> LoopPos] /\ stdout[g] \in Seq(OutMsg)
      /\ stdout \in [Gens -> Seq(OutMsg)] /\ UNCHANGED pendingInit
  BY SessionAssumption DEF Running, IInv, ControlInv, LoopInv, LoopTyped, StdoutTyped, Gens, SessionAssumption, initVars
<1>1. loop'[l].pc = "handle" /\ loop'[l].on = g /\ loop'[l].msg = Head(stdout[g])
  BY <1>0 DEF Take, MoveLoop, LoopAt
<1>2. \A k \in Loops : Answering(k, i) => Answering(k, i)'
  BY <1>0 DEF Take, MoveLoop, Answering
<1>3. ASSUME NEW m \in {OkMsg(i), ErrMsg(i)}, Has(stdout[proc], m) PROVE InitOwed(pendingInit)'
  <2>1. CASE g = proc /\ Head(stdout[g]) = m
    BY <1>0, <1>1, <2>1 DEF InitOwed, Answering
  <2>2. CASE g = proc /\ Head(stdout[g]) # m
    <3>1. Has(Tail(stdout[proc]), m)
      BY <1>0, <1>3, <2>2, HasInTail DEF Take
    <3> QED
      BY <1>0, <2>2, <3>1 DEF Take, InitOwed
  <2>3. CASE g # proc
    BY <1>0, <1>3, <2>3 DEF Take, InitOwed
  <2> QED
    BY <2>1, <2>2, <2>3
<1> QED
  BY <1>0, <1>2, <1>3 DEF InitOwed

LEMMA LoopAnswer ==
  ASSUME IInv, AnswerOwed, NEW l \in Loops, LoopStep(l) PROVE AnswerOwed'
<1>0. /\ (proc # 0 => proc \in Gens) /\ loop \in [Loops -> LoopPos]
      /\ (loop[l].pc = "wait" => loop[l].on \in Gens)
  BY SessionAssumption DEF IInv, ControlInv, LoopInv, LoopTyped, LoopsOnWorkers, Gens, SessionAssumption
<1>1. UNCHANGED proc
  BY DEF LoopStep, LoopReads, LoopWakes, LoopHandles, EofReaped, EofClears, EofEmits, loopOnly
<1>2. ASSUME NEW pos, MoveLoop(l, pos), UNCHANGED <<wst, stdin, stdout, initVars>>, loop[l].pc # "handle"
      PROVE  AnswerOwed'
  BY <1>0, <1>1, <1>2, AnswerFrame DEF MoveLoop
<1>3. CASE LoopReads(l) \/ LoopWakes(l)
  <2>1. CASE \E g \in Gens : Take(l, g)
    BY <1>1, <1>3, <2>1, TakeAnswer DEF LoopReads, LoopWakes
  <2>2. CASE ~ \E g \in Gens : Take(l, g)
    <3>1. UNCHANGED <<wst, stdin, stdout, initVars>> /\ loop[l].pc # "handle"
      BY <1>0, <1>3, <2>2 DEF LoopReads, LoopWakes, EndOfStream, Crash
    <3>2. \E pos : MoveLoop(l, pos)
      BY <1>0, <1>3, <2>2 DEF LoopReads, LoopWakes, EndOfStream, Crash
    <3> QED
      BY <1>2, <3>1, <3>2
  <2> QED
    BY <2>1, <2>2
<1>4. CASE LoopHandles(l)
  <2> SUFFICES ASSUME Running, initialized, ~cachedResult', ~refused' PROVE InitOwed(pendingInit)'
    BY <1>1, <1>4 DEF AnswerOwed, Running, LoopHandles, workVars
  <2>1. UNCHANGED <<wst, stdin, stdout, initialized>> /\ \A k \in Loops : k # l => loop'[k] = loop[k]
    BY <1>0, <1>4 DEF LoopHandles, MoveLoop, workVars
  <2>2. loop[l].msg = OkMsg(pendingInit) => cachedResult'
    BY <1>4 DEF LoopHandles, HandleInitOk, OkMsg
  <2>3. loop[l].msg = ErrMsg(pendingInit) /\ loop[l].on = proc => refused'
    <3>1. ErrMsg(pendingInit).kind = "initErr" /\ ErrMsg(pendingInit).id = pendingInit
      BY DEF ErrMsg
    <3>2. refused' = (refused \/ (loop[l].msg.kind = "initErr" /\ loop[l].msg.id = pendingInit /\ loop[l].on = proc))
      BY <1>4 DEF LoopHandles
    <3> QED
      BY <3>1, <3>2, Zenon
  <2>4. UNCHANGED <<pendingInit, cachedResult>>
    BY <1>4 DEF LoopHandles, HandleDone, HandleInitOk, HandleRequest
  <2>5. ~refused
    BY <1>4 DEF LoopHandles
  <2>6. InitOwed(pendingInit)
    BY <2>4, <2>5 DEF AnswerOwed
  <2>7. ~Answering(l, pendingInit)
    BY <2>2, <2>3 DEF Answering
  <2> QED
    BY <1>1, <2>1, <2>4, <2>6, <2>7 DEF InitOwed, Answering
<1>5. CASE EofReaped(l)
  <2>1. CASE UNCHANGED workVars
    <3>1. \E pos : MoveLoop(l, pos)
      BY <1>5 DEF EofReaped, Crash
    <3> QED
      BY <1>2, <1>5, <2>1, <3>1 DEF EofReaped, workVars
  <2>2. CASE proc # 0 /\ Kill(proc)
    BY <1>0, <1>1, <2>2 DEF Kill, AnswerOwed, Running, IInv, InitInv, InitTyped
  <2> QED
    BY <1>5, <2>1, <2>2 DEF EofReaped
<1>6. CASE EofClears(l) \/ EofEmits(l)
  <2>1. UNCHANGED <<wst, stdin, stdout, initVars>> /\ loop[l].pc # "handle"
    BY <1>6 DEF EofClears, EofEmits, workVars
  <2>2. \E pos : MoveLoop(l, pos)
    BY <1>6 DEF EofClears, EofEmits, Crash
  <2> QED
    BY <1>2, <2>1, <2>2
<1> QED
  BY <1>3, <1>4, <1>5, <1>6 DEF LoopStep

\* A running worker answers the initialize it reads.
LEMMA WorkerAnswer ==
  ASSUME IInv, AnswerOwed, NEW g \in Gens, WorkerStep(g) PROVE AnswerOwed'
<1>0. /\ proc # 0 => proc \in Gens
      /\ stdin \in [Gens -> Seq(InMsg)] /\ stdout \in [Gens -> Seq(OutMsg)]
      /\ turn \in [Gens -> Prompts \cup {None}]
      /\ wst \in [Gens -> {"unborn", "running", "closing", "dead"}]
  BY SessionAssumption DEF IInv, ControlInv, PipeInv, StdinTyped, WorkTyped, LoopInv, StdoutTyped, InitInv,
    InitTyped, Gens, SessionAssumption
<1>1. UNCHANGED <<proc, loop, initVars>>
  BY DEF WorkerStep, WorkerReads, WorkerAsks, TurnEnds, WorkerCloses, WorkerExits, workerOnly, procVars
<1>2. Running' => Running
  BY <1>0, <1>1 DEF WorkerStep, WorkerReads, WorkerAsks, TurnEnds, WorkerCloses, WorkerExits, Kill, Running
<1> SUFFICES ASSUME Running', Running, InitOwed(pendingInit) PROVE InitOwed(pendingInit)'
  BY <1>1, <1>2 DEF AnswerOwed, initVars
<1> DEFINE i == pendingInit
<1>3. proc \in Gens /\ UNCHANGED pendingInit /\ \A k \in Loops : Answering(k, i) => Answering(k, i)'
  BY <1>0, <1>1 DEF Running, initVars, Answering
<1>4. CASE g # proc
  <2>1. stdin'[proc] = stdin[proc] /\ stdout'[proc] = stdout[proc]
    BY <1>0, <1>3, <1>4 DEF WorkerStep, WorkerReads, WorkerAsks, TurnEnds, WorkerCloses, WorkerExits, Kill
  <2> QED
    BY <1>1, <1>3, <2>1 DEF InitOwed
<1>5. CASE g = proc
  <2>0. stdin[g] \in Seq(InMsg) /\ stdout[g] \in Seq(OutMsg)
    BY <1>0
  <2>1. ASSUME NEW m \in OutMsg, stdout' = [stdout EXCEPT ![g] = Append(@, m)]
        PROVE  Has(stdout'[g], m) /\ \A x : Has(stdout[g], x) => Has(stdout'[g], x)
    BY <1>0, <2>0, <2>1, HasAppended
  <2>2. CASE WorkerAsks(g)
    <3>1. PICK r \in Requests : stdout' = [stdout EXCEPT ![g] = Append(@, [kind |-> "request", id |-> r])]
      BY <2>2 DEF WorkerAsks
    <3>2. [kind |-> "request", id |-> r] \in OutMsg
      BY DEF OutMsg
    <3> QED
      BY <1>1, <1>3, <1>5, <2>1, <2>2, <3>1, <3>2 DEF WorkerAsks, InitOwed
  <2>3. CASE TurnEnds(g)
    <3>1. DoneMsg(turn[g]) \in OutMsg /\ stdout' = [stdout EXCEPT ![g] = Append(@, DoneMsg(turn[g]))]
      BY <1>0, <2>3 DEF TurnEnds, DoneMsg, OutMsg
    <3> QED
      BY <1>1, <1>3, <1>5, <2>1, <2>3, <3>1 DEF TurnEnds, InitOwed
  <2>4. CASE WorkerReads(g)
    <3> DEFINE m == Head(stdin[g])
    <3>1. m \in InMsg /\ stdin[g] # <<>> /\ stdin'[g] = Tail(stdin[g])
      BY <1>0, <2>0, <2>4 DEF WorkerReads
    <3>2. \A x : Has(stdout[g], x) => Has(stdout'[g], x)
      <4>1. \/ UNCHANGED stdout
            \/ \E k \in {"done", "initOk", "initErr"} :
                 /\ stdout' = [stdout EXCEPT ![g] = Append(@, [kind |-> k, id |-> m.id])]
                 /\ [kind |-> k, id |-> m.id] \in OutMsg
        BY <2>4, <3>1 DEF WorkerReads, InMsg, OutMsg
      <4> QED
        BY <2>1, <4>1
    <3>3. ASSUME Has(stdin[g], InitMsg(i)) PROVE InitOwed(pendingInit)'
      <4>1. CASE m # InitMsg(i)
        BY <1>1, <1>3, <1>5, <2>0, <3>1, <3>3, <4>1, HasInTail DEF InitOwed
      <4>2. CASE m = InitMsg(i)
        <5>1. PICK x \in {OkMsg(i), ErrMsg(i)} : stdout' = [stdout EXCEPT ![g] = Append(@, x)] /\ x \in OutMsg
          <6>1. m.kind = "init" /\ m.id = i /\ i \in Inits
            BY <3>1, <4>2 DEF InitMsg, InMsg
          <6>2. OkMsg(i) \in OutMsg /\ ErrMsg(i) \in OutMsg
            BY <6>1 DEF OkMsg, ErrMsg, OutMsg
          <6> QED
            BY <2>4, <6>1, <6>2 DEF WorkerReads, OkMsg, ErrMsg
        <5> QED
          BY <1>1, <1>3, <1>5, <2>1, <5>1 DEF InitOwed
      <4> QED
        BY <4>1, <4>2
    <3> QED
      BY <1>1, <1>3, <1>5, <3>2, <3>3 DEF InitOwed
  <2>5. CASE WorkerCloses(g) \/ WorkerExits(g)
    BY <1>0, <1>1, <1>5, <2>5 DEF WorkerCloses, WorkerExits, Kill, Running
  <2> QED
    BY <2>2, <2>3, <2>4, <2>5 DEF WorkerStep
<1> QED
  BY <1>4, <1>5

LEMMA AnswerStep == IInv /\ ReaderInv /\ AnswerOwed /\ [Next]_vars => AnswerOwed'
<1> SUFFICES ASSUME IInv, ReaderInv, AnswerOwed, [Next]_vars PROVE AnswerOwed'
  OBVIOUS
<1>1. CASE AdminCall \/ (\E c \in Clients : ClientStep(c)) \/ UNCHANGED vars
  <2>1. UNCHANGED <<proc, wst, stdin, stdout, initVars, loop>>
    BY <1>1 DEF AdminCall, ClientStep, StreamConnect, StreamPrompt, StreamOther, TokenRefresh, vars, procVars, workVars
  <2> QED
    BY <2>1, AnswerFrame
<1> QED
  BY <1>1, CallAnswer, LoopAnswer, WorkerAnswer DEF Next

\* Whoever is deduped waits for a result that is not cached yet, and the
\* running worker, its output or a read loop still holds the initialize or its
\* answer, unless the worker has refused it.
THEOREM DedupedCorrect == Spec => []DedupedAwaitAnswer
<1>1. IInv /\ ReaderInv /\ AnswerOwed => DedupedAwaitAnswer
  <2> SUFFICES ASSUME IInv, AnswerOwed, deduped # <<>>
               PROVE  /\ initialized /\ pendingInit # None /\ ~cachedResult
                      /\ Running /\ ~refused => InitOwed(pendingInit)
    BY DEF DedupedAwaitAnswer, Running, InitOwed, Answering, Has, InitMsg, OkMsg, ErrMsg
  <2>1. initialized /\ pendingInit # None /\ ~cachedResult
    BY DEF IInv, InitInv, DedupedWhileAwaited
  <2> QED
    BY <2>1 DEF AnswerOwed
<1>2. Init => IInv /\ ReaderInv /\ AnswerOwed
  BY IInvInit, ReaderInvInit, AnswerOwedInit
<1>3. IInv /\ ReaderInv /\ AnswerOwed /\ [Next]_vars => (IInv /\ ReaderInv /\ AnswerOwed)'
  BY IInvStep, ReaderStep, AnswerStep
<1> QED
  BY <1>1, <1>2, <1>3, PTL DEF Spec
=============================================================================
