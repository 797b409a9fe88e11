------------------------ MODULE SessionProcessProofs ------------------------
(***************************************************************************)
(* What SessionProcess keeps for any number of clients, messages and       *)
(* workers, in three layers, each inductive given those before it:         *)
(*                                                                         *)
(*   ControlInv  who holds the lock, with which message, at which position *)
(*   StatusInv   the status against the in-flight ids                      *)
(*   InitInv     the initialize handshake of the current worker            *)
(***************************************************************************)
EXTENDS SessionProcess, TLAPS

-----------------------------------------------------------------------------
(* The lock and its holder.                                                *)

CallOK == call \in [Tasks -> Calls]

\* Whoever is past the lock with a prompt still has that prompt in hand.
PromptHeld == pc \in {"gate", "write"} => holder # None /\ call[holder].msg.kind = "prompt"

\* The positions from which a message is written have a process to write to.
HasWorker == pc \in {"spawned", "write"} => proc # 0

ControlInv ==
  /\ CallOK /\ holder \in Tasks \cup {None}
  /\ gen \in 0..MaxGen /\ proc \in 0..MaxGen
  /\ PromptHeld /\ HasWorker

LEMMA ControlInit == Init => ControlInv
BY SessionAssumption DEF Init, ControlInv, CallOK, PromptHeld, HasWorker, NoCall, Calls, NoMsg, SessionAssumption

LEMMA LeaveCall == ASSUME CallOK, NEW t \in Tasks, Leave(t) PROVE CallOK'
BY DEF CallOK, Leave, NoCall, Calls, NoMsg

LEMMA AbortCall == ASSUME CallOK, NEW t \in Tasks, Abort(t) PROVE CallOK'
BY DEF CallOK, Abort, NoCall, Calls, NoMsg

\* Released, the lock is nobody's and the position is "free".
LEMMA Released ==
  ASSUME ControlInv, CallOK', holder' = None, pc' = "free", UNCHANGED <<gen, proc>>
  PROVE  ControlInv'
BY DEF ControlInv, PromptHeld, HasWorker

\* A task outside the lock that changes its own call leaves the holder's alone.
LEMMA OutsideLock ==
  ASSUME ControlInv, CallOK', UNCHANGED <<holder, pc, gen, proc>>,
         NEW c \in Tasks, call[c].msg.kind # "prompt" \/ call'[c].msg = call[c].msg,
         \A t \in Tasks \ {c} : call'[t] = call[t]
  PROVE  ControlInv'
BY DEF ControlInv, PromptHeld, HasWorker

LEMMA ClientControl ==
  ASSUME ControlInv, NEW c \in Clients, ClientStep(c) PROVE ControlInv'
<1> USE DEF Tasks
<1>1. CallOK
  BY DEF ControlInv
<1>2. CASE StreamConnect(c)
  <2>1. CallOK' /\ call[c].msg.kind # "prompt"
    BY <1>1, <1>2 DEF StreamConnect, CallOK, NoCall, Calls, NoMsg
  <2> QED
    BY <1>1, <1>2, <2>1, OutsideLock DEF StreamConnect, CallOK, procVars
<1>3. CASE StreamPrompt(c)
  <2>1. CallOK' /\ call[c].msg.kind # "prompt"
    BY <1>1, <1>3 DEF StreamPrompt, CallOK, NoCall, Calls, InMsg, NoMsg
  <2> QED
    BY <1>1, <1>3, <2>1, OutsideLock DEF StreamPrompt, CallOK, procVars
<1>4. CASE StreamOther(c)
  <2>1. CallOK' /\ call[c].msg.kind # "prompt"
    BY <1>1, <1>4 DEF StreamOther, CallOK, NoCall, Calls, NoMsg
  <2> QED
    BY <1>1, <1>4, <2>1, OutsideLock DEF StreamOther, CallOK, procVars
<1>5. CASE TokenRefresh(c)
  <2>1. CallOK' /\ call'[c].msg = call[c].msg
    BY <1>1, <1>5 DEF TokenRefresh, CallOK, Calls
  <2> QED
    BY <1>1, <1>5, <2>1, OutsideLock DEF TokenRefresh, CallOK, procVars
<1> QED
  BY <1>2, <1>3, <1>4, <1>5 DEF ClientStep

LEMMA AdminControl ==
  ASSUME ControlInv, AdminCall PROVE ControlInv'
<1>1. CallOK /\ Admin \in Tasks
  BY DEF ControlInv, Tasks
<1>2. CallOK' /\ call[Admin].msg.kind # "prompt"
  BY <1>1 DEF AdminCall, CallOK, NoCall, Calls, NoMsg
<1> QED
  BY <1>1, <1>2, OutsideLock DEF AdminCall, CallOK, procVars

LEMMA CallControl ==
  ASSUME ControlInv, NEW t \in Tasks, CallStep(t) PROVE ControlInv'
<1>1. CallOK /\ t # None
  BY SessionAssumption DEF ControlInv, SessionAssumption, Tasks
<1>2. CASE Start(t)
  BY <1>1, <1>2 DEF Start, BeginSpawn, ControlInv, CallOK, PromptHeld, HasWorker, NoCall, Calls
<1>3. CASE SendControl(t)
  BY <1>1, <1>3 DEF SendControl, BeginSpawn, ControlInv, CallOK, PromptHeld, HasWorker, NoCall, Calls
<1>4. CASE SendPrompt(t)
  BY <1>1, <1>4 DEF SendPrompt, Enter, procVars, ControlInv, CallOK, PromptHeld, HasWorker, Calls
<1>5. CASE GatePasses(t)
  BY <1>1, <1>5 DEF GatePasses, PromptBody, Drain, BeginSpawn, IsAlive, ControlInv, CallOK, PromptHeld, HasWorker
<1>6. CASE SpawnFails(t)
  BY <1>1, <1>6, AbortCall, Released DEF SpawnFails, Abort, procVars
<1>7. CASE SpawnWorks(t)
  <2>1. gen + 1 \in 1..MaxGen
    BY <1>7, SessionAssumption DEF SpawnWorks, ControlInv, SessionAssumption
  <2>2. CallOK'
    BY <1>1, <1>7, AbortCall DEF SpawnWorks, CallOK
  <2> QED
    BY <1>7, <2>1, <2>2, SessionAssumption DEF SpawnWorks, Abort, ControlInv, PromptHeld, HasWorker, SessionAssumption
<1>8. CASE Started(t) \/ GateRefuses(t) \/ DrainReturns(t) \/ DrainRaises(t) \/ RestartSkipped(t)
  BY <1>1, <1>8, LeaveCall, Released DEF Started, GateRefuses, DrainReturns, DrainRaises, RestartSkipped, Leave, procVars
<1>9. CASE StartedSend(t)
  <2>1. CASE call[t].msg.kind = "prompt"
    BY <1>1, <1>9, <2>1 DEF StartedSend, PromptBody, Drain, procVars, ControlInv, CallOK, PromptHeld, HasWorker
  <2>2. CASE call[t].msg.kind # "prompt"
    BY <1>1, <1>9, <2>2, LeaveCall, Released DEF StartedSend, Leave, procVars
  <2> QED
    BY <2>1, <2>2
<1>10. CASE WritePrompt(t)
  BY <1>1, <1>10 DEF WritePrompt, Drain, procVars, ControlInv, CallOK, PromptHeld, HasWorker
<1>11. CASE RestartBegins(t) \/ StopBegins(t)
  BY <1>1, <1>11 DEF RestartBegins, StopBegins, Enter, procVars, ControlInv, CallOK, PromptHeld, HasWorker
<1>12. CASE Terminate(t) \/ Reap(t)
  BY <1>1, <1>12, SessionAssumption DEF Terminate, Reap, ControlInv, CallOK, PromptHeld, HasWorker, SessionAssumption
<1>13. CASE StopReturns(t)
  <2>1. CASE call[t].op = "stop"
    BY <1>1, <1>13, <2>1, LeaveCall, Released DEF StopReturns, Leave
  <2>2. CASE call[t].op # "stop"
    BY <1>1, <1>13, <2>2 DEF StopReturns, BeginSpawn, ControlInv, CallOK, PromptHeld, HasWorker
  <2> QED
    BY <2>1, <2>2
<1> QED
  BY <1>2, <1>3, <1>4, <1>5, <1>6, <1>7, <1>8, <1>9, <1>10, <1>11, <1>12, <1>13 DEF CallStep

LEMMA OthersControl ==
  ASSUME ControlInv, (\E l \in Loops : LoopStep(l)) \/ (\E g \in Gens : WorkerStep(g)) \/ UNCHANGED vars
  PROVE  ControlInv'
<1>1. UNCHANGED <<holder, pc, call, gen, proc>>
  BY DEF LoopStep, LoopReads, LoopWakes, LoopHandles, EofReaped, EofClears, EofEmits, WorkerStep,
    WorkerReads, WorkerAsks, TurnEnds, WorkerCloses, WorkerExits, loopOnly, workerOnly, vars, lockVars, procVars
<1> QED
  BY <1>1 DEF ControlInv, CallOK, PromptHeld, HasWorker

LEMMA ControlStep == ControlInv /\ [Next]_vars => ControlInv'
BY AdminControl, ClientControl, CallControl, OthersControl DEF Next

(* The status and the in-flight ids.  A worker is spawned with nothing in  *)
(* flight, which is why its "idle" is true when it is emitted.             *)

SpawnsIdle == pc = "spawn" => inFlight = {}

StatusInv == QuietMeansNotBusy /\ SpawnsIdle

LEMMA StatusInit == Init => StatusInv
BY DEF Init, StatusInv, QuietMeansNotBusy, SpawnsIdle, IsBusy

LEMMA ClientStatus ==
  ASSUME StatusInv, NEW c \in Clients, ClientStep(c) PROVE StatusInv'
BY DEF StatusInv, QuietMeansNotBusy, SpawnsIdle, IsBusy, ClientStep, StreamConnect, StreamPrompt,
  StreamOther, TokenRefresh

LEMMA CallStatus ==
  ASSUME StatusInv, NEW t \in Tasks, CallStep(t) PROVE StatusInv'
<1> USE DEF StatusInv, QuietMeansNotBusy, SpawnsIdle, IsBusy
<1>1. CASE Start(t)
  BY <1>1 DEF Start, BeginSpawn
<1>2. CASE SendControl(t)
  BY <1>2 DEF SendControl, BeginSpawn
<1>3. CASE SendPrompt(t)
  BY <1>3 DEF SendPrompt, Enter
<1>4. CASE GateRefuses(t)
  BY <1>4 DEF GateRefuses, Leave
<1>5. CASE GatePasses(t)
  BY <1>5 DEF GatePasses, BeginSpawn, PromptBody, Drain
<1>6. CASE SpawnFails(t)
  BY <1>6 DEF SpawnFails, Abort
<1>7. CASE SpawnWorks(t)
  BY <1>7 DEF SpawnWorks, Abort
<1>8. CASE Started(t)
  BY <1>8 DEF Started, Leave
<1>9. CASE StartedSend(t)
  BY <1>9 DEF StartedSend, PromptBody, Drain, Leave
<1>10. CASE WritePrompt(t)
  BY <1>10 DEF WritePrompt, Drain
<1>11. CASE DrainReturns(t)
  BY <1>11 DEF DrainReturns, Leave
<1>12. CASE DrainRaises(t)
  BY <1>12 DEF DrainRaises, Leave
<1>13. CASE RestartSkipped(t)
  BY <1>13 DEF RestartSkipped, Leave
<1>14. CASE RestartBegins(t)
  BY <1>14 DEF RestartBegins, Enter
<1>15. CASE StopBegins(t)
  BY <1>15 DEF StopBegins, Enter
<1>16. CASE Terminate(t)
  BY <1>16 DEF Terminate
<1>17. CASE Reap(t)
  BY <1>17 DEF Reap
<1>18. CASE StopReturns(t)
  BY <1>18 DEF StopReturns, BeginSpawn, Leave
<1> QED
  BY <1>1, <1>2, <1>3, <1>4, <1>5, <1>6, <1>7, <1>8, <1>9, <1>10, <1>11, <1>12, <1>13, <1>14,
     <1>15, <1>16, <1>17, <1>18 DEF CallStep

LEMMA LoopStatus ==
  ASSUME StatusInv, NEW l \in Loops, LoopStep(l) PROVE StatusInv'
<1> USE DEF StatusInv, QuietMeansNotBusy, SpawnsIdle, IsBusy, loopOnly, lockVars
<1>1. CASE LoopReads(l)
  BY <1>1 DEF LoopReads, Crash, Take, EndOfStream
<1>2. CASE LoopWakes(l)
  BY <1>2 DEF LoopWakes, Crash, Take, EndOfStream
<1>3. CASE LoopHandles(l)
  BY <1>3 DEF LoopHandles, HandleDone, HandleInitOk, HandleRequest
<1>4. CASE EofReaped(l)
  BY <1>4 DEF EofReaped, Crash
<1>5. CASE EofClears(l)
  BY <1>5 DEF EofClears, Crash
<1>6. CASE EofEmits(l)
  BY <1>6 DEF EofEmits, Crash
<1> QED
  BY <1>1, <1>2, <1>3, <1>4, <1>5, <1>6 DEF LoopStep

LEMMA WorkerStatus ==
  ASSUME StatusInv, NEW g \in Gens, WorkerStep(g) PROVE StatusInv'
<1>1. UNCHANGED <<pc, inFlight, status>>
  BY DEF WorkerStep, WorkerReads, WorkerAsks, TurnEnds, WorkerCloses, WorkerExits, workerOnly, lockVars
<1> QED
  BY <1>1 DEF StatusInv, QuietMeansNotBusy, SpawnsIdle, IsBusy

LEMMA StatusStep == StatusInv /\ [Next]_vars => StatusInv'
<1> SUFFICES ASSUME StatusInv, [Next]_vars PROVE StatusInv'
  OBVIOUS
<1>1. CASE AdminCall
  BY <1>1 DEF AdminCall, StatusInv, QuietMeansNotBusy, SpawnsIdle, IsBusy
<1>2. CASE UNCHANGED vars
  BY <1>2 DEF vars, lockVars, StatusInv, QuietMeansNotBusy, SpawnsIdle, IsBusy
<1> QED
  BY <1>1, <1>2, ClientStatus, CallStatus, LoopStatus, WorkerStatus DEF Next

-----------------------------------------------------------------------------
(* The initialize handshake.                                               *)

Running == proc # 0 /\ wst[proc] = "running"

\* _worker_initialized says whether the running worker was sent an initialize.
SentWhenFlagged == Running => inits[proc] = IF initialized THEN 1 ELSE 0
FlaggedWhenCached == Running /\ cachedInit # None => initialized
\* A worker that was sent one and has not answered is waited for by id.
AwaitedWhenFlagged == initialized /\ ~cachedResult => pendingInit # None

\* Ids are queued only while the first answer is awaited.
DedupedWhileAwaited ==
  deduped # <<>> => initialized /\ pendingInit # None /\ ~cachedResult

InitTyped ==
  /\ wst \in [Gens -> {"unborn", "running", "closing", "dead"}] /\ inits \in [Gens -> Nat]
  /\ cachedInit \in Inits \cup {None} /\ pendingInit \in Inits \cup {None}
FlagsTyped == initialized \in BOOLEAN /\ cachedResult \in BOOLEAN

InitInv ==
  /\ InitTyped /\ FlagsTyped
  /\ SentWhenFlagged /\ FlaggedWhenCached /\ AwaitedWhenFlagged
  /\ InitializeOnce /\ DedupedWhileAwaited

LEMMA InitInit == Init => InitInv
<1> SUFFICES ASSUME Init PROVE InitInv
  OBVIOUS
<1>1. InitTyped /\ InitializeOnce
  BY DEF Init, InitTyped, InitializeOnce
<1>2. FlagsTyped /\ SentWhenFlagged /\ FlaggedWhenCached
  BY Zenon DEF Init, FlagsTyped, SentWhenFlagged, FlaggedWhenCached, Running
<1>3. AwaitedWhenFlagged /\ DedupedWhileAwaited
  BY Zenon DEF Init, AwaitedWhenFlagged, DedupedWhileAwaited
<1> QED
  BY <1>1, <1>2, <1>3 DEF InitInv

\* Steps that leave the handshake alone; they may end a worker.
LEMMA InitFrame ==
  ASSUME InitInv, ControlInv, UNCHANGED <<initVars, inits>>,
         \/ UNCHANGED <<proc, wst>>
         \/ proc' = 0 /\ InitTyped'
         \/ UNCHANGED proc /\ InitTyped' /\ (Running' => Running)
  PROVE  InitInv'
BY DEF InitInv, InitTyped, FlagsTyped, SentWhenFlagged, FlaggedWhenCached, AwaitedWhenFlagged,
  InitializeOnce, DedupedWhileAwaited, Running, initVars

\* A worker that ends is not running afterwards, and the others are as before.
LEMMA KillFrame ==
  ASSUME InitInv, NEW g \in Gens, Kill(g) \/ wst' = [wst EXCEPT ![g] = "closing"],
         UNCHANGED <<cachedInit, pendingInit, inits>>
  PROVE  InitTyped' /\ (UNCHANGED proc /\ proc \in Gens \cup {0} => (Running' => Running))
BY DEF InitInv, InitTyped, Kill, Running

LEMMA DeliverCounts ==
  ASSUME inits \in [Gens -> Nat], NEW g \in Gens, NEW m, Deliver(g, m)
  PROVE /\ inits' \in [Gens -> Nat]
        /\ \A h \in Gens : inits'[h] = IF h = g /\ wst[g] = "running" /\ m.kind = "init"
                                         THEN inits[h] + 1 ELSE inits[h]
BY DEF Deliver

LEMMA ForwardInit ==
  ASSUME InitInv, proc \in Gens, NEW m \in InMsg, Forward(m), UNCHANGED <<proc, wst, cachedResult>>,
         cachedInit' \in Inits \cup {None}, m.kind # "init" => cachedInit' = cachedInit
  PROVE  InitInv'
<1> USE DEF InitInv
<1>1. CASE m.kind = "init" /\ initialized
  BY <1>1, SMT DEF Forward, InitTyped, FlagsTyped, SentWhenFlagged, FlaggedWhenCached, AwaitedWhenFlagged,
    InitializeOnce, DedupedWhileAwaited, Running, InMsg, Gens
<1>2. CASE m.kind = "init" /\ ~initialized
  <2>1. m.id \in Inits /\ m.id # None
    BY <1>2, SessionAssumption DEF InMsg, SessionAssumption
  <2>2. CASE UNCHANGED <<initialized, pendingInit, deduped, stdin, inits>> /\ wst[proc] # "running"
    BY <2>1, <2>2, <1>2 DEF InitTyped, FlagsTyped, SentWhenFlagged, FlaggedWhenCached, AwaitedWhenFlagged,
      InitializeOnce, DedupedWhileAwaited, Running
  <2>3. CASE Deliver(proc, m) /\ initialized' = TRUE /\ pendingInit' = m.id /\ UNCHANGED deduped
    <3>1. inits \in [Gens -> Nat] /\ \A g \in Gens : inits[g] \in Nat
      BY DEF InitTyped
    <3>2. /\ inits' \in [Gens -> Nat]
          /\ \A h \in Gens : inits'[h] = IF h = proc /\ wst[proc] = "running" THEN inits[h] + 1 ELSE inits[h]
      BY <1>2, <2>3, <3>1, DeliverCounts
    <3>3. wst[proc] = "running" => inits[proc] = 0
      BY <1>2 DEF SentWhenFlagged, Running, Gens
    <3>4. InitializeOnce' /\ SentWhenFlagged'
      BY <3>1, <3>2, <3>3, <2>3 DEF InitializeOnce, SentWhenFlagged, Running
    <3>5. InitTyped' /\ FlagsTyped' /\ FlaggedWhenCached' /\ AwaitedWhenFlagged'
      BY <2>1, <2>3, <3>2, <1>2 DEF InitTyped, FlagsTyped, FlaggedWhenCached, AwaitedWhenFlagged
    <3>6. DedupedWhileAwaited'
      BY <1>2, <2>3 DEF DedupedWhileAwaited
    <3> QED
      BY <3>4, <3>5, <3>6
  <2> QED
    BY <1>2, <2>2, <2>3 DEF Forward
<1>3. CASE m.kind \in {"resp", "cancel"}
  <2>1. UNCHANGED <<initialized, pendingInit, deduped, cachedInit>>
    BY <1>3 DEF Forward
  <2>2. inits' \in [Gens -> Nat] /\ \A h \in Gens : inits'[h] = inits[h]
    <3>1. inits \in [Gens -> Nat]
      BY DEF InitTyped
    <3>2. UNCHANGED inits \/ Deliver(proc, m)
      BY <1>3 DEF Forward
    <3> QED
      BY <1>3, <3>1, <3>2, DeliverCounts
  <2> QED
    BY <2>1, <2>2 DEF InitTyped, FlagsTyped, SentWhenFlagged, FlaggedWhenCached,
      AwaitedWhenFlagged, InitializeOnce, DedupedWhileAwaited, Running
<1> QED
  BY <1>1, <1>2, <1>3 DEF Forward

\* Writing a prompt changes no count.
LEMMA PromptFrame ==
  ASSUME InitInv, proc \in Gens, NEW m, m.kind = "prompt", Deliver(proc, m),
         UNCHANGED <<initVars, proc, wst>>
  PROVE  InitInv'
<1>1. inits' \in [Gens -> Nat] /\ \A h \in Gens : inits'[h] = inits[h]
  <2>1. inits \in [Gens -> Nat]
    BY DEF InitInv, InitTyped
  <2> QED
    BY <2>1, DeliverCounts
<1> QED
  BY <1>1 DEF InitInv, InitTyped, FlagsTyped, SentWhenFlagged, FlaggedWhenCached, AwaitedWhenFlagged,
    InitializeOnce, DedupedWhileAwaited, Running, initVars

LEMMA SpawnInit ==
  ASSUME ControlInv, InitInv, NEW t \in Tasks, SpawnWorks(t) PROVE InitInv'
<1> USE DEF InitInv
<1>1. gen + 1 \in Gens /\ proc' = gen + 1 /\ proc' # 0
  BY SessionAssumption DEF SpawnWorks, ControlInv, Gens, SessionAssumption
<1>2. InitTyped'
  <2>1. /\ UNCHANGED cachedInit /\ pendingInit' \in {cachedInit, None}
        /\ \E st \in {"running", "closing"} : wst' = [wst EXCEPT ![gen + 1] = st]
    BY DEF SpawnWorks
  <2>2. inits' = inits \/ \E n \in {0, 1} : inits' = [inits EXCEPT ![gen + 1] = n]
    BY Zenon DEF SpawnWorks
  <2> QED
    BY <1>1, <2>1, <2>2 DEF InitTyped
<1>3. FlagsTyped'
  BY Zenon DEF SpawnWorks, FlagsTyped, Replays
<1>4. DedupedWhileAwaited' /\ AwaitedWhenFlagged'
  BY Zenon DEF SpawnWorks, Replays, DedupedWhileAwaited, AwaitedWhenFlagged
<1>5. InitializeOnce'
  BY <1>1 DEF SpawnWorks, InitTyped, InitializeOnce
<1>6. SentWhenFlagged' /\ FlaggedWhenCached'
  <2>1. CASE wst' = [wst EXCEPT ![gen + 1] = "closing"]
    <3>1. wst'[proc'] = "closing"
      BY <1>1, <2>1 DEF InitTyped
    <3> QED
      BY <3>1 DEF SentWhenFlagged, FlaggedWhenCached, Running
  <2>2. CASE inits' = [inits EXCEPT ![gen + 1] = IF Replays THEN 1 ELSE 0]
              /\ initialized' = Replays /\ cachedInit' = cachedInit
    <3>1. inits'[proc'] = IF Replays THEN 1 ELSE 0
      BY <1>1, <2>2 DEF InitTyped
    <3>2. SentWhenFlagged'
      BY <3>1, <2>2, Zenon DEF SentWhenFlagged
    <3>3. FlaggedWhenCached'
      BY <2>2, Zenon DEF FlaggedWhenCached, Replays
    <3> QED
      BY <3>2, <3>3
  <2> QED
    BY <2>1, <2>2 DEF SpawnWorks
<1> QED
  BY <1>2, <1>3, <1>4, <1>5, <1>6

LEMMA SendInit ==
  ASSUME ControlInv, InitInv, NEW c \in Tasks, SendControl(c) PROVE InitInv'
<1> DEFINE m == call[c].msg
<1>1. m \in InMsg /\ (m.kind = "init" => m.id \in Inits)
  BY DEF SendControl, ControlInv, CallOK, Calls, InMsg
<1>2. /\ m.kind = "init" => cachedInit' = m.id
      /\ m.kind # "init" => cachedInit' = cachedInit
      /\ UNCHANGED <<proc, wst, cachedResult>>
  BY DEF SendControl
<1>3. CASE IsAlive
  <2>1. proc \in Gens /\ Forward(m)
    BY <1>3 DEF SendControl, IsAlive, ControlInv, Gens
  <2>2. cachedInit' \in Inits \cup {None}
    BY <1>1, <1>2 DEF InitInv, InitTyped
  <2> QED
    BY <1>1, <1>2, <2>1, <2>2, ForwardInit
<1>4. CASE ~IsAlive
  <2>1. UNCHANGED <<initialized, pendingInit, deduped, inits>>
    BY <1>4 DEF SendControl
  <2>2. ~Running /\ ~Running'
    BY <1>2, <1>4 DEF Running, IsAlive
  <2> QED
    BY <1>1, <1>2, <2>1, <2>2 DEF InitInv, InitTyped, FlagsTyped, SentWhenFlagged, FlaggedWhenCached,
      AwaitedWhenFlagged, InitializeOnce, DedupedWhileAwaited
<1> QED
  BY <1>3, <1>4

LEMMA StartedSendInit ==
  ASSUME ControlInv, InitInv, NEW c \in Tasks, StartedSend(c) PROVE InitInv'
<1> DEFINE m == call[c].msg
<1>1. m \in InMsg /\ proc \in Gens
  BY DEF StartedSend, ControlInv, CallOK, Calls, HasWorker, Gens
<1>2. UNCHANGED <<proc, wst, cachedInit, cachedResult>>
  BY DEF StartedSend, procVars
<1>3. CASE m.kind = "prompt"
  <2>1. UNCHANGED initVars /\ (UNCHANGED inits \/ Deliver(proc, m))
    BY <1>2, <1>3 DEF StartedSend, PromptBody, initVars
  <2> QED
    BY <1>1, <1>2, <1>3, <2>1, PromptFrame, InitFrame
<1>4. CASE m.kind # "prompt"
  <2>1. Forward(m) /\ cachedInit' \in Inits \cup {None}
    BY <1>2, <1>4 DEF StartedSend, InitInv, InitTyped
  <2> QED
    BY <1>1, <1>2, <2>1, ForwardInit
<1> QED
  BY <1>3, <1>4

LEMMA CallInit ==
  ASSUME ControlInv, InitInv, NEW t \in Tasks, CallStep(t) PROVE InitInv'
<1>1. CASE Start(t) \/ SendPrompt(t) \/ GateRefuses(t) \/ SpawnFails(t) \/ Started(t) \/ DrainReturns(t)
             \/ DrainRaises(t) \/ RestartSkipped(t) \/ RestartBegins(t) \/ StopBegins(t) \/ Terminate(t)
             \/ StopReturns(t)
  <2>1. UNCHANGED <<initVars, inits, proc, wst>>
    BY <1>1 DEF Start, SendPrompt, GateRefuses, SpawnFails, Started, DrainReturns, DrainRaises,
      RestartSkipped, RestartBegins, StopBegins, Terminate, StopReturns, procVars, workVars
  <2> QED
    BY <2>1, InitFrame
<1>2. CASE GatePasses(t)
  <2>1. UNCHANGED <<initVars, proc, wst>>
    BY <1>2 DEF GatePasses
  <2>2. UNCHANGED inits \/ (proc \in Gens /\ call[t].msg.kind = "prompt" /\ Deliver(proc, call[t].msg))
    BY <1>2 DEF GatePasses, PromptBody, IsAlive, ControlInv, PromptHeld, Gens
  <2> QED
    BY <2>1, <2>2, PromptFrame, InitFrame
<1>3. CASE WritePrompt(t)
  <2>1. proc \in Gens /\ call[t].msg.kind = "prompt"
    BY <1>3 DEF WritePrompt, ControlInv, PromptHeld, HasWorker, Gens
  <2> QED
    BY <1>3, <2>1, PromptFrame DEF WritePrompt, procVars
<1>4. CASE Reap(t)
  <2>1. InitTyped'
    BY <1>4, KillFrame DEF Reap, initVars, InitInv, InitTyped, ControlInv, Gens
  <2> QED
    BY <1>4, <2>1, InitFrame DEF Reap
<1> QED
  BY <1>1, <1>2, <1>3, <1>4, SpawnInit, SendInit, StartedSendInit DEF CallStep

LEMMA LoopInit ==
  ASSUME ControlInv, InitInv, NEW l \in Loops, LoopStep(l) PROVE InitInv'
<1>1. CASE LoopReads(l) \/ LoopWakes(l) \/ EofClears(l) \/ EofEmits(l)
  <2>1. UNCHANGED <<initVars, inits, proc, wst>>
    BY <1>1 DEF LoopReads, LoopWakes, EofClears, EofEmits, loopOnly, workVars
  <2> QED
    BY <2>1, InitFrame
<1>2. CASE EofReaped(l)
  <2>1. UNCHANGED <<initVars, inits, proc>>
    BY <1>2 DEF EofReaped, loopOnly, workVars
  <2>2. UNCHANGED wst \/ (proc \in Gens /\ Kill(proc))
    BY <1>2 DEF EofReaped, workVars, ControlInv, Gens
  <2> QED
    BY <2>1, <2>2, KillFrame, InitFrame DEF initVars
<1>3. CASE LoopHandles(l)
  <2>1. UNCHANGED <<proc, cachedInit, initialized, wst, inits>>
    BY <1>3 DEF LoopHandles, loopOnly, workVars
  <2>2. \/ UNCHANGED <<pendingInit, cachedResult, deduped>>
        \/ cachedResult' = TRUE /\ pendingInit' = None /\ deduped' = <<>>
    BY <1>3 DEF LoopHandles, HandleDone, HandleInitOk, HandleRequest
  <2>3. InitTyped' /\ SentWhenFlagged' /\ FlaggedWhenCached' /\ InitializeOnce'
    BY <2>1, <2>2 DEF InitInv, InitTyped, Running, SentWhenFlagged, FlaggedWhenCached, InitializeOnce
  <2>4. FlagsTyped' /\ AwaitedWhenFlagged' /\ DedupedWhileAwaited'
    <3>1. initialized' = initialized
      BY <2>1
    <3>2. CASE pendingInit' = pendingInit /\ cachedResult' = cachedResult /\ deduped' = deduped
      BY <3>1, <3>2, Zenon DEF InitInv, FlagsTyped, AwaitedWhenFlagged, DedupedWhileAwaited
    <3>3. CASE cachedResult' = TRUE /\ deduped' = <<>>
      BY <3>1, <3>3, Zenon DEF InitInv, FlagsTyped, AwaitedWhenFlagged, DedupedWhileAwaited
    <3> QED
      BY <2>2, <3>2, <3>3
  <2> QED
    BY <2>3, <2>4 DEF InitInv
<1> QED
  BY <1>1, <1>2, <1>3 DEF LoopStep

LEMMA WorkerInit ==
  ASSUME ControlInv, InitInv, NEW g \in Gens, WorkerStep(g) PROVE InitInv'
<1>1. UNCHANGED <<initVars, inits, proc>>
  BY DEF WorkerStep, WorkerReads, WorkerAsks, TurnEnds, WorkerCloses, WorkerExits, workerOnly, procVars
<1>2. UNCHANGED wst \/ Kill(g) \/ wst' = [wst EXCEPT ![g] = "closing"]
  BY DEF WorkerStep, WorkerReads, WorkerAsks, TurnEnds, WorkerCloses, WorkerExits
<1>3. proc \in Gens \cup {0}
  BY DEF ControlInv, Gens
<1> QED
  BY <1>1, <1>2, <1>3, KillFrame, InitFrame DEF initVars

LEMMA InitStep == ControlInv /\ InitInv /\ [Next]_vars => InitInv'
<1> SUFFICES ASSUME ControlInv, InitInv, [Next]_vars PROVE InitInv'
  OBVIOUS
<1>1. CASE AdminCall \/ UNCHANGED vars \/ \E c \in Clients : ClientStep(c)
  <2>1. UNCHANGED <<initVars, inits, proc, wst>>
    BY <1>1 DEF AdminCall, vars, ClientStep, StreamConnect, StreamPrompt, StreamOther, TokenRefresh,
      procVars, workVars
  <2> QED
    BY <2>1, InitFrame
<1> QED
  BY <1>1, CallInit, LoopInit, WorkerInit DEF Next

-----------------------------------------------------------------------------
(* The theorems.                                                           *)

\* A status that invites a prompt, or says there is no worker, is only shown
\* while no prompt is in flight.
THEOREM QuietCorrect == Spec => []QuietMeansNotBusy
<1>1. StatusInv => QuietMeansNotBusy
  BY DEF StatusInv
<1> QED
  BY <1>1, StatusInit, StatusStep, PTL DEF Spec

LEMMA HandshakeInv == Spec => [](ControlInv /\ InitInv)
BY ControlInit, ControlStep, InitInit, InitStep, PTL DEF Spec

\* No running worker is ever sent a second initialize.
THEOREM InitializeOnceCorrect == Spec => []InitializeOnce
<1>1. InitInv => InitializeOnce
  BY DEF InitInv
<1> QED
  BY <1>1, HandshakeInv, PTL

\* Once a client has initialized, every running worker has been sent one,
\* whenever the lock is free.
THEOREM InitializeRestoredCorrect == Spec => []InitializeRestored
<1>1. InitInv => InitializeRestored
  BY DEF InitInv, SentWhenFlagged, FlaggedWhenCached, Running, InitializeRestored
<1> QED
  BY <1>1, HandshakeInv, PTL
=============================================================================
