------------------------------ MODULE AgentTurn ------------------------------
(***************************************************************************)
(* One agent's turn loop over its context: KimiSoul.run, _turn,            *)
(* _agent_loop, _step and compact_context (soul/kimisoul.py) with the      *)
(* Context they write (soul/context.py) and the D-Mail box of the agents   *)
(* that have the SendDMail tool (soul/denwarenji.py).                      *)
(*                                                                         *)
(* The context lives twice: in memory and as lines of context.jsonl.  A    *)
(* call on it is a job: a sequence of small instructions, each ended by an *)
(* await of the code, where the turn can be cancelled and another task can *)
(* run.  The turn has one job at a time; _grow_context is shielded, a job  *)
(* of its own that goes on when the turn that started it is cancelled.     *)
(***************************************************************************)
EXTENDS Integers, SequencesExt, FiniteSetsExt

CONSTANTS
    Budgets,   \* how often the bounded events may happen: turns, steers, notes,
               \* mails, compactions, hooks, cancels, crashes, failing writes
    MaxSteps   \* loop_control.max_steps_per_turn

Events == {"turn", "steer", "note", "mail", "compact", "hook", "cancel", "crash", "fail"}

ASSUME AgentTurnAssumption ==
    /\ Budgets \subseteq [Events -> Nat]
    /\ MaxSteps \in Nat \ {0}

VARIABLES
    left,     \* [Events -> Nat]: what is left of the budget (a bound)
    pc,       \* where the turn is: see Phases
    step,     \* step_no of the loop
    attempt,  \* _overflow_attempt of the step
    hooked,   \* _stop_hook_active: the Stop hook has restarted the turn
    ctx,      \* Context in memory: history, next checkpoint id, messages not counted yet
    file,     \* context.jsonl: its lines
    job,      \* what the turn has still to do on the context
    grow,     \* what the shielded _grow_context has still to do
    draft,    \* the messages a compaction will leave, fixed when it starts
    reply,    \* the model's answer to the step, if any: a call or a text
    queue,    \* _steer_queue
    mail,     \* DenwaRenji._pending_dmail
    known,    \* DenwaRenji._n_checkpoints
    serial,   \* numbers the messages
    aim,      \* the D-Mail being applied (history)
    past,     \* the history behind each checkpoint, by its id (history)
    era,      \* how often the checkpoints were numbered anew (history)
    steered,  \* steers accepted by the running loop (history)
    heard,    \* steers taken from the queue that the model has not been shown yet (history)
    torn,     \* a cancel cut a job, a write failed, or a turn met another turn's
              \* _grow_context (history)
    stray     \* a turn began before _grow_context was through, or a crash left a cut file (history)

vars == <<left, pc, step, attempt, hooked, ctx, file, job, grow, draft, reply, queue,
          mail, known, serial, aim, past, era, steered, heard, torn, stray>>

soul    == <<step, attempt, hooked, draft, reply>>
context == <<ctx, file, job, grow>>
denwa   == <<mail, known, aim>>
seen    == <<past, era, steered, heard, torn, stray>>

Phases == {"idle", "prompt", "opening", "top", "checkpoint", "step", "ask", "tools",
           "growing", "reverting", "between", "finishing", "closing", "command",
           "compact_first", "compact_retry", "compact_command", "down"}

\* The agent loop runs: from the discard of old steers to the outcome of the turn.
InLoop == pc \in {"top", "checkpoint", "step", "ask", "tools", "growing", "reverting",
                  "between", "finishing", "compact_first", "compact_retry"}

-----------------------------------------------------------------------------
\* Messages and lines.  A message is <<kind, number>>; the file has a line for each
\* message, each checkpoint and each token count.

Kinds    == {"user", "steer", "note", "mark", "call", "text", "result", "mail", "summary"}
Line(id) == <<"checkpoint", id>>
Usage    == <<"usage", 0>>

Places(s, Holds(_)) == {i \in DOMAIN s : Holds(s[i])}

Empty == [hist |-> <<>>, next |-> 0, pend |-> 0]

\* What a line adds to the context that is being read.
Apply(c, line) ==
    CASE line[1] = "checkpoint" -> [c EXCEPT !.next = line[2] + 1]
      [] line[1] = "usage" -> [c EXCEPT !.pend = 0]
      [] OTHER -> [c EXCEPT !.hist = Append(@, line), !.pend = @ + 1]

\* What restore() makes of a file: Context in memory after reading every line.
Restored(lines) ==
    LET read[n \in 0 .. Len(lines)] ==
            IF n = 0 THEN Empty ELSE Apply(read[n - 1], lines[n])
    IN  read[Len(lines)]

\* mutant: the checkpoints go on from the old number
WipedKeepingIds == [Empty EXCEPT !.next = ctx.next]

\* clear() resets the history, the counts and the checkpoint ids.
Wiped == Empty

\* The checkpoints that have a line in the file.
Marks(lines) == {l[2] : l \in {m \in ToSet(lines) : m[1] = "checkpoint"}}

\* mutant: the search stops at the checkpoint after the one asked for
KeptNext(lines, id) ==
    LET marks == Places(lines, LAMBDA l : l = Line(id + 1))
    IN  IF marks = {} THEN lines ELSE SubSeq(lines, 1, Min(marks) - 1)

\* The lines revert_to(id) keeps: those before the checkpoint's own, or all.
Kept(lines, id) ==
    LET marks == Places(lines, LAMBDA l : l = Line(id))
    IN  IF marks = {} THEN lines ELSE SubSeq(lines, 1, Min(marks) - 1)

\* SimpleCompaction.prepare: the tail of the history that starts at the n-th message of
\* the user or the model from the end.
Preserved(hist, n) ==
    LET said == Places(hist, LAMBDA m : m[1] # "result")
    IN  SubSeq(hist, Max({i \in said : Cardinality({j \in said : j >= i}) = n}), Len(hist))

-----------------------------------------------------------------------------
\* Jobs: the context calls as instructions.

Say(ms)      == <<[op |-> "say", ms |-> ms], [op |-> "put", ms |-> ms]>>
Count        == <<[op |-> "count", ms |-> <<>>], [op |-> "put", ms |-> <<Usage>>]>>
Checkpoint   == <<[op |-> "mark", ms |-> <<>>]>>
Clear        == <<[op |-> "clear", ms |-> <<>>]>>
RevertTo(id) == <<[op |-> "revert", ms |-> <<Line(id)>>]>>

\* append_message: the history at once, then the lines.
Said(c, ms) == [c EXCEPT !.hist = @ \o ms, !.pend = @ + Len(ms)]

\* What an instruction does to the context and the file, and what it goes on to.
Effect(do) ==
    LET at(c, f, more) == [ctx |-> c, file |-> f, more |-> more] IN
    CASE do.op = "say"    -> at(Said(ctx, do.ms), file, <<>>)
      [] do.op = "put"    -> at(ctx, file \o do.ms, <<>>)
      [] do.op = "count"  -> at([ctx EXCEPT !.pend = 0], file, <<>>)
      [] do.op = "mark"   -> at([ctx EXCEPT !.next = @ + 1], file,
                                <<[op |-> "put", ms |-> <<Line(ctx.next)>>]>>
                                \o Say(<<<<"mark", ctx.next>>>>))
      [] do.op = "clear"  -> at(ctx, <<>>, <<[op |-> "wipe", ms |-> <<>>]>>)
      [] do.op = "wipe"   -> at(Wiped, file, <<>>)
      [] do.op = "revert" -> at(ctx, <<>>, <<[op |-> "load", ms |-> Kept(file, do.ms[1][2])]>>)
      [] do.op = "load"   -> at(Restored(do.ms), do.ms, <<>>)

\* The history behind each checkpoint: noted when it is made, forgotten with it.
Past(do) ==
    CASE do.op = "mark" -> [id \in {i \in DOMAIN past : i < ctx.next} \cup {ctx.next} |->
                               IF id = ctx.next THEN ctx.hist ELSE past[id]]
      [] do.op = "wipe" -> <<>>
      [] do.op = "load" -> Restrict(past, {i \in DOMAIN past : i < Restored(do.ms).next})
      [] OTHER -> past

\* mutant: a line that is kept is written before it is applied
FailuresFileFirst(do) ==
    LET at(c, f) == [ctx |-> c, file |-> f] IN
    CASE do.op = "load" -> {at(Restored(SubSeq(do.ms, 1, n - 1)), SubSeq(do.ms, 1, n)) : n \in 1 .. Len(do.ms)}
      [] OTHER -> {at(ctx, file)}

\* What a failing instruction may have done: lines written in part, a file moved away, a
\* history half rebuilt with fewer lines written than applied.
Failures(do) ==
    LET at(c, f) == [ctx |-> c, file |-> f] IN
    CASE do.op = "put"   -> {at(ctx, file \o SubSeq(do.ms, 1, n)) : n \in 0 .. Len(do.ms)}
      [] do.op = "clear" -> {at(ctx, file), at(ctx, <<>>)}
      [] do.op = "load"  -> {at(Restored(SubSeq(do.ms, 1, p[1])), SubSeq(do.ms, 1, p[2])) :
                                p \in {q \in (0 .. Len(do.ms)) \X (0 .. Len(do.ms)) : q[2] <= q[1]}}
      [] OTHER -> {at(ctx, file)}

\* What an interrupted one may have done: as much, or no more than to move the file away.
Cuts(do) ==
    LET at(c, f) == [ctx |-> c, file |-> f] IN
    Failures(do) \cup CASE do.op = "revert" -> {at(ctx, <<>>)}
                        [] do.op = "load" -> {at(ctx, file)}
                        [] OTHER -> {}

-----------------------------------------------------------------------------
Init ==
    /\ left \in Budgets
    /\ pc = "idle" /\ step = 0 /\ attempt = 0 /\ hooked = FALSE
    /\ draft = <<>> /\ reply = <<>>
    /\ ctx = Empty /\ file = <<>> /\ job = <<>> /\ grow = <<>>
    /\ queue = <<>> /\ serial = 0
    /\ mail = {} /\ known = 0 /\ aim = {}
    /\ past = <<>> /\ era = 0
    /\ steered = {} /\ heard = {} /\ torn = FALSE /\ stray = FALSE

Spend(e) == left[e] > 0 /\ left' = [left EXCEPT ![e] = @ - 1]

\* The turn is at p with nothing left to write.
At(p) == pc = p /\ job = <<>>

-----------------------------------------------------------------------------
\* The context's tasks run their instructions.

TurnRuns ==
    /\ job # <<>>
    /\ LET do == Head(job) IN
       /\ ctx' = Effect(do).ctx /\ file' = Effect(do).file
       /\ job' = Effect(do).more \o Tail(job)
       /\ past' = Past(do)
       /\ era' = IF do.op = "wipe" THEN era + 1 ELSE era
       /\ aim' = IF do.op = "load" THEN {} ELSE aim
    /\ UNCHANGED <<left, pc, soul, grow, queue, mail, known, serial, steered, heard, torn, stray>>

GrowRuns ==
    /\ grow # <<>>
    /\ ctx' = Effect(Head(grow)).ctx /\ file' = Effect(Head(grow)).file
    /\ grow' = Tail(grow)
    /\ UNCHANGED <<left, pc, soul, job, queue, denwa, serial, seen>>

\* The run is over; a turn that raises or is cancelled ends the same way.
Ends ==
    /\ pc' = "idle" /\ step' = 0 /\ attempt' = 0 /\ hooked' = FALSE
    /\ draft' = <<>> /\ reply' = <<>> /\ aim' = {}

\* The file cannot be written.  The turn fails, but not over a notification: the loop
\* that delivers it goes on, with the message in memory alone.
WriteFails ==
    /\ job # <<>> /\ Spend("fail")
    /\ Head(job).op \in {"put", "clear", "revert", "load"}
    /\ \E cut \in Failures(Head(job)) : ctx' = cut.ctx /\ file' = cut.file
    /\ job' = <<>> /\ torn' = TRUE
    /\ \/ Ends
       \/ pc = "ask" /\ UNCHANGED <<pc, soul, aim>>
    /\ UNCHANGED <<grow, queue, mail, known, serial, past, era, steered, heard, stray>>

\* Nor can _grow_context write: what it had still to say is lost, and the turn that waits
\* for it fails, if it still does.
GrowFails ==
    /\ grow # <<>> /\ Head(grow).op = "put" /\ Spend("fail")
    /\ \E cut \in Failures(Head(grow)) : file' = cut.file
    /\ grow' = <<>> /\ torn' = TRUE
    /\ IF pc = "growing" THEN Ends ELSE UNCHANGED <<pc, soul, aim>>
    /\ UNCHANGED <<ctx, job, queue, mail, known, serial, past, era, steered, heard, stray>>

-----------------------------------------------------------------------------
\* The run: a prompt, its hooks, a command or a turn.

\* A prompt that comes while an old _grow_context still writes shares the context with it.
Prompt ==
    /\ pc = "idle" /\ Spend("turn")
    /\ pc' = "prompt"
    /\ torn' = (torn \/ grow # <<>>) /\ stray' = (stray \/ grow # <<>>)
    /\ UNCHANGED <<soul, context, queue, denwa, serial, past, era, steered, heard>>

\* The user's message goes in after a checkpoint; the Stop hook's reason likewise, once.
OpenTurn ==
    /\ \/ pc = "prompt" /\ UNCHANGED <<left, hooked>>
       \/ At("closing") /\ ~hooked /\ hooked' = TRUE /\ Spend("hook")
    /\ pc' = "opening"
    /\ job' = Checkpoint \o Say(<<<<"user", serial>>>>) /\ serial' = serial + 1
    /\ UNCHANGED <<step, attempt, draft, reply, ctx, file, grow, queue, denwa, seen>>

\* /clear.
ClearCommand ==
    /\ pc = "prompt"
    /\ pc' = "command" /\ job' = Clear
    /\ UNCHANGED <<left, soul, ctx, file, grow, queue, denwa, serial, seen>>

\* The steers still in the queue are dropped as stale.
BeginLoop ==
    /\ At("opening")
    /\ pc' = "top" /\ step' = 0
    /\ queue' = <<>> /\ steered' = {} /\ heard' = {}
    /\ UNCHANGED <<left, attempt, hooked, draft, reply, context, denwa, serial, past, era, torn, stray>>

EndRun ==
    /\ At("closing") \/ pc = "prompt"
    /\ Ends
    /\ UNCHANGED <<left, context, queue, mail, known, serial, seen>>

CommandDone ==
    /\ At("command")
    /\ pc' = "closing"
    /\ UNCHANGED <<left, soul, context, queue, denwa, serial, seen>>

\* The model or the compaction fails, or the steps are used up.
Raise ==
    /\ \/ pc \in {"compact_first", "compact_retry", "compact_command", "ask"} /\ job = <<>>
       \/ At("top") /\ step = MaxSteps
    /\ Ends
    /\ UNCHANGED <<left, context, queue, mail, known, serial, seen>>

-----------------------------------------------------------------------------
\* Compaction.

\* What it will leave is fixed before the model is asked for the summary.
Compact(p) ==
    /\ Spend("compact")
    /\ pc' = p
    /\ LET said == Places(ctx.hist, LAMBDA m : m[1] # "result") IN
       \/ \E n \in 0 .. Min({2, Cardinality(said)}) :
             LET tail == IF n = 0 THEN <<>> ELSE Preserved(ctx.hist, n)
             IN  draft' = IF tail = ctx.hist THEN tail ELSE <<<<"summary", 0>>>> \o tail
       \/ Cardinality(said) < 2 /\ draft' = ctx.hist

CompactCommand ==
    /\ pc = "prompt" /\ ctx.next > 0
    /\ Compact("compact_command")
    /\ UNCHANGED <<step, attempt, hooked, reply, context, queue, denwa, serial, seen>>

\* The context is cleared and built again from the draft, with the active tasks if any.
Rebuild ==
    /\ At("compact_first") \/ At("compact_retry") \/ At("compact_command")
    /\ \E tasks \in {<<>>, Say(<<<<"note", 0>>>>)} :
          job' = Clear \o Checkpoint \o Say(draft) \o tasks \o Count
                 \o (IF pc = "compact_first" THEN Checkpoint ELSE <<>>)
    /\ pc' = CASE pc = "compact_first" -> "checkpoint"
               [] pc = "compact_retry" -> "step"
               [] pc = "compact_command" -> "closing"
    /\ draft' = <<>>
    /\ UNCHANGED <<left, step, attempt, hooked, reply, ctx, file, grow, queue, denwa, serial, seen>>

-----------------------------------------------------------------------------
\* The step.

\* mutant: one step too many
BeginStepLate ==
    /\ At("top")
    /\ step' = step + 1 /\ attempt' = 0
    /\ pc' = "checkpoint" /\ job' = Checkpoint
    /\ UNCHANGED <<left, draft, hooked, reply, ctx, file, grow, queue, denwa, serial, seen>>

\* The guard on the number of steps, then a compaction when the context is nearly full.
BeginStep ==
    /\ At("top") /\ step < MaxSteps
    /\ step' = step + 1 /\ attempt' = 0
    /\ \/ Compact("compact_first") /\ UNCHANGED job
       \/ pc' = "checkpoint" /\ job' = Checkpoint /\ UNCHANGED <<left, draft>>
    /\ UNCHANGED <<hooked, reply, ctx, file, grow, queue, denwa, serial, seen>>

\* The tools learn how many checkpoints there are.
TellCheckpoints ==
    /\ At("checkpoint")
    /\ known' = ctx.next
    /\ pc' = "step"
    /\ UNCHANGED <<left, soul, context, queue, mail, aim, serial, seen>>

\* Notifications and reminders go into the history before the model is asked.
Inject ==
    /\ At("step")
    /\ pc' = "ask"
    /\ \/ Spend("note") /\ job' = Say(<<<<"note", 0>>>>)
       \/ UNCHANGED <<left, job>>
    /\ UNCHANGED <<soul, ctx, file, grow, queue, denwa, serial, seen>>

\* The model answers, with tool calls or without; the tokens are counted.
Answer ==
    /\ At("ask")
    /\ \E kind \in {"call", "text"} : reply' = <<kind, serial>>
    /\ serial' = serial + 1
    /\ pc' = "tools" /\ job' = Count
    /\ heard' = {}
    /\ UNCHANGED <<left, step, attempt, hooked, draft, ctx, file, grow, queue, denwa, past, era,
                   steered, torn, stray>>

\* The provider finds the request too large: compact and try the step again, twice.
Overflow ==
    /\ At("ask") /\ attempt < 2
    /\ attempt' = attempt + 1
    /\ Compact("compact_retry")
    /\ UNCHANGED <<step, hooked, reply, context, queue, denwa, serial, seen>>

\* The SendDMail tool; it runs as soon as the model's answer has its call.
SendMail ==
    /\ \/ At("ask")
       \/ pc = "tools" /\ reply[1] = "call"
    /\ mail = {} /\ Spend("mail")
    /\ \E to \in 0 .. known - 1 :
          mail' = {[to |-> to, era |-> era, past |-> {past[i] : i \in DOMAIN past \cap {to}}]}
    /\ UNCHANGED <<pc, soul, context, queue, known, aim, serial, seen>>

\* The tools are through: the answer and their results go into the history.
ToolsEnd ==
    /\ At("tools") /\ grow = <<>>
    /\ pc' = "growing"
    /\ grow' = Say(<<reply>>) \o Count
               \o (IF reply[1] = "call" THEN Say(<<<<"result", reply[2]>>>>) ELSE <<>>)
    /\ UNCHANGED <<left, soul, ctx, file, job, queue, denwa, serial, seen>>

-----------------------------------------------------------------------------
\* The outcome of the step.

Grown == At("growing") /\ grow = <<>>

\* The user rejected a call: the turn stops, and a D-Mail is dropped.
Rejected ==
    /\ Grown /\ reply[1] = "call"
    /\ pc' = "finishing" /\ mail' = {}
    /\ UNCHANGED <<left, soul, context, queue, known, aim, serial, seen>>

\* A D-Mail turns the context back to its checkpoint.
TurnBack ==
    /\ Grown
    /\ \E m \in mail :
          /\ m.to < ctx.next
          /\ job' = RevertTo(m.to) \o Checkpoint \o Say(<<<<"mail", serial>>>>)
    /\ aim' = mail /\ mail' = {}
    /\ pc' = "between" /\ serial' = serial + 1
    /\ UNCHANGED <<left, soul, ctx, file, grow, queue, known, seen>>

\* The assertion on the checkpoint of a D-Mail fails.
TurnBackFails ==
    /\ Grown /\ \E m \in mail : m.to >= ctx.next
    /\ mail' = {}
    /\ Ends
    /\ UNCHANGED <<left, context, queue, known, serial, seen>>

\* Calls lead to the next step, unless the toolset stops a turn that repeats itself.
Resolve ==
    /\ Grown /\ mail = {}
    /\ \/ reply[1] = "call" /\ pc' \in {"between", "finishing"}
       \/ reply[1] = "text" /\ pc' = "finishing"
    /\ UNCHANGED <<left, soul, context, queue, denwa, serial, seen>>

\* mutant: the turn returns after the steers it finds at its end
ConsumeAndReturn ==
    /\ At("between") \/ At("finishing")
    /\ queue # <<>>
    /\ LET m == <<"steer", Head(queue)>> IN
       /\ ctx' = Said(ctx, <<m>>)
       /\ job' = <<[op |-> "put", ms |-> <<m>>]>>
    /\ queue' = Tail(queue)
    /\ steered' = steered \ {Head(queue)} /\ heard' = heard \cup {Head(queue)}
    /\ UNCHANGED <<left, pc, soul, file, grow, denwa, serial, past, era, torn, stray>>

\* Steers become user messages, and the loop goes on after one.
Consume ==
    /\ At("between") \/ At("finishing")
    /\ queue # <<>>
    /\ LET m == <<"steer", Head(queue)>> IN
       /\ ctx' = Said(ctx, <<m>>)
       /\ job' = <<[op |-> "put", ms |-> <<m>>]>>
    /\ queue' = Tail(queue)
    /\ steered' = steered \ {Head(queue)} /\ heard' = heard \cup {Head(queue)}
    /\ pc' = "between"
    /\ UNCHANGED <<left, soul, file, grow, denwa, serial, past, era, torn, stray>>

\* The model cannot take the steer's media: it is lost and the turn fails.
ConsumeFails ==
    /\ At("between") \/ At("finishing")
    /\ queue # <<>>
    /\ queue' = Tail(queue)
    /\ Ends
    /\ UNCHANGED <<left, context, mail, known, serial, seen>>

NextStep ==
    /\ At("between") /\ queue = <<>>
    /\ pc' = "top" /\ reply' = <<>>
    /\ UNCHANGED <<left, step, attempt, hooked, draft, context, queue, denwa, serial, seen>>

Return ==
    /\ At("finishing") /\ queue = <<>>
    /\ pc' = "closing" /\ reply' = <<>>
    /\ UNCHANGED <<left, step, attempt, hooked, draft, context, queue, denwa, serial, seen>>

-----------------------------------------------------------------------------
\* The client, and the machine.

\* The wire server takes steers while a prompt runs.
Steer ==
    /\ pc \notin {"idle", "down"} /\ Spend("steer")
    /\ queue' = Append(queue, serial) /\ serial' = serial + 1
    /\ steered' = IF InLoop THEN steered \cup {serial} ELSE steered
    /\ UNCHANGED <<pc, soul, context, denwa, past, era, heard, torn, stray>>

\* mutant: the shield around _grow_context is missing
CancelAll ==
    /\ pc \notin {"idle", "down"} /\ Spend("cancel")
    /\ Ends
    /\ job' = <<>> /\ grow' = <<>>
    /\ torn' = (torn \/ job # <<>>)
    /\ UNCHANGED <<ctx, file, queue, mail, known, serial, past, era, steered, heard, stray>>

\* The prompt is cancelled: its job stops where it is, _grow_context goes on.
Cancel ==
    /\ pc \notin {"idle", "down"} /\ Spend("cancel")
    /\ Ends
    /\ IF job = <<>> THEN UNCHANGED <<ctx, file>>
       ELSE \E cut \in Cuts(Head(job)) : ctx' = cut.ctx /\ file' = cut.file
    /\ job' = <<>>
    /\ torn' = (torn \/ job # <<>>)
    /\ UNCHANGED <<grow, queue, mail, known, serial, past, era, steered, heard, stray>>

Crash ==
    /\ pc # "down" /\ Spend("crash")
    /\ \E cut \in IF job = <<>> THEN {[file |-> file]} ELSE Cuts(Head(job)) : file' = cut.file
    /\ pc' = "down" /\ step' = 0 /\ attempt' = 0 /\ hooked' = FALSE
    /\ draft' = <<>> /\ reply' = <<>>
    /\ ctx' = Empty /\ job' = <<>> /\ grow' = <<>> /\ queue' = <<>>
    /\ mail' = {} /\ known' = 0 /\ aim' = {}
    /\ past' = <<>> /\ era' = 0 /\ steered' = {} /\ heard' = {}
    /\ torn' = FALSE /\ stray' = (stray \/ torn \/ job # <<>> \/ grow # <<>>)
    /\ UNCHANGED serial

\* The next process restores the context from its file.
Restart ==
    /\ pc = "down"
    /\ pc' = "idle"
    /\ ctx' = Restored(file)
    /\ past' = [id \in Marks(file) |-> Restored(Kept(file, id)).hist]
    /\ UNCHANGED <<left, soul, file, job, grow, queue, denwa, serial, era, steered, heard, torn, stray>>

Next ==
    \/ TurnRuns \/ GrowRuns \/ WriteFails \/ GrowFails
    \/ Prompt \/ OpenTurn \/ ClearCommand \/ BeginLoop \/ EndRun \/ CommandDone \/ Raise
    \/ CompactCommand \/ Rebuild
    \/ BeginStep \/ TellCheckpoints \/ Inject \/ Answer \/ Overflow \/ SendMail \/ ToolsEnd
    \/ Rejected \/ TurnBack \/ TurnBackFails \/ Resolve
    \/ Consume \/ ConsumeFails \/ NextStep \/ Return
    \/ Steer \/ Cancel \/ Crash \/ Restart

Spec == Init /\ [][Next]_vars

-----------------------------------------------------------------------------
Messages == Kinds \X Nat
Lines    == (Kinds \cup {"checkpoint", "usage"}) \X Nat
Ops      == {"say", "put", "count", "mark", "clear", "wipe", "revert", "load"}
Jobs     == Seq([op : Ops, ms : Seq(Lines)])
Mails    == [to : Nat, era : Nat, past : SUBSET Seq(Messages)]

TypeOK ==
    /\ left \in [Events -> Nat]
    /\ pc \in Phases /\ step \in 0 .. MaxSteps /\ attempt \in 0 .. 2 /\ hooked \in BOOLEAN
    /\ ctx \in [hist : Seq(Messages), next : Nat, pend : Nat]
    /\ file \in Seq(Lines) /\ job \in Jobs /\ grow \in Jobs
    /\ draft \in Seq(Messages)
    /\ reply \in {<<>>} \cup ({"call", "text"} \X Nat)
    /\ queue \in Seq(Nat) /\ serial \in Nat
    /\ mail \subseteq Mails /\ aim \subseteq Mails /\ known \in Nat
    /\ DOMAIN past \subseteq Nat /\ (\A id \in DOMAIN past : past[id] \in Seq(Messages))
    /\ era \in Nat
    /\ steered \subseteq Nat /\ heard \subseteq Nat
    /\ torn \in BOOLEAN /\ stray \in BOOLEAN

\* A process that restored the context between two writes would have the same history, the
\* same next checkpoint and the same uncounted messages as the running one, through every
\* append, revert and compaction; unless a cancel cut a write, a write failed or two turns
\* wrote at once.
RestoresWhatWasSaid ==
    job = <<>> /\ grow = <<>> /\ pc # "down" /\ ~torn => ctx = Restored(file)

\* What a process restores when memory and file have parted all the same, over a cancel, a
\* failed write or a swallowed one, is what was said with messages missing: none that was
\* taken back, replaced or never said, and none out of its order; unless turns met.
FileWithinMemory ==
    LET said == ctx.hist
        kept == Restored(file).hist
    IN  pc # "down" /\ ~stray =>
           FoldLeft(LAMBDA n, m : IF n < Len(kept) /\ kept[n + 1] = m THEN n + 1 ELSE n, 0, said) = Len(kept)

\* A D-Mail turns the history back to what it was when its checkpoint was made, whatever was
\* cancelled, retried or turned back since it was sent; unless a compaction or /clear has
\* numbered the checkpoints anew, or the checkpoint's line was lost in a process before.
MailTurnsBack ==
    [][\A m \in aim : aim' = {} /\ pc' = pc /\ ~torn /\ m.era = era /\ m.past # {}
                          => ctx'.hist \in m.past]_vars

\* A loop that ends with a steer it accepted and the model has not been shown has failed or
\* was stopped: the steps were used up, the model, a compaction, a D-Mail, another steer or
\* a write failed, or the turn was cancelled.  One that returns has shown the model them all.
SteersAreAnswered ==
    [][InLoop /\ ~InLoop' /\ steered \cup heard # {} =>
         Raise \/ TurnBackFails \/ ConsumeFails \/ WriteFails \/ GrowFails \/ Cancel \/ Crash]_vars

\* In the history a result follows its call, and a call has its result, unless its
\* _grow_context is still at work: a cancelled step, a compaction and a D-Mail split no pair.
\* Not so once a cancel cut a revert or a compaction in two or a write failed, when a turn
\* began before that task was through, or after a crash while a file was written.
CallsArePaired ==
    LET at(kind, n) == {i \in DOMAIN ctx.hist : ctx.hist[i] = <<kind, n>>}
        owed == {do.ms[1] : do \in {d \in ToSet(grow) : d.op = "say"}}
    IN  ~torn /\ ~stray => \A n \in {m[2] : m \in ToSet(ctx.hist)} :
           /\ \A i \in at("result", n) : i - 1 \in at("call", n)
           /\ at("call", n) # {} => at("result", n) # {} \/ <<"result", n>> \in owed

=============================================================================
