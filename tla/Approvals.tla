----------------------------- MODULE Approvals -----------------------------
(***************************************************************************)
(* Who may run a tool: the way of an approval from the tool that asks to   *)
(* the user's screen and back, in one worker process.                      *)
(*   soul/approval.py            Approval.request, run by each tool        *)
(*   approval_runtime/runtime.py the request records and their waiters     *)
(*   wire/server.py              the relay to the client, the turn's end   *)
(*   soul/__init__.py            run_soul, which runs a soul as a task and *)
(*                               waits for it                              *)
(*   subagents/runner.py, background/agent_runner.py, background/manager.py*)
(*                               the runners of subagents                  *)
(*                                                                         *)
(* A soul is run by a runner: the wire server's prompt handler runs the    *)
(* root soul of a turn, an Agent tool call of the turn runs a foreground   *)
(* subagent, a task of its own runs a background agent.  All are tasks of  *)
(* one asyncio loop, so a step is the code between two suspensions: a tool *)
(* goes on some steps after its verdict was given, the hub's queue and the *)
(* pipe to the client lag.                                                 *)
(***************************************************************************)
EXTENDS Naturals, Sequences

CONSTANTS
  Turns,      \* prompts, each run once
  Subs,       \* foreground subagent runs
  Bgs,        \* background agent runs
  Requests,   \* tool calls that need approval
  Actions,    \* what a tool call is approved for ("run command", "edit file")
  None,
  MaxOut      \* messages under way to the client when it initializes once more

Souls == Turns \cup Subs \cup Bgs

ASSUME ApprovalsAssumption ==
  /\ Turns \cap Subs = {} /\ Turns \cap Bgs = {} /\ Subs \cap Bgs = {}
  /\ None \notin Souls \cup Requests \cup Actions
  /\ None \notin {"approve", "session", "reject", "yolo", "cached", "cancelled"}
  /\ MaxOut \in Nat \ {0}

VARIABLES
  soul,       \* each soul's task: new, running, cancelling, done
  runner,     \* the runner that awaits it: new, awaiting, killed, done
  parent,     \* the turn whose tool call runs a foreground subagent
  streaming,  \* the turn whose prompt the server is handling, or None
  tool,       \* each tool call: new, waiting, granted, refused, gone (cancelled)
  owner,      \* the soul a tool call belongs to, which is its source
  action,     \* what it asks for
  told,       \* the result of the future a tool waits on, None until it is set
  status,     \* of the request record: none, pending, resolved, cancelled
  response,   \* of the request record
  auto,       \* auto_approve_actions
  hub,        \* the root hub's queue of the wire server
  initialized,\* whether a client has initialized
  serverPending, \* the keys of the wire server's _pending_requests
  out,        \* messages written to the client and not yet read
  cards,      \* the requests on the client's screen
  said        \* what the user has answered to each request

soulVars == <<soul, runner, parent, streaming>>
toolVars == <<tool, owner, action>>
recordVars == <<told, status, response>>
wireVars == <<hub, initialized, serverPending, out, cards, said>>
vars == <<soulVars, toolVars, recordVars, wireVars, auto>>

-----------------------------------------------------------------------------
Verdicts == {"approve", "session", "reject"}
Item == [kind : {"request", "response"}, ids : SUBSET Requests]
Ask(ids) == [kind |-> "request", ids |-> ids]
Settle(ids) == [kind |-> "response", ids |-> ids]


\* What a reader of a queue makes of an item: S is a table, or a screen.
Apply(item, S) == IF item.kind = "request" THEN S \cup item.ids ELSE S \ item.ids

Pending == {r \in Requests : status[r] = "pending"}
Waiting(s) == {r \in Requests : owner[r] = s /\ tool[r] = "waiting"}
Foreground == {r \in Requests : owner[r] \in Turns \cup Subs}

Init ==
  /\ soul = [s \in Souls |-> "new"] /\ runner = [s \in Souls |-> "new"]
  /\ parent = [s \in Subs |-> None] /\ streaming = None
  /\ tool = [r \in Requests |-> "new"] /\ owner = [r \in Requests |-> None]
  /\ action = [r \in Requests |-> None] /\ told = [r \in Requests |-> None]
  /\ status = [r \in Requests |-> "none"] /\ response = [r \in Requests |-> None]
  /\ auto = {}
  /\ hub = <<>> /\ initialized = FALSE /\ serverPending = {} /\ out = <<>>
  /\ cards = {} /\ said = [r \in Requests |-> {}]

-----------------------------------------------------------------------------
(* The approval runtime.                                                   *)

\* Nothing is published of nothing.
Publish(item) == hub' = IF item.ids = {} THEN hub ELSE Append(hub, item)

\* Records get their verdict, the futures of tools that still wait are set, and
\* the wire is told.
Close(ids, st, verdict, result) ==
  /\ status' = [r \in Requests |-> IF r \in ids THEN st ELSE status[r]]
  /\ response' = [r \in Requests |-> IF r \in ids THEN verdict ELSE response[r]]
  /\ told' = [r \in Requests |-> IF r \in ids /\ tool[r] = "waiting" /\ told[r] = None
                                  THEN result ELSE told[r]]
  /\ Publish(Settle(ids))

\* mutant: a late second verdict overwrites the record
ResolveLate(ids, v) == Close(ids, "resolved", v, v)

\* resolve() of each of ids: nothing happens to one that is not pending.
Resolve(ids, v) == Close(ids \cap Pending, "resolved", v, v)

\* mutant: the cancellation is not published to the wire
CancelQuietly(s) ==
  LET live == {r \in Pending : owner[r] = s} IN
  /\ status' = [r \in Requests |-> IF r \in live THEN "cancelled" ELSE status[r]]
  /\ response' = [r \in Requests |-> IF r \in live THEN "reject" ELSE response[r]]
  /\ told' = [r \in Requests |-> IF r \in live /\ tool[r] = "waiting" THEN "cancelled" ELSE told[r]]
  /\ UNCHANGED hub
\* mutant: the record is given a response that is none
CancelResponds(s) == Close({r \in Pending : owner[r] = s}, "cancelled", "cancelled", "cancelled")

\* cancel_by_source(): the end of a run settles what it left pending.
CancelBySource(s) == Close({r \in Pending : owner[r] = s}, "cancelled", "reject", "cancelled")

-----------------------------------------------------------------------------
(* Approval.request.                                                       *)

\* A tool asks: it goes on at once when its action is approved for the session
\* or, whatever it asks for, in yolo or afk mode; else it creates a request and
\* waits.  The modes are not tracked: they may be on or off at any ask.
ToolAsks(r, s, a) ==
  /\ tool[r] = "new" /\ soul[s] \in {"running", "cancelling"}
  /\ owner' = [owner EXCEPT ![r] = s] /\ action' = [action EXCEPT ![r] = a]
  /\ \E why \in {"yolo", IF a \in auto THEN "cached" ELSE None} :
       /\ told' = [told EXCEPT ![r] = why]
       /\ tool' = [tool EXCEPT ![r] = IF why = None THEN "waiting" ELSE "granted"]
       /\ status' = [status EXCEPT ![r] = IF why = None THEN "pending" ELSE @]
       /\ Publish(Ask(IF why = None THEN {r} ELSE {}))
  /\ UNCHANGED <<soulVars, response, auto, initialized, serverPending, out, cards, said>>

\* mutant: the pending requests are not compared by their action
ApproveAll(r) ==
  /\ auto' = auto \cup {action[r]} /\ Resolve(Pending, "approve")
\* mutant: requests already pending stay so
ApproveLater(r) ==
  /\ auto' = auto \cup {action[r]} /\ UNCHANGED <<status, response, told, hub>>

\* "For this session": later requests for the action are granted at once, and
\* those pending now are approved.
ApproveForSession(r) ==
  /\ auto' = auto \cup {action[r]}
  /\ Resolve({q \in Pending : action[q] = action[r]}, "approve")

\* A tool whose future is set runs again.
ToolResumes(r) ==
  /\ tool[r] = "waiting" /\ told[r] # None
  /\ tool' = [tool EXCEPT ![r] = IF told[r] \in {"reject", "cancelled"} THEN "refused" ELSE "granted"]
  /\ IF told[r] = "session" THEN ApproveForSession(r)
                            ELSE UNCHANGED <<recordVars, auto, hub>>
  /\ UNCHANGED <<soulVars, owner, action, initialized, serverPending, out, cards, said>>

-----------------------------------------------------------------------------
(* The wire server and its client.                                         *)

\* mutant: what was dropped before is not sent again
InitializeSilently ==
  /\ ~initialized /\ streaming = None /\ initialized' = TRUE
  /\ UNCHANGED <<soulVars, toolVars, recordVars, auto, hub, serverPending, out, cards, said>>

\* A client's initialize is refused during a turn; it is sent whatever pends, as
\* the hub drops messages before the first, and a later client has an empty screen.
Initialize ==
  /\ streaming = None /\ Len(out) < MaxOut
  /\ initialized' = TRUE
  /\ serverPending' = serverPending \cup Pending
  /\ out' = IF Pending = {} THEN out ELSE Append(out, Ask(Pending))
  /\ UNCHANGED <<soulVars, toolVars, recordVars, auto, hub, cards, said>>

\* mutant: the relay waits for the answer to each request it has sent
RelayWaits ==
  /\ hub # <<>> /\ serverPending = {}
  /\ hub' = Tail(hub)
  /\ IF ~initialized THEN UNCHANGED <<serverPending, out>>
     ELSE LET i == Head(hub) IN
          /\ out' = Append(out, i)
          /\ serverPending' = IF i.kind = "request" THEN serverPending \cup i.ids ELSE serverPending
  /\ UNCHANGED <<soulVars, toolVars, recordVars, auto, initialized, cards, said>>

\* _root_hub_loop.
HubRelays ==
  /\ hub # <<>>
  /\ hub' = Tail(hub)
  /\ IF ~initialized THEN UNCHANGED <<serverPending, out>>
     ELSE /\ out' = Append(out, Head(hub))
          /\ serverPending' = Apply(Head(hub), serverPending)
  /\ UNCHANGED <<soulVars, toolVars, recordVars, auto, initialized, cards, said>>

ClientReads ==
  /\ out # <<>>
  /\ out' = Tail(out)
  /\ cards' = Apply(Head(out), cards)
  /\ UNCHANGED <<soulVars, toolVars, recordVars, auto, hub, initialized, serverPending, said>>

\* The user answers a card, and the server handles the response: one to a
\* request that is no longer there is dropped.
UserAnswers(r, v) ==
  /\ r \in cards
  /\ cards' = cards \ {r} /\ said' = [said EXCEPT ![r] = @ \cup {v}]
  /\ serverPending' = serverPending \ {r}
  /\ IF r \in serverPending THEN Resolve({r}, v) ELSE UNCHANGED <<recordVars, hub>>
  /\ UNCHANGED <<soulVars, toolVars, auto, initialized, out>>

-----------------------------------------------------------------------------
(* Souls and their runners.                                                *)

StartTurn(t) ==
  /\ streaming = None /\ soul[t] = "new"
  /\ streaming' = t
  /\ soul' = [soul EXCEPT ![t] = "running"] /\ runner' = [runner EXCEPT ![t] = "awaiting"]
  /\ UNCHANGED <<parent, toolVars, recordVars, wireVars, auto>>

\* The Agent tool of the running turn starts a subagent.
StartAgent(s) ==
  /\ soul[s] = "new" /\ streaming # None /\ soul[streaming] = "running"
  /\ soul' = [soul EXCEPT ![s] = "running"] /\ runner' = [runner EXCEPT ![s] = "awaiting"]
  /\ parent' = IF s \in Subs THEN [parent EXCEPT ![s] = streaming] ELSE parent
  /\ UNCHANGED <<streaming, toolVars, recordVars, wireVars, auto>>

Children(s) == {c \in Subs : parent[c] = s /\ runner[c] \in {"awaiting", "killed"}}

\* The tool calls of a soul are cancelled, and with them the runners of its
\* subagents.
CancelTools(s) ==
  /\ tool' = [r \in Requests |-> IF r \in Waiting(s) THEN "gone" ELSE tool[r]]
  /\ runner' = [c \in Souls |-> IF c \in Children(s) THEN "killed" ELSE runner[c]]

\* A step's LLM stream breaks after tool calls were started: they are
\* cancelled, then the step is retried or the turn fails.
StepFails(s) ==
  /\ soul[s] = "running" /\ CancelTools(s)
  /\ Waiting(s) # {} \/ Children(s) # {}
  /\ soul' \in {soul, [soul EXCEPT ![s] = "ending"]}
  /\ UNCHANGED <<parent, streaming, owner, action, recordVars, wireVars, auto>>

\* The client cancels the prompt: run_soul cancels the soul's task.
CancelTurn(t) ==
  /\ streaming = t /\ soul[t] = "running" /\ soul' = [soul EXCEPT ![t] = "cancelling"]
  /\ UNCHANGED <<runner, parent, streaming, toolVars, recordVars, wireVars, auto>>

\* mutant: a cancelled soul waits for the verdicts of its tools
UnwindWaits(s) ==
  /\ soul[s] = "cancelling" /\ Waiting(s) = {}
  /\ CancelTools(s) /\ soul' = [soul EXCEPT ![s] = "ending"]
  /\ UNCHANGED <<parent, streaming, owner, action, recordVars, wireVars, auto>>

\* The soul's task sees the cancellation where it awaits its tools.
Unwind(s) ==
  /\ soul[s] = "cancelling" /\ CancelTools(s) /\ soul' = [soul EXCEPT ![s] = "ending"]
  /\ UNCHANGED <<parent, streaming, owner, action, recordVars, wireVars, auto>>

\* KimiSoul.run ends.  It cancels what its own source still has pending; a
\* subagent's source belongs to its runner.
SoulEnds(s) ==
  /\ soul[s] \in {"running", "ending"} /\ Waiting(s) = {} /\ Children(s) = {}
  /\ soul' = [soul EXCEPT ![s] = "done"]
  /\ IF s \in Turns THEN CancelBySource(s) ELSE UNCHANGED <<recordVars, hub>>
  /\ UNCHANGED <<runner, parent, streaming, toolVars, auto, initialized, serverPending, out,
                 cards, said>>

\* BackgroundTaskManager.kill.
KillAgent(b) ==
  /\ runner[b] = "awaiting" /\ runner' = [runner EXCEPT ![b] = "killed"]
  /\ CancelBySource(b)
  /\ UNCHANGED <<soul, parent, streaming, toolVars, auto, initialized, serverPending, out,
                 cards, said>>

\* The time limit of a background agent cancels its runner, too.
AgentTimesOut(b) ==
  /\ runner[b] = "awaiting" /\ runner' = [runner EXCEPT ![b] = "killed"]
  /\ UNCHANGED <<soul, parent, streaming, toolVars, recordVars, wireVars, auto>>

\* The runner of a subagent ends because the soul has, or because it was
\* cancelled: asyncio.wait, where run_soul stands, leaves the soul running.
RunnerEnds(s) ==
  /\ \/ runner[s] = "awaiting" /\ soul[s] = "done"
     \/ runner[s] = "killed"
  /\ runner' = [runner EXCEPT ![s] = "done"] /\ CancelBySource(s)
  /\ UNCHANGED <<soul, parent, streaming, toolVars, auto, initialized, serverPending, out,
                 cards, said>>

\* The server's prompt handler returns from run_soul: what the client has not
\* answered of the turn is rejected.
PromptDone(t) ==
  /\ streaming = t /\ soul[t] = "done"
  /\ streaming' = None /\ runner' = [runner EXCEPT ![t] = "done"]
  /\ serverPending' = serverPending \ Foreground
  /\ Resolve(serverPending \cap Foreground, "reject")
  /\ UNCHANGED <<soul, parent, toolVars, auto, initialized, out, cards, said>>

-----------------------------------------------------------------------------
AgentStep(s) == StartAgent(s) \/ RunnerEnds(s)
TurnStep(t) == StartTurn(t) \/ CancelTurn(t) \/ PromptDone(t)
SoulStep(s) == StepFails(s) \/ Unwind(s) \/ SoulEnds(s)
WireStep == Initialize \/ HubRelays \/ ClientReads

Next ==
  \/ \E t \in Turns : TurnStep(t)
  \/ \E s \in Subs \cup Bgs : AgentStep(s)
  \/ \E b \in Bgs : KillAgent(b) \/ AgentTimesOut(b)
  \/ \E s \in Souls : SoulStep(s)
  \/ \E r \in Requests, s \in Souls, a \in Actions : ToolAsks(r, s, a)
  \/ \E r \in Requests : ToolResumes(r)
  \/ \E r \in Requests, v \in Verdicts : UserAnswers(r, v)
  \/ WireStep

Spec == Init /\ [][Next]_vars

(***************************************************************************)
(* The event loop runs every ready task; a soul that is being cancelled    *)
(* ends; nothing is assumed of the user.                                   *)
(***************************************************************************)
Fairness ==
  /\ WF_vars(HubRelays) /\ WF_vars(ClientReads)
  /\ \A r \in Requests : WF_vars(ToolResumes(r))
  /\ \A s \in Souls : WF_vars(Unwind(s)) /\ WF_vars(soul[s] = "ending" /\ SoulEnds(s))
  /\ \A s \in Subs \cup Bgs : WF_vars(RunnerEnds(s))
  /\ \A t \in Turns : WF_vars(PromptDone(t))
FairSpec == Spec /\ Fairness

-----------------------------------------------------------------------------
(* Every variable has its type.                                            *)
TypeOK ==
  /\ soul \in [Souls -> {"new", "running", "cancelling", "ending", "done"}]
  /\ runner \in [Souls -> {"new", "awaiting", "killed", "done"}]
  /\ parent \in [Subs -> Turns \cup {None}] /\ streaming \in Turns \cup {None}
  /\ tool \in [Requests -> {"new", "waiting", "granted", "refused", "gone"}]
  /\ owner \in [Requests -> Souls \cup {None}] /\ action \in [Requests -> Actions \cup {None}]
  /\ told \in [Requests -> Verdicts \cup {"yolo", "cached", "cancelled", None}]
  /\ status \in [Requests -> {"none", "pending", "resolved", "cancelled"}]
  /\ response \in [Requests -> Verdicts \cup {None}]
  /\ auto \subseteq Actions
  /\ hub \in Seq(Item) /\ out \in Seq(Item) /\ initialized \in BOOLEAN
  /\ serverPending \subseteq Requests /\ cards \subseteq Requests
  /\ said \in [Requests -> SUBSET Verdicts]

(* No tool runs against the user's word: one that was granted, and not by  *)
(* yolo, has the user's approval for itself, or for its action in this     *)
(* session.                                                                *)
GrantedByUser ==
  \A r \in Requests : (tool[r] = "granted" /\ told[r] # "yolo") =>
    \/ said[r] \cap {"approve", "session"} # {}
    \/ \E q \in Requests : action[q] = action[r] /\ "session" \in said[q]

(* The tool and the record agree for ever: what a tool was told is what    *)
(* the record says of its request, however many answers, cancellations and *)
(* session-wide approvals arrive after the first.                          *)
VerdictIsFinal ==
  \A r \in Requests :
    /\ told[r] \in Verdicts => status[r] = "resolved" /\ response[r] = told[r]
    /\ told[r] = "cancelled" => status[r] = "cancelled"

(* Once the user has answered "for this session", the action is approved   *)
(* and no request for it is pending, whenever it was created: as soon as   *)
(* the tool that was told so has resumed.  A tool that is cancelled before *)
(* that, or was when its card was answered, takes the answer with it: the  *)
(* action is then asked for again, although docs/en/guides/interaction.md, *)
(* line 182, says that it is approved.                                     *)
SessionApprovalCovers ==
  \A r \in Requests : response[r] = "session" =>
    \/ tool[r] = "waiting" /\ told[r] = "session"
    \/ tool[r] = "gone"
    \/ action[r] \in auto /\ \A q \in Pending : action[q] # action[r]

(* When the queues have drained, the user's screen, the server's table and *)
(* the runtime agree: there is a card for each pending request, and no     *)
(* card of a dead one.                                                     *)
ScreenAgrees ==
  (initialized /\ hub = <<>> /\ out = <<>>) => cards = Pending /\ serverPending = Pending

(* A client that has initialized gets to see every request, whatever else  *)
(* it has left unanswered.                                                 *)
CardsAppear ==
  \A r \in Requests : (initialized /\ r \in Pending) ~> (r \in cards \/ r \notin Pending)

(* A card whose request was settled elsewhere goes away.                   *)
DeadCardsGo == \A r \in Requests : (r \in cards \ Pending) ~> (r \notin cards)

(* Cancelling a prompt ends it, whatever approvals and subagents it waits  *)
(* for.                                                                    *)
CancelledTurnEnds == \A t \in Turns : (soul[t] = "cancelling") ~> (streaming # t)

-----------------------------------------------------------------------------
(* A claim of the code that its steps do not keep.                         *)

(* server.py:784 "After run_soul() returns, the soul and all subagents are *)
(* done": with no prompt in hand, no foreground subagent runs.             *)
SubagentsEndWithTurn == streaming = None => \A s \in Subs : soul[s] \in {"new", "done"}
=============================================================================
