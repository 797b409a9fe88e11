-------------------------- MODULE ApprovalsProofs --------------------------
(* Theorems about Approvals: its typing, that verdicts are final, that an   *)
(* approval for the session covers every request, that a tool runs only on  *)
(* the user's word, and that the user's screen and the server's table agree *)
(* with the runtime once the queues have drained.  For the last the         *)
(* invariant says of the states in between what the queues will make of the *)
(* table and of the screen.                                                 *)
EXTENDS Approvals, TLAPS

-----------------------------------------------------------------------------
(* Types of the pieces the actions are built from.                          *)

LEMMA ItemTyped ==
  ASSUME NEW ids \in SUBSET Requests
  PROVE  Ask(ids) \in Item /\ Settle(ids) \in Item
BY DEF Ask, Settle, Item

LEMMA PublishTyped ==
  ASSUME hub \in Seq(Item), NEW item \in Item, Publish(item)
  PROVE  hub' \in Seq(Item)
BY DEF Publish

LEMMA CloseTyped ==
  ASSUME TypeOK, NEW ids \in SUBSET Requests, NEW st \in {"resolved", "cancelled"},
         NEW v \in Verdicts, NEW res \in Verdicts \cup {"cancelled"}, Close(ids, st, v, res)
  PROVE  /\ status' \in [Requests -> {"none", "pending", "resolved", "cancelled"}]
         /\ response' \in [Requests -> Verdicts \cup {None}]
         /\ told' \in [Requests -> Verdicts \cup {"yolo", "cached", "cancelled", None}]
         /\ hub' \in Seq(Item)
<1>1. status' \in [Requests -> {"none", "pending", "resolved", "cancelled"}]
  BY DEF TypeOK, Close
<1>2. response' \in [Requests -> Verdicts \cup {None}]
  BY DEF TypeOK, Close
<1>3. told' \in [Requests -> Verdicts \cup {"yolo", "cached", "cancelled", None}]
  BY DEF TypeOK, Close
<1>4. hub' \in Seq(Item)
  BY ItemTyped, PublishTyped DEF TypeOK, Close
<1> QED BY <1>1, <1>2, <1>3, <1>4

LEMMA ResolveTyped ==
  ASSUME TypeOK, NEW ids \in SUBSET Requests, NEW v \in Verdicts, Resolve(ids, v)
  PROVE  /\ status' \in [Requests -> {"none", "pending", "resolved", "cancelled"}]
         /\ response' \in [Requests -> Verdicts \cup {None}]
         /\ told' \in [Requests -> Verdicts \cup {"yolo", "cached", "cancelled", None}]
         /\ hub' \in Seq(Item)
BY CloseTyped DEF Resolve

LEMMA CancelTyped ==
  ASSUME TypeOK, NEW s, CancelBySource(s)
  PROVE  /\ status' \in [Requests -> {"none", "pending", "resolved", "cancelled"}]
         /\ response' \in [Requests -> Verdicts \cup {None}]
         /\ told' \in [Requests -> Verdicts \cup {"yolo", "cached", "cancelled", None}]
         /\ hub' \in Seq(Item)
<1>1. {r \in Pending : owner[r] = s} \in SUBSET Requests BY DEF Pending
<1>2. "reject" \in Verdicts BY DEF Verdicts
<1> QED BY <1>1, <1>2, CloseTyped DEF CancelBySource

LEMMA CancelToolsTyped ==
  ASSUME TypeOK, NEW s, CancelTools(s)
  PROVE  /\ tool' \in [Requests -> {"new", "waiting", "granted", "refused", "gone"}]
         /\ runner' \in [Souls -> {"new", "awaiting", "killed", "done"}]
<1>1. tool' \in [Requests -> {"new", "waiting", "granted", "refused", "gone"}]
  BY DEF TypeOK, CancelTools
<1>2. runner' \in [Souls -> {"new", "awaiting", "killed", "done"}]
  BY DEF TypeOK, CancelTools
<1> QED BY <1>1, <1>2

-----------------------------------------------------------------------------
(* Every variable keeps its type.  That only actions are approved for the    *)
(* session needs that a tool which waits has asked for one.                 *)

Asked == \A r \in Requests : tool[r] # "new" => owner[r] \in Souls /\ action[r] \in Actions

LEMMA TypeInit == Init => TypeOK /\ Asked
<1> SUFFICES ASSUME Init PROVE TypeOK /\ Asked OBVIOUS
<1>1. hub \in Seq(Item) /\ out \in Seq(Item) BY DEF Init
<1>2. TypeOK BY <1>1 DEF Init, TypeOK
<1>3. Asked BY DEF Init, Asked
<1> QED BY <1>2, <1>3

LEMMA TypeNext == TypeOK /\ Asked /\ [Next]_vars => TypeOK'
<1> SUFFICES ASSUME TypeOK, Asked, [Next]_vars PROVE TypeOK' OBVIOUS
<1>1. ASSUME NEW t \in Turns, StartTurn(t) PROVE TypeOK'
  BY <1>1 DEF StartTurn, TypeOK, toolVars, recordVars, wireVars, Souls
<1>2. ASSUME NEW t \in Turns, CancelTurn(t) PROVE TypeOK'
  BY <1>2 DEF CancelTurn, TypeOK, toolVars, recordVars, wireVars
<1>3. ASSUME NEW t \in Turns, PromptDone(t) PROVE TypeOK'
  <2>1. serverPending \cap Foreground \in SUBSET Requests BY DEF TypeOK
  <2>2. "reject" \in Verdicts BY DEF Verdicts
  <2> QED BY <1>3, <2>1, <2>2, ResolveTyped DEF PromptDone, TypeOK, toolVars
<1>4. ASSUME NEW s \in Subs \cup Bgs, StartAgent(s) PROVE TypeOK'
  <2>1. parent' \in [Subs -> Turns \cup {None}]
    BY <1>4 DEF StartAgent, TypeOK
  <2> QED BY <1>4, <2>1 DEF StartAgent, TypeOK, toolVars, recordVars, wireVars
<1>5. ASSUME NEW s \in Subs \cup Bgs, RunnerEnds(s) PROVE TypeOK'
  BY <1>5, CancelTyped DEF RunnerEnds, TypeOK, toolVars
<1>6. ASSUME NEW b \in Bgs, KillAgent(b) \/ AgentTimesOut(b) PROVE TypeOK'
  <2>1. CASE KillAgent(b)
    BY <2>1, CancelTyped DEF KillAgent, TypeOK, toolVars
  <2>2. CASE AgentTimesOut(b)
    BY <2>2 DEF AgentTimesOut, TypeOK, toolVars, recordVars, wireVars
  <2> QED BY <1>6, <2>1, <2>2
<1>7. ASSUME NEW s \in Souls, StepFails(s) PROVE TypeOK'
  <2>1. soul' \in [Souls -> {"new", "running", "cancelling", "ending", "done"}]
    BY <1>7 DEF StepFails, TypeOK
  <2> QED BY <1>7, <2>1, CancelToolsTyped DEF StepFails, TypeOK, recordVars, wireVars
<1>8. ASSUME NEW s \in Souls, Unwind(s) PROVE TypeOK'
  BY <1>8, CancelToolsTyped DEF Unwind, TypeOK, recordVars, wireVars
<1>9. ASSUME NEW s \in Souls, SoulEnds(s) PROVE TypeOK'
  <2>1. soul' \in [Souls -> {"new", "running", "cancelling", "ending", "done"}]
    BY <1>9 DEF SoulEnds, TypeOK
  <2>2. CASE s \in Turns
    BY <1>9, <2>1, <2>2, CancelTyped DEF SoulEnds, TypeOK, toolVars
  <2>3. CASE s \notin Turns
    BY <1>9, <2>1, <2>3 DEF SoulEnds, TypeOK, toolVars, recordVars
  <2> QED BY <2>2, <2>3
<1>10. ASSUME NEW r \in Requests, NEW s \in Souls, NEW a \in Actions, ToolAsks(r, s, a) PROVE TypeOK'
  <2>1. PICK why \in {"yolo", IF a \in auto THEN "cached" ELSE None} :
          /\ told' = [told EXCEPT ![r] = why]
          /\ tool' = [tool EXCEPT ![r] = IF why = None THEN "waiting" ELSE "granted"]
          /\ status' = [status EXCEPT ![r] = IF why = None THEN "pending" ELSE @]
          /\ Publish(Ask(IF why = None THEN {r} ELSE {}))
    BY <1>10 DEF ToolAsks
  <2>2. why \in {"yolo", "cached", None} OBVIOUS
  <2>3. told' \in [Requests -> Verdicts \cup {"yolo", "cached", "cancelled", None}]
    BY <2>1, <2>2 DEF TypeOK
  <2>4. /\ tool' \in [Requests -> {"new", "waiting", "granted", "refused", "gone"}]
        /\ status' \in [Requests -> {"none", "pending", "resolved", "cancelled"}]
    BY <2>1 DEF TypeOK
  <2>5. hub' \in Seq(Item)
    BY <2>1, ItemTyped, PublishTyped DEF TypeOK
  <2>6. /\ owner' \in [Requests -> Souls \cup {None}]
        /\ action' \in [Requests -> Actions \cup {None}]
    BY <1>10 DEF ToolAsks, TypeOK
  <2> QED BY <1>10, <2>3, <2>4, <2>5, <2>6 DEF ToolAsks, TypeOK, soulVars
<1>11. ASSUME NEW r \in Requests, ToolResumes(r) PROVE TypeOK'
  <2>1. tool' \in [Requests -> {"new", "waiting", "granted", "refused", "gone"}]
    BY <1>11 DEF ToolResumes, TypeOK
  <2>2. CASE told[r] = "session"
    <3>2. {q \in Pending : action[q] = action[r]} \in SUBSET Requests BY DEF Pending
    <3>3. "approve" \in Verdicts BY DEF Verdicts
    <3>4. action[r] \in Actions
      BY <1>11 DEF ToolResumes, Asked
    <3>5. auto' = auto \cup {action[r]} /\ Resolve({q \in Pending : action[q] = action[r]}, "approve")
      BY <1>11, <2>2 DEF ToolResumes, ApproveForSession
    <3>6. auto' \subseteq Actions BY <3>4, <3>5 DEF TypeOK
    <3>7. /\ status' \in [Requests -> {"none", "pending", "resolved", "cancelled"}]
          /\ response' \in [Requests -> Verdicts \cup {None}]
          /\ told' \in [Requests -> Verdicts \cup {"yolo", "cached", "cancelled", None}]
          /\ hub' \in Seq(Item)
      BY <3>2, <3>3, <3>5, ResolveTyped
    <3> QED BY <1>11, <2>1, <3>6, <3>7 DEF ToolResumes, TypeOK, soulVars
  <2>3. CASE told[r] # "session"
    BY <1>11, <2>1, <2>3 DEF ToolResumes, TypeOK, soulVars, recordVars
  <2> QED BY <2>2, <2>3
<1>12. ASSUME NEW r \in Requests, NEW v \in Verdicts, UserAnswers(r, v) PROVE TypeOK'
  <2>1. /\ cards' \subseteq Requests /\ serverPending' \subseteq Requests
        /\ said' \in [Requests -> SUBSET Verdicts]
    BY <1>12 DEF UserAnswers, TypeOK
  <2>2. CASE r \in serverPending
    BY <1>12, <2>1, <2>2, ResolveTyped DEF UserAnswers, TypeOK, soulVars, toolVars
  <2>3. CASE r \notin serverPending
    BY <1>12, <2>1, <2>3 DEF UserAnswers, TypeOK, soulVars, toolVars, recordVars
  <2> QED BY <2>2, <2>3
<1>13. ASSUME Initialize PROVE TypeOK'
  BY <1>13, ItemTyped DEF Initialize, TypeOK, soulVars, toolVars, recordVars, Pending
<1>14. ASSUME HubRelays PROVE TypeOK'
  <2>1. Head(hub) \in Item /\ Tail(hub) \in Seq(Item) BY <1>14 DEF HubRelays, TypeOK
  <2>2. Head(hub).ids \subseteq Requests BY <2>1 DEF Item
  <2>3. out' \in Seq(Item) /\ serverPending' \subseteq Requests
    <3>1. CASE initialized
      <4>1. out' = Append(out, Head(hub)) /\ serverPending' = Apply(Head(hub), serverPending)
        BY <1>14, <3>1 DEF HubRelays
      <4>2. out' \in Seq(Item) BY <2>1, <4>1 DEF TypeOK
      <4>3. serverPending' \subseteq Requests BY <2>2, <4>1 DEF Apply, TypeOK
      <4> QED BY <4>2, <4>3
    <3>2. CASE ~initialized BY <1>14, <3>2 DEF HubRelays, TypeOK
    <3> QED BY <3>1, <3>2
  <2> QED BY <1>14, <2>1, <2>3 DEF HubRelays, TypeOK, soulVars, toolVars, recordVars
<1>15. ASSUME ClientReads PROVE TypeOK'
  <2>1. Head(out) \in Item /\ Tail(out) \in Seq(Item) BY <1>15 DEF ClientReads, TypeOK
  <2>2. Head(out).ids \subseteq Requests BY <2>1 DEF Item
  <2> QED BY <1>15, <2>1, <2>2 DEF ClientReads, Apply, TypeOK, soulVars, toolVars, recordVars
<1>16. ASSUME UNCHANGED vars PROVE TypeOK'
  BY <1>16 DEF TypeOK, vars, soulVars, toolVars, recordVars, wireVars
<1> QED
  BY <1>1, <1>2, <1>3, <1>4, <1>5, <1>6, <1>7, <1>8, <1>9, <1>10, <1>11, <1>12, <1>13, <1>14,
     <1>15, <1>16 DEF Next, TurnStep, AgentStep, SoulStep, WireStep

-----------------------------------------------------------------------------
(* Three kinds of steps: a tool asks, the wire moves a message, and all the *)
(* rest, which settles records while they are pending or leaves them alone. *)

Settles ==
  \E ids \in SUBSET Pending :
    \/ \E v \in Verdicts : Close(ids, "resolved", v, v)
    \/ Close(ids, "cancelled", "reject", "cancelled")

Quiet ==
  /\ UNCHANGED <<recordVars, hub>> \/ Settles
  /\ \A r \in Requests : tool'[r] = "new" <=> tool[r] = "new"
  /\ UNCHANGED <<owner, action, initialized, out>>
  /\ serverPending' \subseteq serverPending /\ cards' \subseteq cards
  /\ \A r \in Requests : said[r] \subseteq said'[r] /\ (r \notin cards => said'[r] = said[r])

LEMMA ResolveSettles ==
  ASSUME NEW ids, NEW v \in Verdicts, Resolve(ids, v) PROVE Settles
BY DEF Resolve, Settles

LEMMA CancelSettles ==
  ASSUME NEW s, CancelBySource(s) PROVE Settles
BY DEF CancelBySource, Settles

LEMMA StepKinds ==
  ASSUME TypeOK, [Next]_vars
  PROVE  \/ Quiet
         \/ \E r \in Requests, s \in Souls, a \in Actions : ToolAsks(r, s, a)
         \/ WireStep
<1>0. "approve" \in Verdicts /\ "reject" \in Verdicts BY DEF Verdicts
<1>1. ASSUME NEW t \in Turns, TurnStep(t) PROVE Quiet
  <2>1. CASE PromptDone(t)
    <3>1. Settles BY <1>0, <2>1, ResolveSettles DEF PromptDone
    <3> QED BY <2>1, <3>1 DEF PromptDone, toolVars, Quiet
  <2> QED BY <1>1, <2>1 DEF TurnStep, StartTurn, CancelTurn, toolVars, wireVars, Quiet
<1>2. ASSUME NEW s \in Subs \cup Bgs, AgentStep(s) PROVE Quiet
  <2>1. CASE RunnerEnds(s)
    <3>1. Settles BY <2>1, CancelSettles DEF RunnerEnds
    <3> QED BY <2>1, <3>1 DEF RunnerEnds, toolVars, Quiet
  <2> QED BY <1>2, <2>1 DEF AgentStep, StartAgent, toolVars, wireVars, Quiet
<1>3. ASSUME NEW b \in Bgs, KillAgent(b) \/ AgentTimesOut(b) PROVE Quiet
  <2>1. CASE KillAgent(b)
    <3>1. Settles BY <2>1, CancelSettles DEF KillAgent
    <3> QED BY <2>1, <3>1 DEF KillAgent, toolVars, Quiet
  <2>2. CASE AgentTimesOut(b)
    BY <2>2 DEF AgentTimesOut, toolVars, wireVars, Quiet
  <2> QED BY <1>3, <2>1, <2>2
<1>4. ASSUME NEW s \in Souls, SoulStep(s) PROVE Quiet
  <2>1. ASSUME CancelTools(s), UNCHANGED <<owner, action, recordVars, wireVars>> PROVE Quiet
    <3>1. \A r \in Requests : tool'[r] = "new" <=> tool[r] = "new"
      BY <2>1 DEF CancelTools, Waiting
    <3> QED BY <2>1, <3>1 DEF Quiet, wireVars
  <2>2. CASE SoulEnds(s)
    <3>1. Settles \/ UNCHANGED <<recordVars, hub>> BY <2>2, CancelSettles DEF SoulEnds
    <3> QED BY <2>2, <3>1 DEF SoulEnds, toolVars, Quiet
  <2> QED BY <1>4, <2>1, <2>2 DEF SoulStep, StepFails, Unwind
<1>5. ASSUME NEW r \in Requests, ToolResumes(r) PROVE Quiet
  <2>1. \A q \in Requests : tool'[q] = "new" <=> tool[q] = "new"
    BY <1>5 DEF ToolResumes, TypeOK
  <2>2. Settles \/ UNCHANGED <<recordVars, hub>>
    <3>1. CASE told[r] = "session"
      <4>1. Resolve({q \in Pending : action[q] = action[r]}, "approve")
        BY <1>5, <3>1 DEF ToolResumes, ApproveForSession
      <4> QED BY <1>0, <4>1, ResolveSettles
    <3>2. CASE told[r] # "session"
      BY <1>5, <3>2 DEF ToolResumes
    <3> QED BY <3>1, <3>2
  <2> QED BY <1>5, <2>1, <2>2 DEF ToolResumes, Quiet
<1>6. ASSUME NEW r \in Requests, NEW v \in Verdicts, UserAnswers(r, v) PROVE Quiet
  <2>1. Settles \/ UNCHANGED <<recordVars, hub>>
    <3>1. CASE r \in serverPending
      BY <1>6, <3>1, ResolveSettles DEF UserAnswers
    <3>2. CASE r \notin serverPending
      BY <1>6, <3>2 DEF UserAnswers
    <3> QED BY <3>1, <3>2
  <2>2. \A q \in Requests : said[q] \subseteq said'[q] /\ (q \notin cards => said'[q] = said[q])
    BY <1>6 DEF UserAnswers, TypeOK
  <2> QED BY <1>6, <2>1, <2>2 DEF UserAnswers, toolVars, Quiet
<1>7. CASE UNCHANGED vars
  BY <1>7 DEF vars, toolVars, wireVars, Quiet
<1> QED BY <1>1, <1>2, <1>3, <1>4, <1>5, <1>6, <1>7 DEF Next

LEMMA WireQuiet == ASSUME WireStep PROVE UNCHANGED <<toolVars, recordVars, auto, said>>
BY DEF WireStep, Initialize, HubRelays, ClientReads

LEMMA AskedNext == TypeOK /\ Asked /\ [Next]_vars => Asked'
<1> SUFFICES ASSUME TypeOK, Asked, [Next]_vars PROVE Asked' OBVIOUS
<1>1. CASE Quiet
  BY <1>1 DEF Quiet, Asked
<1>2. ASSUME NEW r \in Requests, NEW s \in Souls, NEW a \in Actions, ToolAsks(r, s, a)
      PROVE  Asked'
  <2>1. /\ owner' = [owner EXCEPT ![r] = s] /\ action' = [action EXCEPT ![r] = a]
        /\ \A q \in Requests : q # r => tool'[q] = tool[q]
    BY <1>2 DEF ToolAsks, TypeOK
  <2> QED BY <2>1 DEF Asked, TypeOK
<1>3. CASE WireStep
  BY <1>3, WireQuiet DEF toolVars, Asked
<1> QED BY <1>1, <1>2, <1>3, StepKinds

(* Every variable keeps its type: a queue holds only messages about known   *)
(* requests, a record only answers there are, and the session's approvals   *)
(* only actions a tool asked for.                                           *)
THEOREM TypeCorrect == Spec => []TypeOK
<1>1. TypeOK /\ Asked /\ [Next]_vars => (TypeOK /\ Asked)' BY TypeNext, AskedNext
<1> QED BY TypeInit, <1>1, PTL DEF Spec

-----------------------------------------------------------------------------
(* What a tool is told and what its record says agree, whatever arrives     *)
(* later: the invariant is inductive as it stands, as every call but the    *)
(* first finds a record that is no longer pending.                          *)
LEMMA VerdictNext == TypeOK /\ VerdictIsFinal /\ [Next]_vars => VerdictIsFinal'
<1> SUFFICES ASSUME TypeOK, VerdictIsFinal, [Next]_vars PROVE VerdictIsFinal' OBVIOUS
<1>1. CASE UNCHANGED recordVars
  BY <1>1 DEF recordVars, VerdictIsFinal
<1>2. ASSUME NEW r \in Requests, NEW s \in Souls, NEW a \in Actions, ToolAsks(r, s, a)
      PROVE  VerdictIsFinal'
  <2>1. told'[r] \in {"yolo", "cached", None}
    BY <1>2 DEF ToolAsks, TypeOK
  <2>2. told'[r] \notin Verdicts /\ told'[r] # "cancelled"
    BY <2>1, ApprovalsAssumption DEF Verdicts
  <2>3. \A q \in Requests : q # r => status'[q] = status[q] /\ told'[q] = told[q]
    BY <1>2 DEF ToolAsks, TypeOK
  <2>4. response' = response BY <1>2 DEF ToolAsks
  <2> QED BY <2>2, <2>3, <2>4 DEF VerdictIsFinal
<1>3. CASE Settles
  <2>1. PICK ids \in SUBSET Pending :
          \/ \E v \in Verdicts : Close(ids, "resolved", v, v)
          \/ Close(ids, "cancelled", "reject", "cancelled")
    BY <1>3 DEF Settles
  <2>2. \A r \in ids : r \in Requests /\ status[r] = "pending" BY DEF Pending
  <2>3. \A r \in ids : told[r] \notin Verdicts /\ told[r] # "cancelled"
    BY <2>2 DEF VerdictIsFinal
  <2>4. ASSUME NEW v \in Verdicts, Close(ids, "resolved", v, v) PROVE VerdictIsFinal'
    <3>1. \A r \in Requests : r \notin ids =>
            told'[r] = told[r] /\ status'[r] = status[r] /\ response'[r] = response[r]
      BY <2>4 DEF Close
    <3>2. \A r \in ids : status'[r] = "resolved" /\ response'[r] = v /\ told'[r] \in {told[r], v}
      BY <2>2, <2>4 DEF Close
    <3>3. v # "cancelled" BY DEF Verdicts
    <3> QED BY <2>3, <3>1, <3>2, <3>3 DEF VerdictIsFinal
  <2>5. ASSUME Close(ids, "cancelled", "reject", "cancelled") PROVE VerdictIsFinal'
    <3>1. \A r \in Requests : r \notin ids =>
            told'[r] = told[r] /\ status'[r] = status[r] /\ response'[r] = response[r]
      BY <2>5 DEF Close
    <3>2. \A r \in ids : status'[r] = "cancelled" /\ told'[r] \in {told[r], "cancelled"}
      BY <2>2, <2>5 DEF Close
    <3>3. "cancelled" \notin Verdicts BY DEF Verdicts
    <3> QED BY <2>3, <3>1, <3>2, <3>3 DEF VerdictIsFinal
  <2> QED BY <2>1, <2>4, <2>5
<1> QED BY <1>1, <1>2, <1>3, StepKinds, WireQuiet DEF Quiet

(* The tool and the record never disagree: a second answer, a cancellation  *)
(* or an approval for the session that arrives after the first verdict      *)
(* changes neither.                                                         *)
THEOREM VerdictsFinal == Spec => []VerdictIsFinal
<1>1. Init => VerdictIsFinal
  <2> SUFFICES ASSUME Init PROVE VerdictIsFinal OBVIOUS
  <2>1. \A r \in Requests : told[r] \notin Verdicts /\ told[r] # "cancelled"
    BY ApprovalsAssumption DEF Init, Verdicts
  <2> QED BY <2>1 DEF VerdictIsFinal
<1> QED BY <1>1, VerdictNext, TypeCorrect, PTL DEF Spec

-----------------------------------------------------------------------------
(* A tool that has not asked has no record and no answer, and nobody knows  *)
(* of it: what travels, and what the user has seen, has a record.           *)

Made == {r \in Requests : status[r] # "none"}
Over(q, S) == \A i \in 1..Len(q) : q[i].ids \subseteq S
Known ==
  /\ \A r \in Requests : tool[r] = "new" => status[r] = "none" /\ told[r] = None /\ said[r] = {}
  /\ Over(hub, Made) /\ Over(out, Made)
  /\ serverPending \subseteq Made /\ cards \subseteq Made

LEMMA OverAppend ==
  ASSUME NEW S, NEW q \in Seq(Item), NEW x \in Item, Over(q, S), x.ids \subseteq S
  PROVE  Over(Append(q, x), S)
BY DEF Over

LEMMA OverTail ==
  ASSUME NEW S, NEW q \in Seq(Item), q # <<>>, Over(q, S)
  PROVE  Over(Tail(q), S) /\ Head(q).ids \subseteq S
BY DEF Over

LEMMA OverMore ==
  ASSUME NEW S, NEW T, NEW q, S \subseteq T, Over(q, S)
  PROVE  Over(q, T)
BY DEF Over

LEMMA SettlesMade ==
  ASSUME TypeOK, Known, Settles
  PROVE  /\ Made \subseteq Made' /\ Over(hub', Made')
         /\ \A r \in Requests \ Made : status'[r] = status[r] /\ told'[r] = told[r]
<1>1. PICK ids \in SUBSET Pending, st \in {"resolved", "cancelled"}, v \in Verdicts,
          res \in Verdicts \cup {"cancelled"} :
        Close(ids, st, v, res)
  <2>1. "reject" \in Verdicts BY DEF Verdicts
  <2> QED BY <2>1 DEF Settles
<1>2. Made \subseteq Made' BY <1>1 DEF Close, Made
<1>3. ids \in SUBSET Requests /\ ids \subseteq Made BY DEF Pending, Made
<1>4. Settle(ids) \in Item /\ Settle(ids).ids = ids BY <1>3 DEF Settle, Item
<1>5. Over(hub, Made') /\ ids \subseteq Made' BY <1>2, <1>3, OverMore DEF Known
<1>6. Over(hub', Made')
  BY <1>1, <1>4, <1>5, OverAppend DEF TypeOK, Close, Publish
<1>7. \A r \in Requests \ Made : status'[r] = status[r] /\ told'[r] = told[r]
  BY <1>1, <1>3 DEF Close
<1> QED BY <1>2, <1>6, <1>7

LEMMA KnownNext == TypeOK /\ Known /\ [Next]_vars => Known'
<1> SUFFICES ASSUME TypeOK, Known, [Next]_vars PROVE Known' OBVIOUS
<1>1. CASE Quiet
  <2>1. /\ Made \subseteq Made' /\ Over(hub', Made')
        /\ \A r \in Requests \ Made : status'[r] = status[r] /\ told'[r] = told[r]
    <3>1. CASE UNCHANGED <<recordVars, hub>>
      BY <3>1 DEF recordVars, Made, Known
    <3> QED BY <1>1, <3>1, SettlesMade DEF Quiet
  <2>2. Over(out', Made') BY <1>1, <2>1, OverMore DEF Quiet, Known
  <2>3. ASSUME NEW r \in Requests, tool'[r] = "new"
        PROVE  status'[r] = "none" /\ told'[r] = None /\ said'[r] = {}
    <3>1. tool[r] = "new" BY <1>1, <2>3 DEF Quiet
    <3>2. status[r] = "none" /\ told[r] = None /\ said[r] = {} BY <3>1 DEF Known
    <3>3. r \notin Made /\ r \notin cards BY <3>2 DEF Made, Known
    <3> QED BY <1>1, <2>1, <3>2, <3>3 DEF Quiet
  <2>4. serverPending' \subseteq Made' /\ cards' \subseteq Made'
    BY <1>1, <2>1 DEF Quiet, Known
  <2> QED BY <2>1, <2>2, <2>3, <2>4 DEF Known
<1>2. ASSUME NEW r \in Requests, NEW s \in Souls, NEW a \in Actions, ToolAsks(r, s, a)
      PROVE  Known'
  <2>1. PICK why \in {"yolo", IF a \in auto THEN "cached" ELSE None} :
          /\ told' = [told EXCEPT ![r] = why]
          /\ tool' = [tool EXCEPT ![r] = IF why = None THEN "waiting" ELSE "granted"]
          /\ status' = [status EXCEPT ![r] = IF why = None THEN "pending" ELSE @]
          /\ Publish(Ask(IF why = None THEN {r} ELSE {}))
    BY <1>2 DEF ToolAsks
  <2>2. Made \subseteq Made' /\ (why = None => r \in Made')
    BY <2>1 DEF Made, TypeOK
  <2>3. Over(hub', Made')
    <3>1. Over(hub, Made') BY <2>2, OverMore DEF Known
    <3>2. CASE why = None
      <4>1. Ask({r}) \in Item /\ Ask({r}).ids = {r} BY DEF Ask, Item
      <4>2. hub' = Append(hub, Ask({r})) BY <2>1, <3>2, <4>1 DEF Publish
      <4> QED BY <2>2, <3>1, <3>2, <4>1, <4>2, OverAppend DEF TypeOK
    <3>3. CASE why # None
      <4>1. hub' = hub BY <2>1, <3>3 DEF Publish, Ask
      <4> QED BY <3>1, <4>1
    <3> QED BY <3>2, <3>3
  <2>4. Over(out', Made') BY <1>2, <2>2, OverMore DEF ToolAsks, Known
  <2>5. tool'[r] # "new" /\ \A q \in Requests \ {r} :
          tool'[q] = tool[q] /\ status'[q] = status[q] /\ told'[q] = told[q]
    BY <2>1 DEF TypeOK
  <2>6. said' = said /\ serverPending' = serverPending /\ cards' = cards BY <1>2 DEF ToolAsks
  <2> QED BY <2>2, <2>3, <2>4, <2>5, <2>6 DEF Known
<1>3. CASE WireStep
  <2>1. UNCHANGED <<tool, status, told, said>> BY <1>3, WireQuiet DEF toolVars, recordVars
  <2>2. Made' = Made BY <2>1 DEF Made
  <2>3. /\ Over(hub', Made) /\ Over(out', Made)
        /\ serverPending' \subseteq Made /\ cards' \subseteq Made
    <3>1. CASE Initialize
      <4>1. Pending \subseteq Made BY DEF Pending, Made
      <4>2. Ask(Pending) \in Item /\ Ask(Pending).ids = Pending BY DEF Ask, Item, Pending
      <4> QED BY <3>1, <4>1, <4>2, OverAppend DEF Initialize, Known, TypeOK
    <3>2. CASE HubRelays
      <4>0. hub \in Seq(Item) /\ hub # <<>> BY <3>2 DEF HubRelays, TypeOK
      <4>1. Over(Tail(hub), Made) /\ Head(hub).ids \subseteq Made
        BY <4>0, OverTail DEF Known
      <4>2. Over(Append(out, Head(hub)), Made)
        <5>1. Head(hub) \in Item BY <4>0
        <5> QED BY <4>1, <5>1, OverAppend DEF Known, TypeOK
      <4>3. Apply(Head(hub), serverPending) \subseteq Made BY <4>1 DEF Apply, Known
      <4> QED BY <3>2, <4>1, <4>2, <4>3 DEF HubRelays, Known
    <3>3. CASE ClientReads
      <4>1. Over(Tail(out), Made) /\ Head(out).ids \subseteq Made
        BY <3>3, OverTail DEF ClientReads, Known, TypeOK
      <4>2. Apply(Head(out), cards) \subseteq Made BY <4>1 DEF Apply, Known
      <4> QED BY <3>3, <4>1, <4>2 DEF ClientReads, Known
    <3> QED BY <1>3, <3>1, <3>2, <3>3 DEF WireStep
  <2> QED BY <2>1, <2>2, <2>3 DEF Known
<1> QED BY <1>1, <1>2, <1>3, StepKinds

LEMMA KnownAlways == Spec => [](TypeOK /\ Asked /\ Known)
<1>1. Init => Known
  <2> SUFFICES ASSUME Init PROVE Known OBVIOUS
  <2>1. Over(hub, Made) /\ Over(out, Made) BY DEF Init, Over
  <2> QED BY <2>1 DEF Init, Known
<1>2. TypeOK /\ Asked /\ Known /\ [Next]_vars => (TypeOK /\ Asked /\ Known)'
  BY TypeNext, AskedNext, KnownNext
<1> QED BY TypeInit, <1>1, <1>2, PTL DEF Spec

-----------------------------------------------------------------------------
(* An approval for the session covers what is pending and what will be,     *)
(* from the step in which the tool that was told of it resumes.             *)

AutoCovers == \A r \in Pending : action[r] \notin auto

LEMMA SettlesLess == ASSUME Settles PROVE Pending' \subseteq Pending
BY DEF Settles, Close, Pending

LEMMA CoversNext == TypeOK /\ Known /\ AutoCovers /\ [Next]_vars => AutoCovers'
<1> SUFFICES ASSUME TypeOK, Known, AutoCovers, [Next]_vars
             PROVE  AutoCovers'
  OBVIOUS
<1>1. ASSUME NEW r \in Requests, ToolResumes(r), told[r] = "session" PROVE AutoCovers'
  <2>1. /\ action' = action /\ auto' = auto \cup {action[r]}
        /\ Resolve({q \in Pending : action[q] = action[r]}, "approve")
    BY <1>1 DEF ToolResumes, ApproveForSession
  <2>2. \A q \in Pending' : q \in Pending /\ action[q] # action[r]
    BY <2>1 DEF Resolve, Close, Pending
  <2> QED BY <2>1, <2>2 DEF AutoCovers
<1>2. CASE Quiet /\ auto' = auto
  <2>1. Pending' \subseteq Pending
    BY <1>2, SettlesLess DEF Quiet, recordVars, Pending
  <2> QED BY <1>2, <2>1 DEF Quiet, AutoCovers
<1>3. CASE WireStep
  BY <1>3, WireQuiet DEF toolVars, recordVars, Pending, AutoCovers
<1>4. ASSUME NEW r \in Requests, NEW s \in Souls, NEW a \in Actions, ToolAsks(r, s, a)
      PROVE  AutoCovers'
  <2>1. PICK why \in {"yolo", IF a \in auto THEN "cached" ELSE None} :
          status' = [status EXCEPT ![r] = IF why = None THEN "pending" ELSE @]
    BY <1>4 DEF ToolAsks
  <2>2. action' = [action EXCEPT ![r] = a] /\ auto' = auto BY <1>4 DEF ToolAsks
  <2>3. status[r] = "none" BY <1>4 DEF ToolAsks, Known
  <2>4. r \in Pending' => a \notin auto
    BY <2>1, <2>3, ApprovalsAssumption DEF Pending, TypeOK
  <2>5. \A q \in Pending' : q # r => q \in Pending BY <2>1 DEF Pending, TypeOK
  <2> QED BY <2>2, <2>4, <2>5 DEF AutoCovers, Pending, TypeOK
<1>5. auto' = auto \/ (\E r \in Requests : ToolResumes(r) /\ told[r] = "session") \/ WireStep
      \/ (\E r \in Requests, s \in Souls, a \in Actions : ToolAsks(r, s, a))
  BY DEF Next, TurnStep, StartTurn, CancelTurn, PromptDone, AgentStep, StartAgent, RunnerEnds,
         KillAgent, AgentTimesOut, SoulStep, StepFails, Unwind, SoulEnds, ToolResumes, UserAnswers,
         vars
<1> QED BY <1>1, <1>2, <1>3, <1>4, <1>5, StepKinds

\* A pending request's tool waits and has not been told, or was cancelled; an
\* answer "for this session" was told to the tool that waits, and has been
\* carried out by one that went on.
SessionTold ==
  \A r \in Requests :
    /\ status[r] = "pending" => tool[r] = "gone" \/ (tool[r] = "waiting" /\ told[r] = None)
    /\ response[r] = "session" =>
         \/ tool[r] = "waiting" /\ told[r] = "session"
         \/ tool[r] = "gone"
         \/ tool[r] # "new" /\ action[r] \in auto

LEMMA ToolMoves ==
  ASSUME TypeOK, [Next]_vars, ~ WireStep,
         ~ (\E r \in Requests, s \in Souls, a \in Actions : ToolAsks(r, s, a))
  PROVE  /\ auto \subseteq auto'
         /\ \A r \in Requests :
              \/ tool'[r] = tool[r]
              \/ tool[r] = "waiting" /\ tool'[r] = "gone"
              \/ /\ tool[r] = "waiting" /\ told[r] # None /\ tool'[r] \in {"granted", "refused"}
                 /\ told[r] = "session" => action[r] \in auto'
<1>1. ASSUME NEW s, CancelTools(s), auto' = auto
      PROVE  \A r \in Requests : tool'[r] = tool[r] \/ (tool[r] = "waiting" /\ tool'[r] = "gone")
  BY <1>1 DEF CancelTools, Waiting
<1>2. ASSUME NEW q \in Requests, ToolResumes(q)
      PROVE  /\ auto \subseteq auto'
             /\ \A r \in Requests :
                  \/ tool'[r] = tool[r]
                  \/ /\ tool[r] = "waiting" /\ told[r] # None /\ tool'[r] \in {"granted", "refused"}
                     /\ told[r] = "session" => action[r] \in auto'
  BY <1>2 DEF ToolResumes, ApproveForSession, TypeOK
<1>3. \/ tool' = tool /\ auto' = auto
      \/ \E s \in Souls : CancelTools(s) /\ auto' = auto
      \/ \E q \in Requests : ToolResumes(q)
  BY DEF Next, TurnStep, StartTurn, CancelTurn, PromptDone, AgentStep, StartAgent, RunnerEnds, KillAgent,
         AgentTimesOut, SoulStep, StepFails, Unwind, SoulEnds, UserAnswers, vars, toolVars
<1> QED BY <1>1, <1>2, <1>3

LEMMA SessionToldNext == TypeOK /\ Known /\ SessionTold /\ [Next]_vars => SessionTold'
<1> SUFFICES ASSUME TypeOK, Known, SessionTold, [Next]_vars PROVE SessionTold' OBVIOUS
<1>1. CASE WireStep
  <2>1. UNCHANGED <<status, tool, told, response, action, auto>>
    BY <1>1, WireQuiet DEF toolVars, recordVars
  <2> QED BY <2>1 DEF SessionTold
<1>2. ASSUME NEW r \in Requests, NEW s \in Souls, NEW a \in Actions, ToolAsks(r, s, a) PROVE SessionTold'
  <2>1. PICK why \in {"yolo", IF a \in auto THEN "cached" ELSE None} :
          /\ told' = [told EXCEPT ![r] = why]
          /\ tool' = [tool EXCEPT ![r] = IF why = None THEN "waiting" ELSE "granted"]
          /\ status' = [status EXCEPT ![r] = IF why = None THEN "pending" ELSE @]
    BY <1>2 DEF ToolAsks
  <2>2. UNCHANGED <<response, auto>> /\ action' = [action EXCEPT ![r] = a] BY <1>2 DEF ToolAsks
  <2>3. tool[r] = "new" /\ status[r] = "none" /\ response[r] # "session"
    BY <1>2 DEF ToolAsks, Known, SessionTold
  <2>4. \A q \in Requests : q # r =>
          tool'[q] = tool[q] /\ told'[q] = told[q] /\ status'[q] = status[q] /\ action'[q] = action[q]
    BY <2>1, <2>2 DEF TypeOK
  <2>5. status'[r] = "pending" => tool'[r] = "waiting" /\ told'[r] = None
    BY <2>1, <2>3 DEF TypeOK
  <2> QED BY <2>2, <2>3, <2>4, <2>5 DEF SessionTold
<1>3. ASSUME ~ WireStep, ~ (\E r \in Requests, s \in Souls, a \in Actions : ToolAsks(r, s, a))
      PROVE  SessionTold'
  <2>1. Quiet BY <1>3, StepKinds
  <2>2. action' = action /\ \A r \in Requests : tool'[r] = "new" <=> tool[r] = "new" BY <2>1 DEF Quiet
  <2> DEFINE Stays(r) == told'[r] = told[r] /\ status'[r] = status[r] /\ response'[r] = response[r]
             Closed(r) == /\ status[r] = "pending" /\ status'[r] # "pending"
                          /\ tool[r] = "waiting" /\ told[r] = None /\ response'[r] = "session" => told'[r] = "session"
  <2>3. \A r \in Requests : Stays(r) \/ Closed(r)
    <3>1. CASE UNCHANGED recordVars BY <3>1 DEF recordVars
    <3>2. CASE Settles
      <4>1. PICK ids \in SUBSET Pending :
              \/ \E v \in Verdicts : Close(ids, "resolved", v, v)
              \/ Close(ids, "cancelled", "reject", "cancelled")
        BY <3>2 DEF Settles
      <4>2. ASSUME NEW r \in ids PROVE Closed(r)
        BY <4>1 DEF Pending, Close
      <4>3. ASSUME NEW r \in Requests \ ids PROVE Stays(r)
        BY <4>1 DEF Close
      <4> QED BY <4>2, <4>3
    <3> QED BY <2>1, <3>1, <3>2 DEF Quiet, recordVars
  <2>4. ASSUME NEW r \in Requests, Closed(r)
        PROVE  /\ status'[r] # "pending"
               /\ response'[r] = "session" => (tool'[r] = "waiting" /\ told'[r] = "session") \/ tool'[r] = "gone"
    <3>1. tool[r] = "gone" \/ (tool[r] = "waiting" /\ told[r] = None) BY <2>4 DEF SessionTold
    <3>2. tool'[r] = tool[r] \/ tool'[r] = "gone" BY <1>3, <3>1, ToolMoves
    <3> QED BY <2>4, <3>1, <3>2
  <2>5. ASSUME NEW r \in Requests, Stays(r)
        PROVE  /\ status'[r] = "pending" => tool'[r] = "gone" \/ (tool'[r] = "waiting" /\ told'[r] = None)
               /\ response'[r] = "session" =>
                    \/ tool'[r] = "waiting" /\ told'[r] = "session"
                    \/ tool'[r] = "gone"
                    \/ tool'[r] # "new" /\ action'[r] \in auto'
    BY <1>3, <2>2, <2>5, ToolMoves DEF SessionTold
  <2> QED BY <2>3, <2>4, <2>5 DEF SessionTold
<1> QED BY <1>1, <1>2, <1>3

(* Once the user has approved an action for the session, and the tool that  *)
(* asked has gone on, the action is approved and no request for it waits    *)
(* for the user, be it made before or after; unless that tool was cancelled *)
(* before it went on.                                                       *)
THEOREM SessionApprovalHolds == Spec => []SessionApprovalCovers
<1>1. Init => AutoCovers /\ SessionTold
  <2> SUFFICES ASSUME Init PROVE AutoCovers /\ SessionTold OBVIOUS
  <2>1. \A r \in Requests : response[r] # "session" /\ status[r] = "none"
    BY ApprovalsAssumption DEF Init
  <2> QED BY <2>1 DEF AutoCovers, SessionTold, Pending
<1>2. TypeOK /\ Asked /\ Known /\ AutoCovers /\ SessionTold /\ [Next]_vars => AutoCovers' /\ SessionTold'
  BY CoversNext, SessionToldNext
<1>3. AutoCovers /\ SessionTold => SessionApprovalCovers
  BY DEF AutoCovers, SessionTold, SessionApprovalCovers
<1> QED BY <1>1, <1>2, <1>3, KnownAlways, PTL DEF Spec

-----------------------------------------------------------------------------
(* The user's word stands behind every grant: behind each approval a tool   *)
(* was told and behind each action approved for the session.                *)

BySession(a) == \E q \in Requests : tool[q] # "new" /\ action[q] = a /\ "session" \in said[q]
Backed ==
  \A r \in Requests :
    /\ told[r] = "session" => "session" \in said[r]
    /\ told[r] = "approve" => "approve" \in said[r] \/ BySession(action[r])
    /\ told[r] = "cached" => BySession(action[r])
    /\ tool[r] = "granted" => told[r] \in {"approve", "session", "cached", "yolo"}
AutoBacked == \A a \in auto : BySession(a)

\* A session's word is never lost: what was asked for stays, and what was said.
LEMMA BySessionStays ==
  ASSUME TypeOK, Known, [Next]_vars
  PROVE  \A q \in Requests : tool[q] # "new" =>
           tool'[q] # "new" /\ action'[q] = action[q] /\ said[q] \subseteq said'[q]
<1>1. CASE Quiet
  BY <1>1 DEF Quiet
<1>2. CASE WireStep
  BY <1>2, WireQuiet DEF toolVars
<1>3. ASSUME NEW r \in Requests, NEW s \in Souls, NEW b \in Actions, ToolAsks(r, s, b),
             NEW q \in Requests, tool[q] # "new"
      PROVE  tool'[q] # "new" /\ action'[q] = action[q] /\ said[q] \subseteq said'[q]
  <2>1. q # r BY <1>3 DEF ToolAsks
  <2> QED BY <1>3, <2>1 DEF ToolAsks, TypeOK
<1> QED BY <1>1, <1>2, <1>3, StepKinds

\* How one tool may get or keep its verdict while the user's word stands behind it.
KeptOrBacked(r) ==
  \/ /\ told'[r] = told[r]
     /\ tool'[r] = "granted" =>
          tool[r] = "granted" \/ told[r] \in {"approve", "session", "cached", "yolo"}
  \/ /\ tool'[r] # "granted"
     /\ \/ told'[r] \in {"reject", "cancelled"}
        \/ told'[r] = "session" /\ "session" \in said'[r]
        \/ told'[r] = "approve" /\ ("approve" \in said'[r] \/ BySession(action[r]))

LEMMA BackedStep ==
  ASSUME TypeOK, Known, Backed, [Next]_vars, Quiet, \A r \in Requests : KeptOrBacked(r)
  PROVE  Backed'
<1>1. action' = action /\ \A r \in Requests : said[r] \subseteq said'[r] BY DEF Quiet
<1>2. \A r \in Requests : BySession(action[r]) => BySession(action[r])'
  BY <1>1, BySessionStays DEF BySession
<1> QED BY <1>1, <1>2 DEF Backed, KeptOrBacked

\* What a closing call tells a tool.
LEMMA CloseTells ==
  ASSUME NEW ids \in SUBSET Pending, NEW st, NEW v, NEW res, Close(ids, st, v, res),
         NEW r \in Requests
  PROVE  told'[r] = told[r] \/ (r \in ids /\ tool[r] = "waiting" /\ told'[r] = res)
BY DEF Close

LEMMA CancelTells ==
  ASSUME NEW s, CancelBySource(s), tool' = tool, NEW r \in Requests
  PROVE  KeptOrBacked(r)
<1>1. told'[r] = told[r] \/ (tool[r] = "waiting" /\ told'[r] = "cancelled")
  BY CloseTells DEF CancelBySource
<1> QED BY <1>1 DEF KeptOrBacked

LEMMA ResolveTells ==
  ASSUME NEW ids, NEW v \in Verdicts, Resolve(ids, v), NEW r \in Requests
  PROVE  told'[r] = told[r] \/ (r \in ids \cap Pending /\ tool[r] = "waiting" /\ told'[r] = v)
BY CloseTells DEF Resolve

LEMMA TellsBacked ==
  ASSUME TypeOK, Asked, Known, Backed, AutoBacked, [Next]_vars,
         ~ (\E r \in Requests, s \in Souls, a \in Actions : ToolAsks(r, s, a)), ~ WireStep,
         NEW r \in Requests
  PROVE  KeptOrBacked(r)
<1>0. "approve" \in Verdicts /\ "reject" \in Verdicts /\ "session" \in Verdicts BY DEF Verdicts
<1>1. ASSUME NEW t \in Turns, TurnStep(t) PROVE KeptOrBacked(r)
  <2>1. CASE PromptDone(t)
    <3>1. told'[r] = told[r] \/ (tool[r] = "waiting" /\ told'[r] = "reject")
      BY <1>0, <2>1, ResolveTells DEF PromptDone
    <3> QED BY <2>1, <3>1 DEF PromptDone, toolVars, KeptOrBacked
  <2> QED BY <1>1, <2>1 DEF TurnStep, StartTurn, CancelTurn, toolVars, recordVars, KeptOrBacked
<1>2. ASSUME NEW s \in Subs \cup Bgs, AgentStep(s) PROVE KeptOrBacked(r)
  <2>1. CASE RunnerEnds(s) BY <2>1, CancelTells DEF RunnerEnds, toolVars
  <2> QED BY <1>2, <2>1 DEF AgentStep, StartAgent, toolVars, recordVars, KeptOrBacked
<1>3. ASSUME NEW b \in Bgs, KillAgent(b) \/ AgentTimesOut(b) PROVE KeptOrBacked(r)
  BY <1>3, CancelTells DEF KillAgent, AgentTimesOut, toolVars, recordVars, KeptOrBacked
<1>4. ASSUME NEW s \in Souls, SoulStep(s) PROVE KeptOrBacked(r)
  <2>1. ASSUME CancelTools(s), UNCHANGED recordVars PROVE KeptOrBacked(r)
    BY <2>1 DEF CancelTools, recordVars, KeptOrBacked
  <2>2. CASE SoulEnds(s)
    BY <2>2, CancelTells DEF SoulEnds, toolVars, recordVars, KeptOrBacked
  <2> QED BY <1>4, <2>1, <2>2 DEF SoulStep, StepFails, Unwind
<1>5. ASSUME NEW q \in Requests, ToolResumes(q) PROVE KeptOrBacked(r)
  <2>1. \/ tool'[r] = tool[r]
        \/ r = q /\ told[r] # None /\ (tool'[r] = "granted" => told[r] \notin {"reject", "cancelled"})
    BY <1>5 DEF ToolResumes, TypeOK
  <2>2. told[r] \in Verdicts \cup {"yolo", "cached", "cancelled", None} BY DEF TypeOK
  <2>3. tool'[r] = "granted" =>
          tool[r] = "granted" \/ told[r] \in {"approve", "session", "cached", "yolo"}
    BY <2>1, <2>2 DEF Verdicts
  <2>4. CASE told[q] # "session"
    BY <1>5, <2>3, <2>4 DEF ToolResumes, recordVars, KeptOrBacked
  <2>5. CASE told[q] = "session"
    <3>1. Resolve({p \in Pending : action[p] = action[q]}, "approve")
      BY <1>5, <2>5 DEF ToolResumes, ApproveForSession
    <3>2. \/ told'[r] = told[r]
          \/ r \in Pending /\ action[r] = action[q] /\ tool[r] = "waiting" /\ told'[r] = "approve"
      BY <1>0, <3>1, ResolveTells
    <3>3. BySession(action[q]) BY <1>5, <2>5 DEF ToolResumes, Backed, BySession
    <3>4. CASE told'[r] = told[r] BY <2>3, <3>4 DEF KeptOrBacked
    <3>5. CASE told'[r] # told[r]
      <4>1. r # q
        <5>1. told'[q] = told[q] BY <2>5, <3>1, ApprovalsAssumption DEF Resolve, Close
        <5> QED BY <3>5, <5>1
      <4>2. tool'[r] = "waiting" BY <1>5, <3>2, <3>5, <4>1 DEF ToolResumes, TypeOK
      <4> QED BY <3>2, <3>3, <3>5, <4>2 DEF KeptOrBacked
    <3> QED BY <3>4, <3>5
  <2> QED BY <2>4, <2>5
<1>6. ASSUME NEW q \in Requests, NEW v \in Verdicts, UserAnswers(q, v) PROVE KeptOrBacked(r)
  <2>1. told'[r] = told[r] \/ (r = q /\ tool[r] = "waiting" /\ told'[r] = v)
    <3>1. CASE q \in serverPending BY <1>6, <3>1, ResolveTells DEF UserAnswers
    <3>2. CASE q \notin serverPending BY <1>6, <3>2 DEF UserAnswers, recordVars
    <3> QED BY <3>1, <3>2
  <2>2. tool' = tool /\ v \in said'[q] BY <1>6 DEF UserAnswers, toolVars, TypeOK
  <2> QED BY <1>6, <2>1, <2>2 DEF Verdicts, KeptOrBacked
<1>7. CASE UNCHANGED vars
  BY <1>7 DEF vars, toolVars, recordVars, KeptOrBacked
<1> QED BY <1>1, <1>2, <1>3, <1>4, <1>5, <1>6, <1>7 DEF Next

LEMMA BackedNext ==
  TypeOK /\ Asked /\ Known /\ Backed /\ AutoBacked /\ [Next]_vars => Backed' /\ AutoBacked'
<1> SUFFICES ASSUME TypeOK, Asked, Known, Backed, AutoBacked, [Next]_vars
             PROVE  Backed' /\ AutoBacked'
  OBVIOUS
<1>1. \A a : BySession(a) =>
        \E q \in Requests : tool'[q] # "new" /\ action'[q] = a /\ "session" \in said'[q]
  BY BySessionStays DEF BySession
<1>2. AutoBacked'
  <2>1. \A a \in auto' : a \in auto \/ BySession(a)
    <3>1. ASSUME NEW r \in Requests, ToolResumes(r), told[r] = "session"
          PROVE  \A a \in auto' : a \in auto \/ BySession(a)
      BY <3>1 DEF ToolResumes, ApproveForSession, Backed, BySession
    <3> QED
      BY <3>1 DEF Next, TurnStep, StartTurn, CancelTurn, PromptDone, AgentStep, StartAgent,
         RunnerEnds, KillAgent, AgentTimesOut, SoulStep, StepFails, Unwind, SoulEnds, ToolResumes, UserAnswers,
         WireStep, Initialize, HubRelays, ClientReads, ToolAsks, vars
  <2> QED BY <1>1, <2>1 DEF AutoBacked, BySession
<1>3. Backed'
  <2>1. ASSUME NEW r \in Requests, NEW s \in Souls, NEW a \in Actions, ToolAsks(r, s, a)
        PROVE  Backed'
    <3>1. PICK why \in {"yolo", IF a \in auto THEN "cached" ELSE None} :
            /\ told' = [told EXCEPT ![r] = why]
            /\ tool' = [tool EXCEPT ![r] = IF why = None THEN "waiting" ELSE "granted"]
      BY <2>1 DEF ToolAsks
    <3>2. action' = [action EXCEPT ![r] = a] /\ said' = said BY <2>1 DEF ToolAsks
    <3>3. why \in {"yolo", "cached", None} /\ (why = "cached" => a \in auto)
      BY ApprovalsAssumption
    <3>4. /\ told'[r] = why /\ action'[r] = a
          /\ tool'[r] = "granted" => why # None
          /\ \A q \in Requests \ {r} :
               told'[q] = told[q] /\ tool'[q] = tool[q] /\ action'[q] = action[q]
      BY <3>1, <3>2 DEF TypeOK
    <3>5. why = "cached" => BySession(a) BY <3>3 DEF AutoBacked
    <3>6. \A q \in Requests \ {r} : BySession(action[q]) => BySession(action[q])'
      BY <1>1, <3>4 DEF BySession
    <3>7. why = "cached" => BySession(action[r])'
      BY <1>1, <3>4, <3>5 DEF BySession
    <3>8. why # "session" /\ why # "approve" BY <3>3, ApprovalsAssumption
    <3> QED BY <3>2, <3>3, <3>4, <3>6, <3>7, <3>8 DEF Backed
  <2>2. CASE WireStep
    BY <2>2, WireQuiet DEF toolVars, recordVars, Backed, BySession
  <2>3. CASE /\ ~ (\E r \in Requests, s \in Souls, a \in Actions : ToolAsks(r, s, a))
             /\ ~ WireStep
    BY <2>3, StepKinds, TellsBacked, BackedStep
  <2> QED BY <2>1, <2>2, <2>3
<1> QED BY <1>2, <1>3

(* No tool runs but on the user's word: a tool that was granted, in a       *)
(* session whose modes did not grant it, has the user's approval, or the    *)
(* user approved the same action for the session.                           *)
THEOREM GrantsBacked == Spec => []GrantedByUser
<1>1. Init => Backed /\ AutoBacked
  <2> SUFFICES ASSUME Init PROVE Backed /\ AutoBacked OBVIOUS
  <2>1. \A r \in Requests : told[r] \notin {"session", "approve", "cached"} /\ tool[r] = "new"
    BY ApprovalsAssumption DEF Init
  <2> QED BY <2>1 DEF Init, Backed, AutoBacked
<1>2. Backed => GrantedByUser
  BY DEF Backed, GrantedByUser, BySession
<1> QED BY <1>1, <1>2, BackedNext, KnownAlways, PTL DEF Spec

-----------------------------------------------------------------------------
(* What is left of a set of requests after a queue of messages: of those    *)
(* that mention a request, the last decides.                                *)

Silent(q, r) == \A i \in 1..Len(q) : r \notin q[i].ids
Last(q, r, i) == r \in q[i].ids /\ \A j \in i + 1..Len(q) : r \notin q[j].ids
LastAsks(q, r) == \E i \in 1..Len(q) : Last(q, r, i) /\ q[i].kind = "request"
After(q, S) == {r \in Requests : LastAsks(q, r) \/ (Silent(q, r) /\ r \in S)}

LEMMA AfterNil == ASSUME NEW S \in SUBSET Requests PROVE After(<<>>, S) = S
BY DEF After, Silent, LastAsks

LEMMA AfterAppend ==
  ASSUME NEW q \in Seq(Item), NEW x \in Item, NEW S
  PROVE  After(Append(q, x), S) = Apply(x, After(q, S))
<1> DEFINE p == Append(q, x)
<1>1. /\ Len(q) \in Nat /\ Len(p) = Len(q) + 1 /\ p[Len(q) + 1] = x
      /\ \A i \in 1..Len(q) : p[i] = q[i]
  OBVIOUS
<1>2. x.ids \subseteq Requests /\ x.kind \in {"request", "response"} BY DEF Item
<1> HIDE DEF p
<1>3. ASSUME NEW r \in Requests, r \in x.ids PROVE r \in After(p, S) <=> r \in Apply(x, After(q, S))
  <2>1. ~ Silent(p, r) BY <1>1, <1>3 DEF Silent
  <2>2. Last(p, r, Len(q) + 1) BY <1>1, <1>3 DEF Last
  <2>3. \A i \in 1..Len(p) : Last(p, r, i) => i = Len(q) + 1 BY <1>1, <1>3 DEF Last
  <2>4. LastAsks(p, r) <=> x.kind = "request" BY <1>1, <2>2, <2>3 DEF LastAsks
  <2> QED BY <1>3, <2>1, <2>4 DEF After, Apply
<1>4. ASSUME NEW r \in Requests, r \notin x.ids PROVE r \in After(p, S) <=> r \in Apply(x, After(q, S))
  <2>1. Silent(p, r) <=> Silent(q, r) BY <1>1, <1>4 DEF Silent
  <2>2. \A i \in 1..Len(q) : Last(p, r, i) <=> Last(q, r, i) BY <1>1, <1>4 DEF Last
  <2>3. ~ Last(p, r, Len(q) + 1) BY <1>1, <1>4 DEF Last
  <2>4. LastAsks(p, r) <=> LastAsks(q, r) BY <1>1, <2>2, <2>3 DEF LastAsks
  <2> QED BY <1>4, <2>1, <2>4 DEF After, Apply
<1>5. After(p, S) \subseteq Requests /\ Apply(x, After(q, S)) \subseteq Requests
  BY <1>2 DEF After, Apply
<1>6. After(p, S) = Apply(x, After(q, S)) BY <1>3, <1>4, <1>5
<1> QED BY <1>6 DEF p

LEMMA AfterHead ==
  ASSUME NEW q \in Seq(Item), q # <<>>, NEW S \in SUBSET Requests
  PROVE  After(q, S) = After(Tail(q), Apply(Head(q), S))
<1> DEFINE p == Tail(q)
<1> DEFINE x == Head(q)
<1>1. /\ Len(p) \in Nat /\ Len(q) = Len(p) + 1 /\ q[1] = x /\ x \in Item
      /\ \A i \in 1..Len(p) : q[i + 1] = p[i]
  OBVIOUS
<1>2. x.ids \subseteq Requests /\ x.kind \in {"request", "response"} BY <1>1 DEF Item
<1> HIDE DEF p, x
<1>3. ASSUME NEW r \in Requests PROVE r \in After(q, S) <=> r \in After(p, Apply(x, S))
  <2>1. \A i \in 2..Len(q) : i - 1 \in 1..Len(p) /\ q[i] = p[i - 1]
    <3>1. ASSUME NEW i \in 2..Len(q) PROVE i - 1 \in 1..Len(p) /\ q[i] = p[i - 1]
      <4>1. i - 1 \in 1..Len(p) BY <1>1
      <4> QED BY <1>1, <4>1
    <3> QED BY <3>1
  <2>2. Silent(q, r) <=> Silent(p, r) /\ r \notin x.ids
    <3>1. ASSUME Silent(q, r) PROVE Silent(p, r) /\ r \notin x.ids
      BY <1>1, <3>1 DEF Silent
    <3>2. ASSUME Silent(p, r), r \notin x.ids PROVE Silent(q, r)
      BY <1>1, <2>1, <3>2 DEF Silent
    <3> QED BY <3>1, <3>2
  <2>3. Last(q, r, 1) <=> r \in x.ids /\ Silent(p, r)
    <3>1. ASSUME Last(q, r, 1) PROVE r \in x.ids /\ Silent(p, r)
      BY <1>1, <3>1 DEF Last, Silent
    <3>2. ASSUME r \in x.ids, Silent(p, r) PROVE Last(q, r, 1)
      BY <1>1, <2>1, <3>2 DEF Last, Silent
    <3> QED BY <3>1, <3>2
  <2>4. \A i \in 1..Len(p) : Last(q, r, i + 1) <=> Last(p, r, i)
    <3>1. ASSUME NEW i \in 1..Len(p), Last(q, r, i + 1) PROVE Last(p, r, i)
      <4>1. \A j \in i + 1..Len(p) : j + 1 \in i + 1 + 1..Len(q) /\ q[j + 1] = p[j] BY <1>1
      <4> QED BY <1>1, <3>1, <4>1 DEF Last
    <3>2. ASSUME NEW i \in 1..Len(p), Last(p, r, i) PROVE Last(q, r, i + 1)
      <4>1. \A j \in i + 1 + 1..Len(q) : j - 1 \in i + 1..Len(p) /\ q[j] = p[j - 1]
        BY <1>1, <2>1
      <4> QED BY <1>1, <3>2, <4>1 DEF Last
    <3> QED BY <3>1, <3>2
  <2>5. LastAsks(q, r) <=> LastAsks(p, r) \/ (r \in x.ids /\ Silent(p, r) /\ x.kind = "request")
    <3>1. ASSUME LastAsks(q, r)
          PROVE  LastAsks(p, r) \/ (r \in x.ids /\ Silent(p, r) /\ x.kind = "request")
      <4>1. PICK i \in 1..Len(q) : Last(q, r, i) /\ q[i].kind = "request" BY <3>1 DEF LastAsks
      <4>2. CASE i = 1 BY <1>1, <2>3, <4>1, <4>2
      <4>3. CASE i # 1
        <5>1. i - 1 \in 1..Len(p) /\ q[i] = p[i - 1] /\ i - 1 + 1 = i BY <2>1, <4>3
        <5>2. Last(p, r, i - 1) BY <2>4, <4>1, <5>1
        <5> QED BY <4>1, <5>1, <5>2 DEF LastAsks
      <4> QED BY <4>2, <4>3
    <3>2. ASSUME LastAsks(p, r) PROVE LastAsks(q, r)
      <4>1. PICK i \in 1..Len(p) : Last(p, r, i) /\ p[i].kind = "request" BY <3>2 DEF LastAsks
      <4>2. i + 1 \in 1..Len(q) BY <1>1
      <4> QED BY <1>1, <2>4, <4>1, <4>2 DEF LastAsks
    <3>3. ASSUME r \in x.ids, Silent(p, r), x.kind = "request" PROVE LastAsks(q, r)
      BY <1>1, <2>3, <3>3 DEF LastAsks
    <3> QED BY <3>1, <3>2, <3>3
  <2> QED BY <2>2, <2>5 DEF After, Apply
<1>4. After(q, S) = After(p, Apply(x, S)) BY <1>3 DEF After
<1> QED BY <1>4 DEF p, x

LEMMA AfterIn == ASSUME NEW q, NEW S PROVE After(q, S) \in SUBSET Requests
BY DEF After

\* Only a request that no message mentions depends on the set before.
LEMMA AfterBase ==
  ASSUME NEW q, NEW S, NEW T, NEW r, r \in S <=> r \in T
  PROVE  r \in After(q, S) <=> r \in After(q, T)
BY DEF After

LEMMA AfterMore ==
  ASSUME NEW q, NEW S, NEW T, S \subseteq T
  PROVE  After(q, S) \subseteq After(q, T)
BY DEF After

LEMMA AfterFix ==
  ASSUME NEW q, NEW S, NEW P \in SUBSET Requests, After(q, S) = P
  PROVE  After(q, P) = P
BY DEF After, Silent, LastAsks, Last

\* A set may gain what the messages leave in it anyway.
LEMMA AfterGain ==
  ASSUME NEW q, NEW S, NEW P, After(q, S) = P
  PROVE  After(q, S \cup P) = P
BY DEF After

LEMMA AfterMust ==
  ASSUME NEW q, NEW S, NEW T, NEW r, r \in After(q, S), r \notin S
  PROVE  r \in After(q, T)
BY DEF After

\* A set may lose what is taken away later, and what was not to stay.
LEMMA AfterLoss ==
  ASSUME NEW q, NEW S, NEW T, NEW P, NEW D, After(q, S) = P, T \subseteq S,
         (S \ T) \cap P \subseteq D
  PROVE  After(q, T) \ D = P \ D
<1>1. After(q, T) \subseteq P BY AfterMore
<1>2. ASSUME NEW r \in P \ D PROVE r \in After(q, T)
  <2>1. r \in S <=> r \in T BY <1>2
  <2> QED BY <1>2, <2>1, AfterBase
<1> QED BY <1>1, <1>2

-----------------------------------------------------------------------------
(* When the messages under way have arrived, table and screen will agree    *)
(* with the runtime.  Before a client has initialized there is neither, and *)
(* what pends will be sent at once: then both count as right already.       *)

Table == IF initialized THEN serverPending ELSE Pending
Screen == IF initialized THEN cards ELSE Pending
Agreement ==
  /\ After(hub, Table) = Pending
  /\ After(hub, After(out, Screen)) = Pending
  /\ ~initialized => out = <<>> /\ serverPending = {} /\ cards = {}

LEMMA PublishAfter ==
  ASSUME TypeOK, NEW item \in Item, Publish(item), NEW S
  PROVE  After(hub', S) = Apply(item, After(hub, S))
<1>1. CASE item.ids = {} BY <1>1 DEF Publish, Apply
<1>2. CASE item.ids # {} BY <1>2, AfterAppend DEF Publish, TypeOK
<1> QED BY <1>1, <1>2

LEMMA CloseAfter ==
  ASSUME TypeOK, NEW ids \in SUBSET Pending, NEW st \in {"resolved", "cancelled"}, NEW v, NEW res,
         Close(ids, st, v, res), NEW S
  PROVE  After(hub', S) = After(hub, S) \ ids /\ Pending' = Pending \ ids
<1>1. Settle(ids) \in Item /\ Settle(ids).ids = ids /\ Settle(ids).kind = "response"
  BY DEF Settle, Item, Pending
<1>2. After(hub', S) = After(hub, S) \ ids BY <1>1, PublishAfter DEF Close, Apply
<1>3. Pending' = Pending \ ids BY DEF Close, Pending
<1> QED BY <1>2, <1>3

\* Records are settled, while the table and the screen lose only what is settled or was dead.
LEMMA SettledAgrees ==
  ASSUME TypeOK, Agreement, initialized,
         NEW ids \in SUBSET Pending, NEW st \in {"resolved", "cancelled"}, NEW v, NEW res,
         Close(ids, st, v, res), UNCHANGED <<initialized, out>>,
         serverPending' \subseteq serverPending, cards' \subseteq cards,
         (serverPending \ serverPending') \cap Pending \subseteq ids,
         (cards \ cards') \cap Pending \subseteq ids
  PROVE  Agreement'
<1>1. /\ After(hub, serverPending) = Pending
      /\ After(hub, After(out, cards)) = Pending
  BY DEF Agreement, Table, Screen
<1>2. After(hub, serverPending') \ ids = Pending \ ids BY <1>1, AfterLoss
<1>3. After(out, cards') \subseteq After(out, cards) BY AfterMore
<1>4. (After(out, cards) \ After(out, cards')) \cap Pending \subseteq ids
  <2>1. ASSUME NEW r \in After(out, cards), r \notin After(out, cards') PROVE r \in cards \ cards'
    BY <2>1, AfterBase
  <2> QED BY <2>1
<1>5. After(hub, After(out, cards')) \ ids = Pending \ ids BY <1>1, <1>3, <1>4, AfterLoss
<1>6. /\ After(hub', serverPending') = Pending'
      /\ After(hub', After(out, cards')) = Pending'
  BY <1>2, <1>5, CloseAfter
<1> QED BY <1>6 DEF Agreement, Table, Screen

LEMMA UninitializedAgrees ==
  ASSUME TypeOK, Agreement, ~initialized,
         NEW ids \in SUBSET Pending, NEW st \in {"resolved", "cancelled"}, NEW v, NEW res,
         Close(ids, st, v, res), UNCHANGED <<initialized, out>>,
         serverPending' = {}, cards' = {}
  PROVE  Agreement'
<1>1. After(hub, Pending) = Pending /\ out = <<>> BY DEF Agreement, Table
<1>2. Pending' = Pending \ ids BY CloseAfter
<1>3. After(hub, Pending') \ ids = Pending \ ids BY <1>1, <1>2, AfterLoss
<1>4. After(hub', Pending') = Pending' BY <1>2, <1>3, CloseAfter
<1>5. Pending' \in SUBSET Requests BY DEF Pending
<1>6. After(out', Pending') = Pending' BY <1>1, <1>5, AfterNil
<1> QED BY <1>1, <1>4, <1>6 DEF Agreement, Table, Screen

\* A step that leaves table and screen alone.
LEMMA AloneAgrees ==
  ASSUME TypeOK, Agreement, UNCHANGED <<status, hub>> \/ Settles,
         UNCHANGED <<initialized, out, serverPending, cards>>
  PROVE  Agreement'
<1>1. CASE UNCHANGED <<status, hub>>
  BY <1>1 DEF Agreement, Table, Screen, Pending
<1>2. CASE Settles
  <2>1. PICK ids \in SUBSET Pending, st \in {"resolved", "cancelled"}, v \in Verdicts,
          res \in Verdicts \cup {"cancelled"} :
          Close(ids, st, v, res)
    <3>1. "reject" \in Verdicts BY DEF Verdicts
    <3> QED BY <1>2, <3>1 DEF Settles
  <2>2. CASE initialized BY <2>1, <2>2, SettledAgrees
  <2>3. CASE ~initialized
    <3>1. serverPending' = {} /\ cards' = {} BY <2>3 DEF Agreement
    <3> QED BY <2>1, <2>3, <3>1, UninitializedAgrees
  <2> QED BY <2>2, <2>3
<1> QED BY <1>1, <1>2

LEMMA AsksAgrees ==
  ASSUME TypeOK, Agreement, NEW r \in Requests, NEW s \in Souls, NEW a \in Actions,
         ToolAsks(r, s, a)
  PROVE  Agreement'
<1>1. PICK why \in {"yolo", IF a \in auto THEN "cached" ELSE None} :
        /\ status' = [status EXCEPT ![r] = IF why = None THEN "pending" ELSE @]
        /\ Publish(Ask(IF why = None THEN {r} ELSE {}))
  BY DEF ToolAsks
<1>2. UNCHANGED <<initialized, out, serverPending, cards>> BY DEF ToolAsks
<1>3. CASE why # None
  <2>1. status' = status BY <1>1, <1>3 DEF TypeOK
  <2>2. hub' = hub BY <1>1, <1>3 DEF Publish, Ask
  <2> QED BY <1>2, <2>1, <2>2, AloneAgrees
<1>4. CASE why = None
  <2>1. Pending' = Pending \cup {r} BY <1>1, <1>4 DEF Pending, TypeOK
  <2>2. Ask({r}) \in Item /\ Ask({r}).ids = {r} /\ Ask({r}).kind = "request" BY DEF Ask, Item
  <2>3. \A S : After(hub', S) = After(hub, S) \cup {r}
    BY <1>1, <1>4, <2>2, PublishAfter DEF Apply
  <2>4. CASE initialized
    BY <1>2, <2>1, <2>3, <2>4 DEF Agreement, Table, Screen
  <2>5. CASE ~initialized
    <3>1. After(hub, Pending) = Pending /\ out = <<>> /\ serverPending = {} /\ cards = {}
      BY <2>5 DEF Agreement, Table
    <3>2. \A q \in Requests : q # r => (q \in After(hub, Pending') <=> q \in Pending)
      BY <2>1, <3>1, AfterBase
    <3>3. After(hub, Pending') \in SUBSET Requests /\ Pending \in SUBSET Requests
      BY AfterIn DEF Pending
    <3>4. After(hub', Pending') = Pending' BY <2>1, <2>3, <3>2, <3>3
    <3>5. After(out', Pending') = Pending' BY <1>2, <2>1, <3>1, <3>3, AfterNil
    <3> QED BY <1>2, <2>5, <3>1, <3>4, <3>5 DEF Agreement, Table, Screen
  <2> QED BY <2>4, <2>5
<1> QED BY <1>3, <1>4

LEMMA PromptDoneAgrees ==
  ASSUME TypeOK, Agreement, NEW t \in Turns, PromptDone(t)
  PROVE  Agreement'
<1> DEFINE ids == serverPending \cap Foreground \cap Pending
<1>1. Close(ids, "resolved", "reject", "reject") BY DEF PromptDone, Resolve
<1>2. /\ serverPending' = serverPending \ Foreground
      /\ UNCHANGED <<initialized, out, cards>>
  BY DEF PromptDone
<1>3. CASE initialized BY <1>1, <1>2, <1>3, SettledAgrees
<1>4. CASE ~initialized
  <2>1. serverPending' = {} /\ cards' = {} BY <1>2, <1>4 DEF Agreement
  <2> QED BY <1>1, <1>2, <1>4, <2>1, UninitializedAgrees
<1> QED BY <1>3, <1>4

LEMMA AnswerAgrees ==
  ASSUME TypeOK, Agreement, NEW r \in Requests, NEW v \in Verdicts, UserAnswers(r, v)
  PROVE  Agreement'
<1>1. /\ serverPending' = serverPending \ {r} /\ cards' = cards \ {r} /\ r \in cards
      /\ UNCHANGED <<initialized, out>>
  BY DEF UserAnswers
<1>2. initialized BY <1>1 DEF Agreement
<1>3. /\ After(hub, serverPending) = Pending
      /\ After(hub, After(out, cards)) = Pending
  BY <1>2 DEF Agreement, Table, Screen
<1>4. CASE r \in serverPending
  <2>1. Close({r} \cap Pending, "resolved", v, v) BY <1>4 DEF UserAnswers, Resolve
  <2> QED BY <1>1, <1>2, <2>1, SettledAgrees
<1>5. CASE r \notin serverPending
  <2>1. UNCHANGED <<status, hub>> /\ serverPending' = serverPending
    BY <1>1, <1>5 DEF UserAnswers, recordVars
  <2>2. Pending' = Pending BY <2>1 DEF Pending
  <2>3. \A q : q # r => (q \in After(out, cards') <=> q \in After(out, cards))
    BY <1>1, AfterBase
  <2>4. \A q : q # r => (q \in After(hub, After(out, cards')) <=> q \in Pending)
    BY <1>3, <2>3, AfterBase
  <2>5. r \in Pending => r \in After(hub, After(out, cards')) BY <1>3, <1>5, AfterMust
  <2>6. r \notin Pending => r \notin After(hub, After(out, cards'))
    <3>1. After(out, cards') \subseteq After(out, cards) BY <1>1, AfterMore
    <3> QED BY <1>3, <3>1, AfterMore
  <2>7. After(hub, After(out, cards')) = Pending BY <2>4, <2>5, <2>6
  <2> QED BY <1>1, <1>2, <1>3, <2>1, <2>2, <2>7 DEF Agreement, Table, Screen
<1> QED BY <1>4, <1>5

LEMMA InitializeAgrees == ASSUME TypeOK, Agreement, Initialize PROVE Agreement'
<1>1. /\ initialized' = TRUE
      /\ serverPending' = serverPending \cup Pending
      /\ out' = IF Pending = {} THEN out ELSE Append(out, Ask(Pending))
      /\ hub' = hub /\ cards' = cards /\ Pending' = Pending
  BY DEF Initialize, recordVars, Pending
<1>2. After(out', cards) = After(out, cards) \cup Pending
  <2>1. CASE Pending = {} BY <1>1, <2>1
  <2>2. CASE Pending # {}
    <3>1. Ask(Pending) \in Item /\ Ask(Pending).ids = Pending /\ Ask(Pending).kind = "request"
      BY DEF Ask, Item, Pending
    <3>2. out \in Seq(Item) BY DEF TypeOK
    <3>3. After(Append(out, Ask(Pending)), cards) = Apply(Ask(Pending), After(out, cards))
      BY <3>1, <3>2, AfterAppend
    <3> QED BY <1>1, <2>2, <3>1, <3>3 DEF Apply
  <2> QED BY <2>1, <2>2
<1>3. CASE initialized
  <2>1. After(hub, serverPending) = Pending /\ After(hub, After(out, cards)) = Pending
    BY <1>3 DEF Agreement, Table, Screen
  <2>2. After(hub, serverPending \cup Pending) = Pending BY <2>1, AfterGain
  <2>3. After(hub, After(out, cards) \cup Pending) = Pending BY <2>1, AfterGain
  <2> QED BY <1>1, <1>2, <2>2, <2>3 DEF Agreement, Table, Screen
<1>4. CASE ~initialized
  <2>1. out = <<>> /\ serverPending = {} /\ cards = {} BY <1>4 DEF Agreement
  <2>2. After(hub, Pending) = Pending BY <1>4 DEF Agreement, Table
  <2>3. After(out, cards) = {} BY <2>1, AfterNil
  <2>4. After(hub, After(out', cards)) = Pending BY <1>2, <2>2, <2>3
  <2> QED BY <1>1, <2>1, <2>2, <2>4 DEF Agreement, Table, Screen
<1> QED BY <1>3, <1>4

LEMMA RelayAgrees == ASSUME TypeOK, Agreement, HubRelays PROVE Agreement'
<1> DEFINE x == Head(hub)
<1>1. hub \in Seq(Item) /\ hub # <<>> /\ hub' = Tail(hub) /\ out \in Seq(Item)
  BY DEF HubRelays, TypeOK
<1>2. x \in Item BY <1>1
<1>3. /\ UNCHANGED <<initialized, cards>> /\ Pending' = Pending /\ Pending \in SUBSET Requests
  BY DEF HubRelays, recordVars, Pending
<1> HIDE DEF x
<1>4. \A S \in SUBSET Requests : After(hub, S) = After(hub', Apply(x, S))
  BY <1>1, AfterHead DEF x
<1>5. CASE initialized
  <2>1. out' = Append(out, x) /\ serverPending' = Apply(x, serverPending)
    BY <1>5 DEF HubRelays, x
  <2>2. After(hub', serverPending') = Pending
    BY <1>4, <1>5, <2>1 DEF TypeOK, Agreement, Table
  <2>3. After(out', cards) = Apply(x, After(out, cards)) BY <1>1, <1>2, <2>1, AfterAppend
  <2>4. After(out, cards) \in SUBSET Requests BY AfterIn
  <2>5. After(hub', After(out', cards)) = Pending
    BY <1>4, <1>5, <2>3, <2>4 DEF Agreement, Screen
  <2> QED BY <1>3, <1>5, <2>2, <2>5 DEF Agreement, Table, Screen
<1>6. CASE ~initialized
  <2>1. UNCHANGED <<out, serverPending>> BY <1>6 DEF HubRelays
  <2>2. After(hub, Pending) = Pending /\ out = <<>> /\ serverPending = {} /\ cards = {}
    BY <1>6 DEF Agreement, Table
  <2>3. After(hub', Apply(x, Pending)) = Pending BY <1>3, <1>4, <2>2
  <2>4. After(hub', Pending) = Pending BY <1>3, <2>3, AfterFix
  <2>5. After(out', Pending) = Pending BY <1>3, <2>1, <2>2, AfterNil
  <2> QED BY <1>3, <1>6, <2>1, <2>2, <2>4, <2>5 DEF Agreement, Table, Screen
<1> QED BY <1>5, <1>6

LEMMA ReadAgrees == ASSUME TypeOK, Agreement, ClientReads PROVE Agreement'
<1>1. /\ out \in Seq(Item) /\ out # <<>> /\ out' = Tail(out) /\ cards \in SUBSET Requests
      /\ cards' = Apply(Head(out), cards)
  BY DEF ClientReads, TypeOK
<1>2. UNCHANGED <<initialized, hub, serverPending>> /\ Pending' = Pending
  BY DEF ClientReads, recordVars, Pending
<1>3. initialized BY <1>1 DEF Agreement
<1>4. After(out', cards') = After(out, cards) BY <1>1, AfterHead
<1> QED BY <1>2, <1>3, <1>4 DEF Agreement, Table, Screen

LEMMA AgreementNext == TypeOK /\ Agreement /\ [Next]_vars => Agreement'
<1> SUFFICES ASSUME TypeOK, Agreement, [Next]_vars PROVE Agreement' OBVIOUS
<1>1. CASE WireStep
  BY <1>1, InitializeAgrees, RelayAgrees, ReadAgrees DEF WireStep
<1>2. ASSUME NEW r \in Requests, NEW s \in Souls, NEW a \in Actions, ToolAsks(r, s, a)
      PROVE  Agreement'
  BY <1>2, AsksAgrees
<1>3. ASSUME NEW t \in Turns, PromptDone(t) PROVE Agreement' BY <1>3, PromptDoneAgrees
<1>4. ASSUME NEW r \in Requests, NEW v \in Verdicts, UserAnswers(r, v) PROVE Agreement'
  BY <1>4, AnswerAgrees
<1>5. CASE Quiet /\ UNCHANGED <<serverPending, cards>>
  BY <1>5, AloneAgrees DEF Quiet, recordVars
<1>6. \/ UNCHANGED <<serverPending, cards>> \/ WireStep
      \/ \E t \in Turns : PromptDone(t)
      \/ \E r \in Requests, v \in Verdicts : UserAnswers(r, v)
  BY DEF Next, TurnStep, StartTurn, CancelTurn, AgentStep, StartAgent, RunnerEnds, KillAgent,
         AgentTimesOut, SoulStep, StepFails, Unwind, SoulEnds, ToolResumes, ToolAsks, vars, wireVars
<1> QED BY <1>1, <1>2, <1>3, <1>4, <1>5, <1>6, StepKinds

(* Whenever the queues have drained, the user's screen and the server's     *)
(* table hold exactly the requests that pend, whether the client came       *)
(* before or after them and whoever settled them.                           *)
THEOREM ScreenCorrect == Spec => []ScreenAgrees
<1>1. Init => Agreement
  <2> SUFFICES ASSUME Init PROVE Agreement OBVIOUS
  <2>1. Pending = {} /\ hub = <<>> /\ out = <<>> /\ ~initialized /\ serverPending = {} /\ cards = {}
    BY DEF Init, Pending
  <2>2. After(<<>>, {}) = {} BY AfterNil
  <2> QED BY <2>1, <2>2 DEF Agreement, Table, Screen
<1>2. TypeOK /\ Agreement => ScreenAgrees
  <2> SUFFICES ASSUME TypeOK, Agreement, initialized, hub = <<>>, out = <<>>
               PROVE  cards = Pending /\ serverPending = Pending
    BY DEF ScreenAgrees
  <2>1. After(<<>>, cards) = cards /\ After(<<>>, serverPending) = serverPending
    BY AfterNil DEF TypeOK
  <2> QED BY <2>1 DEF Agreement, Table, Screen
<1> QED BY <1>1, <1>2, AgreementNext, TypeCorrect, PTL DEF Spec
=============================================================================
