-------------------------- MODULE OAuthRefreshProofs --------------------------
(***************************************************************************)
(* Theorems about OAuthRefresh, for any number of tasks, managers and      *)
(* processes: typing; the credentials survive every refusal; and no token  *)
(* is sent twice while the file lock is kept.                              *)
(***************************************************************************)
EXTENDS OAuthRefresh, TLAPS

-----------------------------------------------------------------------------
(* Typing.                                                                 *)

CallTyped ==
    /\ pc \in [Tasks -> Places] /\ force \in [Tasks -> BOOLEAN]
    /\ tok \in [Tasks -> Token] /\ got \in [Tasks -> Token] /\ tries \in [Tasks -> 0 .. 2]
    /\ owner \in [Managers -> SUBSET Tasks] /\ flock \subseteq Tasks

SharedTyped ==
    /\ left \in [Events -> Nat]
    /\ issued \in Token /\ live \subseteq Token /\ disk \in Token /\ due \subseteq Token
    /\ cache \in [Managers -> Token] /\ tomb \in [Processes -> Dug]
    /\ out \in BOOLEAN /\ lost \in BOOLEAN /\ bare \in BOOLEAN

LEMMA Homes ==
  ASSUME NEW t \in Tasks
  PROVE  ManagerOf[t] \in Managers /\ Process(t) \in Processes
BY OAuthAssumption DEF OAuthAssumption, Process

LEMMA TypeInit == Init => TypeOK
<1> SUFFICES ASSUME Init PROVE TypeOK
  OBVIOUS
<1>1. left \in [Events -> Nat]
  BY OAuthAssumption DEF OAuthAssumption, Init
<1>2. NoTomb \in Dug /\ 1 \in Token /\ 0 \in Token
  BY OAuthAssumption DEF OAuthAssumption, NoTomb, Dug, Token
<1>3. force \in [Tasks -> BOOLEAN]
  BY DEF Init
<1>4. tomb \in [Processes -> Dug] /\ cache \in [Managers -> Token] /\ owner \in [Managers -> SUBSET Tasks]
  BY <1>2 DEF Init
<1>5. /\ pc \in [Tasks -> Places] /\ tok \in [Tasks -> Token] /\ got \in [Tasks -> Token]
      /\ tries \in [Tasks -> 0 .. 2]
  BY <1>2 DEF Init, Places
<1>6. issued \in Token /\ live \subseteq Token /\ disk \in Token /\ due \subseteq Token /\ flock \subseteq Tasks
  BY <1>2 DEF Init
<1>7. out \in BOOLEAN /\ lost \in BOOLEAN /\ bare \in BOOLEAN
  BY DEF Init
<1> QED
  BY <1>1, <1>3, <1>4, <1>5, <1>6, <1>7 DEF TypeOK

\* The end of a call leaves its variables typed.
LEMMA DoneTyped ==
  ASSUME TypeOK, NEW t \in Tasks, Done(t)
  PROVE  CallTyped'
<1>1. force' \in [Tasks -> BOOLEAN]
  BY DEF TypeOK, Done
<1>2. 0 \in Token
  BY OAuthAssumption DEF OAuthAssumption, Token
<1> QED
  BY <1>1, <1>2 DEF TypeOK, CallTyped, Done, Places

LEMMA SpendTyped ==
  ASSUME TypeOK, NEW e \in Events, Spend(e)
  PROVE  left' \in [Events -> Nat]
BY DEF TypeOK, Spend

\* What a process makes of a token it reads.
LEMMA LookTyped ==
  ASSUME TypeOK, NEW p \in Processes, NEW k \in Token
  PROVE  /\ Look(p, k) => tomb' \in [Processes -> Dug]
         /\ \A m \in Managers : Adopt(m, k) => cache' \in [Managers -> Token]
<1>1. NoTomb \in Dug
  BY OAuthAssumption DEF OAuthAssumption, NoTomb, Dug, Token
<1> QED
  BY <1>1 DEF TypeOK, Look, Adopt

\* The token the server issues is new and within the bound.
LEMMA RotatesTyped ==
  ASSUME TypeOK, NEW k \in Token, Rotates(k)
  PROVE  issued' \in Token /\ live' \subseteq Token /\ due' \subseteq Token /\ issued + 1 \in Token
BY OAuthAssumption DEF OAuthAssumption, TypeOK, Rotates, Token

LEMMA TypeStep == TypeOK /\ [Next]_vars => TypeOK'
<1> SUFFICES ASSUME TypeOK, [Next]_vars PROVE CallTyped' /\ SharedTyped'
  BY DEF CallTyped, SharedTyped, TypeOK
<1> USE DEF history, server, call
<1>0. /\ NoTomb \in Dug /\ 0 \in Token
      /\ \A k \in Token : [token |-> k, cooling |-> TRUE] \in Dug
      /\ \A e \in {"login", "logout", "revoke", "age", "force", "fault", "crash"} : e \in Events
  BY OAuthAssumption DEF OAuthAssumption, NoTomb, Dug, Token, Events
<1>1. ASSUME NEW t \in Tasks, Start(t) PROVE CallTyped' /\ SharedTyped'
  <2>1. CASE UNCHANGED vars
    BY <2>1 DEF vars, TypeOK, CallTyped, SharedTyped
  <2>2. CASE StartOn(t)
    <3>1. tomb' \in [Processes -> Dug] /\ cache' \in [Managers -> Token]
      BY <2>2, <1>0, Homes, LookTyped DEF StartOn, TypeOK
    <3>2. left' \in [Events -> Nat]
      BY <2>2, <1>0, SpendTyped DEF StartOn, TypeOK
    <3>3. force' \in [Tasks -> BOOLEAN]
      BY <2>2 DEF StartOn, TypeOK
    <3>4. CallTyped'
      BY <2>2, <3>3 DEF StartOn, TypeOK, CallTyped, Places
    <3> QED
      BY <2>2, <3>1, <3>2, <3>4 DEF StartOn, TypeOK, SharedTyped
  <2> QED
    BY <1>1, <2>1, <2>2 DEF Start
<1>2. ASSUME NEW t \in Tasks, Enter(t) PROVE CallTyped' /\ SharedTyped'
  <2>1. tomb' \in [Processes -> Dug] /\ cache' \in [Managers -> Token]
    BY <1>2, <1>0, Homes, LookTyped DEF Enter, TypeOK
  <2>2. CallTyped'
    <3>1. CASE Done(t)
      BY <3>1, DoneTyped
    <3>2. CASE ~Done(t)
      BY <1>2, <3>2 DEF Enter, TypeOK, CallTyped, Places
    <3> QED
      BY <3>1, <3>2
  <2> QED
    BY <1>2, <2>1, <2>2 DEF Enter, TypeOK, SharedTyped
<1>3. ASSUME NEW t \in Tasks, Lock(t) PROVE CallTyped' /\ SharedTyped'
  BY <1>3 DEF Lock, TypeOK, CallTyped, SharedTyped, Places
<1>4. ASSUME NEW t \in Tasks, GoBare(t) PROVE CallTyped' /\ SharedTyped'
  <2>1. left' \in [Events -> Nat]
    BY <1>4, <1>0, SpendTyped DEF GoBare, TypeOK
  <2> QED
    BY <1>4, <2>1 DEF GoBare, TypeOK, CallTyped, SharedTyped, Places
<1>5. ASSUME NEW t \in Tasks, Check(t) PROVE CallTyped' /\ SharedTyped'
  <2>1. CallTyped'
    <3>1. CASE Done(t)
      BY <3>1, DoneTyped
    <3>2. CASE ~Done(t)
      BY <1>5, <3>2 DEF Check, TypeOK, CallTyped, Places
    <3> QED
      BY <3>1, <3>2
  <2> QED
    BY <1>5, <1>0, <2>1 DEF Check, TypeOK, SharedTyped
<1>6. ASSUME NEW t \in Tasks, Send(t) PROVE CallTyped' /\ SharedTyped'
  BY <1>6, RotatesTyped DEF Send, TypeOK, CallTyped, SharedTyped, Places
<1>7. ASSUME NEW t \in Tasks, SendFails(t) PROVE CallTyped' /\ SharedTyped'
  <2>1. CallTyped'
    <3>1. CASE Done(t)
      BY <3>1, DoneTyped
    <3>2. CASE ~Done(t)
      BY <1>7, <3>2 DEF SendFails, TypeOK, CallTyped
    <3> QED
      BY <3>1, <3>2
  <2>2. left' \in [Events -> Nat]
    BY <1>7, <1>0, SpendTyped DEF SendFails, TypeOK
  <2>3. issued' \in Token /\ live' \subseteq Token /\ due' \subseteq Token /\ lost' \in BOOLEAN
    BY <1>7, RotatesTyped DEF SendFails, TypeOK
  <2> QED
    BY <1>7, <2>1, <2>2, <2>3 DEF SendFails, TypeOK, SharedTyped
<1>8. ASSUME NEW t \in Tasks, Save(t) \/ SaveFails(t) \/ Rejected(t) PROVE CallTyped' /\ SharedTyped'
  <2>1. CallTyped'
    BY <1>8, DoneTyped DEF Save, SaveFails, Rejected
  <2>2. left' \in [Events -> Nat]
    BY <1>8, <1>0, SpendTyped DEF Save, SaveFails, Rejected, TypeOK
  <2>3. tomb' \in [Processes -> Dug] /\ cache' \in [Managers -> Token]
    BY <1>8, <1>0, Homes DEF Save, SaveFails, Rejected, TypeOK
  <2>4. disk' \in Token /\ UNCHANGED <<issued, live, due>>
    BY <1>8 DEF Save, SaveFails, Rejected, TypeOK
  <2>5. out' \in BOOLEAN /\ lost' \in BOOLEAN /\ bare' \in BOOLEAN
    BY <1>8 DEF Save, SaveFails, Rejected, TypeOK
  <2> QED
    BY <2>1, <2>2, <2>3, <2>4, <2>5 DEF TypeOK, SharedTyped
<1>9. ASSUME NEW t \in Tasks, CancelTask(t) PROVE CallTyped' /\ SharedTyped'
  <2>1. CallTyped'
    BY <1>9, DoneTyped DEF CancelTask
  <2>2. left' \in [Events -> Nat]
    BY <1>9, <1>0, SpendTyped DEF CancelTask
  <2>3. issued' \in Token /\ live' \subseteq Token /\ due' \subseteq Token /\ lost' \in BOOLEAN
    BY <1>9, RotatesTyped DEF CancelTask, Abandoned, TypeOK
  <2> QED
    BY <1>9, <2>1, <2>2, <2>3 DEF CancelTask, TypeOK, SharedTyped
<1>10. ASSUME NEW p \in Processes, Crash(p) PROVE CallTyped' /\ SharedTyped'
  <2> DEFINE mine == {t \in Tasks : Process(t) = p}
  <2>1. left' \in [Events -> Nat]
    BY <1>10, <1>0, SpendTyped DEF Crash
  <2>2. issued' \in Token /\ live' \subseteq Token /\ due' \subseteq Token /\ lost' \in BOOLEAN
    BY <1>10, RotatesTyped DEF Crash, Abandoned, TypeOK
  <2>3. force' \in [Tasks -> BOOLEAN]
    BY <1>10 DEF Crash
  <2>4. CallTyped'
    BY <1>10, <1>0, <2>3 DEF Crash, TypeOK, CallTyped, Places
  <2> QED
    BY <1>10, <1>0, <2>1, <2>2, <2>4 DEF Crash, TypeOK, SharedTyped
<1>11. ASSUME NEW p \in Processes, Cool(p) PROVE CallTyped' /\ SharedTyped'
  <2>1. tomb' \in [Processes -> Dug]
    BY <1>11 DEF Cool, TypeOK, Dug
  <2> QED
    BY <1>11, <2>1 DEF Cool, TypeOK, CallTyped, SharedTyped
<1>12. CASE Login \/ Logout \/ Revoke \/ Age
  <2>1. left' \in [Events -> Nat]
    BY <1>12, <1>0, SpendTyped DEF Login, Logout, Revoke, Age
  <2>2. /\ issued' \in Token /\ live' \subseteq Token /\ due' \subseteq Token /\ disk' \in Token
        /\ out' \in BOOLEAN /\ lost' \in BOOLEAN
    <3>1. issued < MaxToken => issued + 1 \in Token
      BY OAuthAssumption DEF OAuthAssumption, TypeOK, Token
    <3>2. issued' \in Token /\ live' \subseteq Token /\ due' \subseteq Token /\ disk' \in Token
      BY <1>12, <1>0, <3>1 DEF Login, Logout, Revoke, Age, TypeOK
    <3>3. out' \in BOOLEAN /\ lost' \in BOOLEAN
      BY <1>12 DEF Login, Logout, Revoke, Age, TypeOK
    <3> QED
      BY <3>2, <3>3
  <2> QED
    BY <1>12, <2>1, <2>2 DEF Login, Logout, Revoke, Age, TypeOK, CallTyped, SharedTyped
<1>13. CASE UNCHANGED vars
  BY <1>13 DEF vars, TypeOK, CallTyped, SharedTyped
<1> QED
  BY <1>1, <1>2, <1>3, <1>4, <1>5, <1>6, <1>7, <1>8, <1>9, <1>10, <1>11, <1>12, <1>13
  DEF Next, Refresh

\* Every variable has its type in every reachable state.
THEOREM TypeCorrect == Spec => []TypeOK
BY TypeInit, TypeStep, PTL DEF Spec

-----------------------------------------------------------------------------
(* What keeps two refreshes apart.                                         *)

\* While nobody has gone on without it, the file lock belongs to the one call behind it.
Held(t) == pc[t] \in {"check", "send", "save", "rejected"}
FileLocked == ~bare => \A t \in Tasks : Held(t) => flock = {t}

\* Tokens are numbered in the order they are issued.
Numbered ==
    /\ disk <= issued /\ \A k \in live : k <= issued
    /\ \A t \in Tasks : tok[t] <= issued /\ got[t] <= issued

\* A token that is about to be saved is its receiver's alone: it is not in the file, no call
\* has read it, and the server still takes it.
Unread ==
    \A t \in Tasks : pc[t] = "save" =>
        /\ got[t] # 0 /\ got[t] # disk /\ (~lost => got[t] \in live)
        /\ \A u \in Tasks : tok[u] # got[t] /\ (u # t /\ pc[u] = "save" => got[u] # got[t])

\* The token of a request is one the server takes.
Sendable == ~lost /\ ~bare /\ ~out => \A t \in Tasks : pc[t] = "send" => tok[t] \in live

IInv ==
    /\ TypeOK /\ FileLocked /\ Numbered /\ Unread /\ Sendable
    /\ CredentialsKept /\ NoTokenSpentTwice

LEMMA InvInit == Init => IInv
<1> SUFFICES ASSUME Init PROVE IInv
  OBVIOUS
<1>1. TypeOK
  BY TypeInit
<1> QED
  BY <1>1 DEF Init, IInv, FileLocked, Held, Numbered, Unread, Sendable, CredentialsKept, NoTokenSpentTwice

\* The end of a call moves no other call, and its own call has no token any more.
LEMMA DoneCalls ==
  ASSUME TypeOK, NEW t \in Tasks, Done(t)
  PROVE  /\ pc'[t] = "idle" /\ tok'[t] = 0 /\ got'[t] = 0
         /\ \A u \in Tasks \ {t} : pc'[u] = pc[u] /\ tok'[u] = tok[u] /\ got'[u] = got[u]
         /\ flock' = flock \ {t}
BY DEF TypeOK, Done

LEMMA FileLockedStep == IInv /\ [Next]_vars => FileLocked'
<1> SUFFICES ASSUME IInv, [Next]_vars PROVE FileLocked'
  OBVIOUS
<1> USE DEF IInv, FileLocked, Held, TypeOK
<1>0. ASSUME NEW t \in Tasks, Done(t), UNCHANGED bare PROVE FileLocked'
  BY <1>0, DoneCalls
<1>1. ASSUME NEW t \in Tasks, Start(t) PROVE FileLocked'
  BY <1>1 DEF Start, StartOn, history, vars
<1>2. ASSUME NEW t \in Tasks, Enter(t) PROVE FileLocked'
  BY <1>2, <1>0 DEF Enter, history
<1>3. ASSUME NEW t \in Tasks, Lock(t) PROVE FileLocked'
  BY <1>3 DEF Lock, history
<1>4. ASSUME NEW t \in Tasks, GoBare(t) PROVE FileLocked'
  BY <1>4 DEF GoBare
<1>5. ASSUME NEW t \in Tasks, Check(t) PROVE FileLocked'
  BY <1>5, <1>0 DEF Check, history
<1>6. ASSUME NEW t \in Tasks, Send(t) PROVE FileLocked'
  BY <1>6 DEF Send, history
<1>7. ASSUME NEW t \in Tasks, SendFails(t) PROVE FileLocked'
  BY <1>7, <1>0 DEF SendFails
<1>8. ASSUME NEW t \in Tasks, Save(t) \/ SaveFails(t) \/ Rejected(t) \/ CancelTask(t) PROVE FileLocked'
  BY <1>8, <1>0 DEF Save, SaveFails, Rejected, CancelTask, history
<1>9. ASSUME NEW p \in Processes, Crash(p) PROVE FileLocked'
  BY <1>9 DEF Crash
<1>10. ASSUME NEW p \in Processes, Cool(p) PROVE FileLocked'
  BY <1>10 DEF Cool, history
<1>11. CASE Login \/ Logout \/ Revoke \/ Age
  BY <1>11 DEF Login, Logout, Revoke, Age, history
<1>12. CASE UNCHANGED vars
  BY <1>12 DEF vars
<1> QED
  BY <1>1, <1>2, <1>3, <1>4, <1>5, <1>6, <1>7, <1>8, <1>9, <1>10, <1>11, <1>12 DEF Next, Refresh

-----------------------------------------------------------------------------
(* The numbers and the tokens about to be saved.                           *)

\* A step that takes no token from the server and gives no call one.
LEMMA QuietTokens ==
  ASSUME IInv, UNCHANGED <<issued, disk>>, live' = live \/ lost', lost => lost',
         live' \subseteq live,
         \A t \in Tasks : /\ tok'[t] \in {0, tok[t], disk} /\ got'[t] \in {0, got[t]}
                          /\ pc'[t] = "save" => pc[t] = "save" /\ got'[t] = got[t]
  PROVE  Numbered' /\ Unread'
<1> USE DEF IInv, Numbered, Unread, TypeOK, Token
<1>1. Numbered'
  OBVIOUS
<1>2. Unread'
  OBVIOUS
<1> QED
  BY <1>1, <1>2

\* A step in which the server replaces a token, which one call may get.
LEMMA NewToken ==
  ASSUME IInv, NEW t \in Tasks, Rotates(tok[t]), UNCHANGED disk, lost => lost',
         \A u \in Tasks : /\ tok'[u] \in {0, tok[u]} /\ got'[u] \in {0, got[u], issued + 1}
                          /\ pc'[u] = "save" =>
                               \/ pc[u] = "save" /\ got'[u] = got[u]
                               \/ u = t /\ got'[u] = issued + 1
  PROVE  Numbered' /\ Unread'
<1> USE DEF IInv, Numbered, Unread, TypeOK, Token, Rotates
<1>1. Numbered'
  BY OAuthAssumption DEF OAuthAssumption
<1>2. Unread'
  BY OAuthAssumption DEF OAuthAssumption
<1> QED
  BY <1>1, <1>2

LEMMA TokensStep == IInv /\ [Next]_vars => Numbered' /\ Unread'
<1> SUFFICES ASSUME IInv, [Next]_vars PROVE Numbered' /\ Unread'
  OBVIOUS
<1> USE DEF server, history, call
<1>0. ASSUME NEW t \in Tasks, Done(t), UNCHANGED <<issued, disk, live>>, lost => lost'
      PROVE  Numbered' /\ Unread'
  BY <1>0, DoneCalls, QuietTokens DEF IInv
<1>1. ASSUME NEW t \in Tasks, Start(t) PROVE Numbered' /\ Unread'
  BY <1>1, QuietTokens DEF Start, StartOn, vars, IInv, TypeOK
<1>2. ASSUME NEW t \in Tasks, Enter(t) PROVE Numbered' /\ Unread'
  <2>1. CASE Done(t)
    BY <1>2, <1>0, <2>1 DEF Enter
  <2>2. CASE ~Done(t)
    BY <1>2, <2>2, QuietTokens DEF Enter, IInv, TypeOK
  <2> QED
    BY <2>1, <2>2
<1>3. ASSUME NEW t \in Tasks, Lock(t) \/ GoBare(t) PROVE Numbered' /\ Unread'
  BY <1>3, QuietTokens DEF Lock, GoBare, IInv, TypeOK
<1>4. ASSUME NEW t \in Tasks, Check(t) PROVE Numbered' /\ Unread'
  <2>1. CASE Done(t)
    BY <1>4, <1>0, <2>1 DEF Check
  <2>2. CASE ~Done(t)
    BY <1>4, <2>2, QuietTokens DEF Check, IInv, TypeOK
  <2> QED
    BY <2>1, <2>2
<1>5. ASSUME NEW t \in Tasks, Send(t) PROVE Numbered' /\ Unread'
  <2>1. CASE Rotates(tok[t])
    BY <1>5, <2>1, NewToken DEF Send, IInv, TypeOK
  <2>2. CASE ~Rotates(tok[t])
    BY <1>5, <2>2, QuietTokens DEF Send, IInv, TypeOK
  <2> QED
    BY <2>1, <2>2
<1>6. ASSUME NEW t \in Tasks, SendFails(t) \/ CancelTask(t) PROVE Numbered' /\ Unread'
  <2>1. /\ \A u \in Tasks : /\ tok'[u] \in {0, tok[u]} /\ got'[u] \in {0, got[u]}
                            /\ pc'[u] = "save" => pc[u] = "save" /\ got'[u] = got[u]
        /\ UNCHANGED disk /\ (lost => lost')
    <3>1. CASE Done(t)
      <4>1. /\ pc'[t] = "idle" /\ tok'[t] = 0 /\ got'[t] = 0
            /\ \A u \in Tasks \ {t} : pc'[u] = pc[u] /\ tok'[u] = tok[u] /\ got'[u] = got[u]
        BY <3>1, DoneCalls DEF IInv
      <4>2. UNCHANGED disk
        BY <1>6 DEF SendFails, CancelTask
      <4>3. lost => lost'
        BY <1>6 DEF SendFails, CancelTask, Abandoned
      <4> QED
        BY <4>1, <4>2, <4>3
    <3>2. CASE ~Done(t)
      BY <1>6, <3>2 DEF SendFails, CancelTask, IInv, TypeOK
    <3> QED
      BY <3>1, <3>2
  <2>2. CASE Rotates(tok[t])
    BY <2>1, <2>2, NewToken
  <2>3. CASE ~Rotates(tok[t])
    <3>1. UNCHANGED <<issued, live>>
      BY <1>6, <2>3 DEF SendFails, CancelTask, Abandoned
    <3> QED
      BY <2>1, <3>1, QuietTokens
  <2> QED
    BY <2>2, <2>3
<1>7. ASSUME NEW t \in Tasks, Save(t) PROVE Numbered' /\ Unread'
  BY <1>7, DoneCalls DEF Save, IInv, Numbered, Unread, TypeOK, Token
<1>8. ASSUME NEW t \in Tasks, SaveFails(t) \/ Rejected(t) PROVE Numbered' /\ Unread'
  BY <1>8, <1>0 DEF SaveFails, Rejected
<1>9. ASSUME NEW p \in Processes, Crash(p) PROVE Numbered' /\ Unread'
  <2>1. /\ \A u \in Tasks : /\ tok'[u] \in {0, tok[u]} /\ got'[u] \in {0, got[u]}
                            /\ pc'[u] = "save" => pc[u] = "save" /\ got'[u] = got[u]
        /\ UNCHANGED disk /\ (lost => lost')
    BY <1>9 DEF Crash, Abandoned, IInv, TypeOK
  <2>2. CASE \E t \in Tasks : Rotates(tok[t])
    <3>1. PICK t \in Tasks : Rotates(tok[t])
      BY <2>2
    <3> QED
      BY <2>1, <3>1, NewToken
  <2>3. CASE ~\E t \in Tasks : Rotates(tok[t])
    <3>1. UNCHANGED <<issued, live>>
      BY <1>9, <2>3 DEF Crash, Abandoned
    <3> QED
      BY <2>1, <3>1, QuietTokens
  <2> QED
    BY <2>2, <2>3
<1>10. ASSUME NEW p \in Processes, Cool(p) PROVE Numbered' /\ Unread'
  BY <1>10, QuietTokens DEF Cool
<1>11. CASE Login
  BY <1>11, OAuthAssumption DEF OAuthAssumption, Login, IInv, Numbered, Unread, TypeOK, Token
<1>12. CASE Logout
  BY <1>12 DEF Logout, IInv, Numbered, Unread, TypeOK, Token
<1>13. CASE Revoke \/ Age
  BY <1>13, QuietTokens DEF Revoke, Age, IInv, TypeOK
<1>14. CASE UNCHANGED vars
  BY <1>14, QuietTokens DEF vars
<1> QED
  BY <1>1, <1>2, <1>3, <1>4, <1>5, <1>6, <1>7, <1>8, <1>9, <1>10, <1>11, <1>12, <1>13, <1>14
  DEF Next, Refresh

-----------------------------------------------------------------------------
(* The credentials.                                                        *)

\* A step that leaves the file, the server's tokens and the tokens about to be saved alone.
LEMMA QuietCredentials ==
  ASSUME IInv, UNCHANGED <<disk, live, out>>, lost => lost',
         \A t \in Tasks : pc[t] = "save" => lost' \/ (pc'[t] = "save" /\ tok'[t] = tok[t])
  PROVE  CredentialsKept'
BY DEF IInv, CredentialsKept

LEMMA CredentialsStep == IInv /\ [Next]_vars => CredentialsKept'
<1> SUFFICES ASSUME IInv, [Next]_vars PROVE CredentialsKept'
  OBVIOUS
<1> USE DEF server, history, call
<1>0. ASSUME NEW t \in Tasks, Done(t), pc[t] # "save", UNCHANGED <<disk, live, out>>, lost => lost'
      PROVE  CredentialsKept'
  BY <1>0, DoneCalls, QuietCredentials DEF IInv
<1>1. ASSUME NEW t \in Tasks, Start(t) PROVE CredentialsKept'
  BY <1>1, QuietCredentials DEF Start, StartOn, vars, IInv, TypeOK
<1>2. ASSUME NEW t \in Tasks, Enter(t) PROVE CredentialsKept'
  <2>1. CASE Done(t)
    BY <1>2, <1>0, <2>1 DEF Enter
  <2>2. CASE ~Done(t)
    BY <1>2, <2>2, QuietCredentials DEF Enter, IInv, TypeOK
  <2> QED
    BY <2>1, <2>2
<1>3. ASSUME NEW t \in Tasks, Lock(t) \/ GoBare(t) PROVE CredentialsKept'
  BY <1>3, QuietCredentials DEF Lock, GoBare, IInv, TypeOK
<1>4. ASSUME NEW t \in Tasks, Check(t) PROVE CredentialsKept'
  <2>1. CASE Done(t)
    BY <1>4, <1>0, <2>1 DEF Check
  <2>2. CASE ~Done(t)
    BY <1>4, <2>2, QuietCredentials DEF Check, IInv, TypeOK
  <2> QED
    BY <2>1, <2>2
<1>5. ASSUME NEW t \in Tasks, Send(t) PROVE CredentialsKept'
  <2>1. CASE Rotates(tok[t])
    \* The call that took the file's token is the one that will save the next.
    BY <1>5, <2>1 DEF Send, Rotates, IInv, CredentialsKept, TypeOK
  <2>2. CASE ~Rotates(tok[t])
    BY <1>5, <2>2, QuietCredentials DEF Send, IInv, TypeOK
  <2> QED
    BY <2>1, <2>2
<1>6. ASSUME NEW t \in Tasks, SendFails(t) PROVE CredentialsKept'
  <2>1. CASE lost'
    BY <1>6, <2>1 DEF SendFails, IInv, CredentialsKept
  <2>2. CASE ~lost' /\ Done(t)
    BY <1>6, <1>0, <2>2 DEF SendFails, IInv, TypeOK
  <2>3. CASE ~lost' /\ ~Done(t)
    BY <1>6, <2>3, QuietCredentials DEF SendFails, IInv, TypeOK
  <2> QED
    BY <2>1, <2>2, <2>3
<1>7. ASSUME NEW t \in Tasks, Save(t) PROVE CredentialsKept'
  BY <1>7 DEF Save, IInv, CredentialsKept, Unread
<1>8. ASSUME NEW t \in Tasks, SaveFails(t) PROVE CredentialsKept'
  BY <1>8 DEF SaveFails, IInv, CredentialsKept
<1>9. ASSUME NEW t \in Tasks, Rejected(t) PROVE CredentialsKept'
  BY <1>9, <1>0 DEF Rejected
<1>10. ASSUME NEW t \in Tasks, CancelTask(t) PROVE CredentialsKept'
  <2>1. CASE lost'
    BY <1>10, <2>1 DEF CancelTask, IInv, CredentialsKept
  <2>2. CASE ~lost'
    BY <1>10, <1>0, <2>2 DEF CancelTask, Abandoned
  <2> QED
    BY <2>1, <2>2
<1>11. ASSUME NEW p \in Processes, Crash(p) PROVE CredentialsKept'
  <2>1. CASE lost'
    BY <1>11, <2>1 DEF Crash, IInv, CredentialsKept
  <2>2. CASE ~lost'
    <3>1. UNCHANGED <<disk, live, out>> /\ ~lost
      BY <1>11, <2>2 DEF Crash, Abandoned
    <3>2. \A t \in Tasks : pc[t] = "save" => pc'[t] = "save" /\ tok'[t] = tok[t]
      BY <1>11, <2>2 DEF Crash, Abandoned
    <3> QED
      BY <3>1, <3>2, QuietCredentials
  <2> QED
    BY <2>1, <2>2
<1>12. ASSUME NEW p \in Processes, Cool(p) PROVE CredentialsKept'
  BY <1>12, QuietCredentials DEF Cool
<1>13. CASE Login
  BY <1>13, OAuthAssumption DEF OAuthAssumption, Login, IInv, CredentialsKept, TypeOK, Token
<1>14. CASE Logout \/ Revoke
  BY <1>14 DEF Logout, Revoke, IInv, CredentialsKept
<1>15. CASE Age \/ UNCHANGED vars
  BY <1>15, QuietCredentials DEF Age, vars
<1> QED
  BY <1>1, <1>2, <1>3, <1>4, <1>5, <1>6, <1>7, <1>8, <1>9, <1>10, <1>11, <1>12, <1>13, <1>14, <1>15
  DEF Next, Refresh

-----------------------------------------------------------------------------
(* The requests.                                                           *)

\* A step that takes no token from the server's and sends nothing new.
LEMMA QuietRequests ==
  ASSUME IInv, lost => lost', bare => bare', out => out', lost' \/ live \subseteq live',
         \A t \in Tasks : /\ pc'[t] = "send" => bare' \/ (pc[t] = "send" /\ tok'[t] = tok[t])
                          /\ pc'[t] = "rejected" => pc[t] = "rejected"
  PROVE  Sendable' /\ NoTokenSpentTwice'
BY DEF IInv, Sendable, NoTokenSpentTwice

LEMMA RequestsStep == IInv /\ [Next]_vars => Sendable' /\ NoTokenSpentTwice'
<1> SUFFICES ASSUME IInv, [Next]_vars PROVE Sendable' /\ NoTokenSpentTwice'
  OBVIOUS
<1> USE DEF server, history, call
<1>0. ASSUME NEW t \in Tasks, Done(t), lost' \/ live \subseteq live',
             lost => lost', bare => bare', out => out'
      PROVE  Sendable' /\ NoTokenSpentTwice'
  BY <1>0, DoneCalls, QuietRequests DEF IInv
<1>1. ASSUME NEW t \in Tasks, Start(t) PROVE Sendable' /\ NoTokenSpentTwice'
  BY <1>1, QuietRequests DEF Start, StartOn, vars, IInv, TypeOK
<1>2. ASSUME NEW t \in Tasks, Enter(t) PROVE Sendable' /\ NoTokenSpentTwice'
  <2>1. CASE Done(t)
    BY <1>2, <1>0, <2>1 DEF Enter
  <2>2. CASE ~Done(t)
    BY <1>2, <2>2, QuietRequests DEF Enter, IInv, TypeOK
  <2> QED
    BY <2>1, <2>2
<1>3. ASSUME NEW t \in Tasks, Lock(t) \/ GoBare(t) PROVE Sendable' /\ NoTokenSpentTwice'
  BY <1>3, QuietRequests DEF Lock, GoBare, IInv, TypeOK
<1>4. ASSUME NEW t \in Tasks, Check(t) PROVE Sendable' /\ NoTokenSpentTwice'
  <2>1. CASE Done(t)
    BY <1>4, <1>0, <2>1 DEF Check
  <2>2. CASE ~Done(t)
    <3>1. /\ pc[t] = "check" /\ pc' = [pc EXCEPT ![t] = "send"]
          /\ disk = 0 \/ disk = tok[t]
      BY <1>4, <2>2 DEF Check, IInv, TypeOK
    \* Nobody else is about to save, so the file's token is one the server takes.
    <3>2. ~lost /\ ~bare /\ disk # 0 => disk \in live
      BY <3>1 DEF IInv, CredentialsKept, FileLocked, Held
    <3>3. UNCHANGED <<live, tok, lost, bare, out>>
      BY <1>4, <2>2 DEF Check
    <3>4. ~lost /\ ~bare /\ ~out => tok[t] \in live
      BY <3>1, <3>2 DEF IInv, CredentialsKept
    <3> QED
      BY <3>1, <3>3, <3>4 DEF IInv, TypeOK, Sendable, NoTokenSpentTwice
  <2> QED
    BY <2>1, <2>2
<1>5. ASSUME NEW t \in Tasks, Send(t) PROVE Sendable' /\ NoTokenSpentTwice'
  <2>1. CASE Rotates(tok[t])
    \* Only this call is behind the file lock.
    <3>1. pc' = [pc EXCEPT ![t] = "save"] /\ UNCHANGED <<tok, lost, bare, out>>
      BY <1>5, <2>1 DEF Send, Rotates
    <3>2. ~bare => \A u \in Tasks : pc[u] = "send" => u = t
      BY <1>5 DEF Send, IInv, FileLocked, Held
    <3> QED
      BY <3>1, <3>2 DEF IInv, TypeOK, Sendable, NoTokenSpentTwice
  <2>2. CASE ~Rotates(tok[t])
    BY <1>5, <2>2 DEF Send, IInv, TypeOK, Sendable, NoTokenSpentTwice
  <2> QED
    BY <2>1, <2>2
<1>6. ASSUME NEW t \in Tasks, SendFails(t) PROVE Sendable' /\ NoTokenSpentTwice'
  <2>1. lost' \/ live \subseteq live'
    BY <1>6 DEF SendFails
  <2>2. CASE Done(t)
    BY <1>6, <1>0, <2>1, <2>2 DEF SendFails
  <2>3. CASE ~Done(t)
    BY <1>6, <2>1, <2>3, QuietRequests DEF SendFails
  <2> QED
    BY <2>2, <2>3
<1>7. ASSUME NEW t \in Tasks, Save(t) \/ SaveFails(t) \/ Rejected(t) PROVE Sendable' /\ NoTokenSpentTwice'
  BY <1>7, <1>0 DEF Save, SaveFails, Rejected
<1>8. ASSUME NEW t \in Tasks, CancelTask(t) PROVE Sendable' /\ NoTokenSpentTwice'
  BY <1>8, <1>0 DEF CancelTask, Abandoned
<1>9. ASSUME NEW p \in Processes, Crash(p) PROVE Sendable' /\ NoTokenSpentTwice'
  BY <1>9, QuietRequests DEF Crash, Abandoned, IInv, TypeOK
<1>10. ASSUME NEW p \in Processes, Cool(p) PROVE Sendable' /\ NoTokenSpentTwice'
  BY <1>10, QuietRequests DEF Cool
<1>11. CASE Login \/ Logout \/ Revoke \/ Age
  BY <1>11, QuietRequests DEF Login, Logout, Revoke, Age
<1>12. CASE UNCHANGED vars
  BY <1>12, QuietRequests DEF vars
<1> QED
  BY <1>1, <1>2, <1>3, <1>4, <1>5, <1>6, <1>7, <1>8, <1>9, <1>10, <1>11, <1>12
  DEF Next, Refresh

-----------------------------------------------------------------------------
LEMMA InvStep == IInv /\ [Next]_vars => IInv'
BY TypeStep, FileLockedStep, TokensStep, CredentialsStep, RequestsStep DEF IInv

\* The server refuses a refresh only when a token was lost on its way to the file, the file
\* lock was given up, or the user logged out under it: however many managers and processes
\* read the file at once, no two of them spend one token.
THEOREM NoSecondUse == Spec => []NoTokenSpentTwice
BY InvInit, InvStep, PTL DEF Spec, IInv

\* A refusal never costs the user the credentials, even when the file lock was given up.
THEOREM CredentialsSafe == Spec => []CredentialsKept
BY InvInit, InvStep, PTL DEF Spec, IInv
=============================================================================
