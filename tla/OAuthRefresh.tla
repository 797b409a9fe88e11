---------------------------- MODULE OAuthRefresh ----------------------------
(***************************************************************************)
(* The OAuth credentials of one account (auth/oauth.py): a file shared by  *)
(* every process of the user, whose refresh token the server replaces at   *)
(* each use.  Each process has managers (OAuthManager), and each manager   *)
(* tasks that call ensure_fresh: the loop that refreshes in the            *)
(* background, the start of a turn, a request answered with 401.           *)
(*                                                                         *)
(* Three guards are to keep two refreshes from using one token: the        *)
(* manager's asyncio lock, the file lock between processes, which is given *)
(* up after five tries, and the reading of the file once more under it.    *)
(* Tokens are numbered as the server issues them; what the server and the  *)
(* network do is taken from how the code treats them.                      *)
(***************************************************************************)
EXTENDS Integers, FiniteSets

CONSTANTS
    Tasks, Managers, Processes,
    ManagerOf,   \* [Tasks -> Managers]
    ProcessOf,   \* [Managers -> Processes]
    MaxToken,    \* how many tokens the server issues (a bound)
    Budgets      \* how often the bounded events may happen

Events == {"login", "logout", "revoke", "age", "force", "fault", "crash"}

ASSUME OAuthAssumption ==
    /\ ManagerOf \in [Tasks -> Managers] /\ ProcessOf \in [Managers -> Processes]
    /\ MaxToken \in Nat \ {0}
    /\ Budgets \subseteq [Events -> Nat]

VARIABLES
    left,    \* what is left of the budget
    issued,  \* the last token the server has issued
    live,    \* the refresh tokens the server takes
    disk,    \* the token in the credentials file, 0 without one
    due,     \* tokens past the refresh threshold of their lifetime
    cache,   \* [Managers -> token]: _access_tokens, 0 without one
    tomb,    \* [Processes -> record]: _REJECTED_REFRESH_TOKENS, and whether it still cools down
    owner,   \* [Managers -> tasks]: who holds _refresh_lock
    flock,   \* the task that holds the file lock
    pc,      \* [Tasks -> where the call is]
    force,   \* [Tasks -> BOOLEAN]: ensure_fresh(force=True)
    tok,     \* [Tasks -> token]: the one the call read (refresh_token_value)
    got,     \* [Tasks -> token]: the server's answer
    tries,   \* [Tasks -> 0 .. 2]: requests that failed
    out,     \* the user has logged out (history)
    lost,    \* a token the server issued never reached the file, or it revoked one (history)
    bare     \* a refresh went on without the file lock (history)

vars == <<left, issued, live, disk, due, cache, tomb, owner, flock, pc, force, tok, got, tries,
          out, lost, bare>>

server  == <<issued, live, due>>
history == <<out, lost, bare>>
call    == <<force, tok, got, tries>>

Token   == 0 .. MaxToken
Dug     == [token : Token, cooling : BOOLEAN]
NoTomb  == [token |-> 0, cooling |-> FALSE]
Process(t) == ProcessOf[ManagerOf[t]]

-----------------------------------------------------------------------------
Init ==
    /\ left \in Budgets
    /\ issued = 1 /\ live = {1} /\ disk = 1 /\ due = {}
    /\ cache = [m \in Managers |-> 1]
    /\ tomb = [p \in Processes |-> NoTomb]
    /\ owner = [m \in Managers |-> {}] /\ flock = {}
    /\ pc = [t \in Tasks |-> "idle"] /\ force = [t \in Tasks |-> FALSE]
    /\ tok = [t \in Tasks |-> 0] /\ got = [t \in Tasks |-> 0] /\ tries = [t \in Tasks |-> 0]
    /\ out = FALSE /\ lost = FALSE /\ bare = FALSE

Spend(e) == left[e] > 0 /\ left' = [left EXCEPT ![e] = @ - 1]

-----------------------------------------------------------------------------
\* The rejected token of a process.

\* mutant: any persisted token is held back while there is a rejected one
SuppressedAny(p, k) == tomb[p].token # 0

\* The process knows the token k as rejected.
Suppressed(p, k) == k # 0 /\ tomb[p].token = k

\* It may ask for it again: the cooldown is over.
CanRetry(p, k) == ~Suppressed(p, k) \/ ~tomb[p].cooling

\* A rejected token is forgotten when the file has another.
Look(p, k) ==
    tomb' = IF k # 0 /\ ~Suppressed(p, k) THEN [tomb EXCEPT ![p] = NoTomb] ELSE tomb

\* A persisted token is cached unless it is suppressed.
Adopt(m, k) ==
    cache' = IF k # 0 /\ ~Suppressed(ProcessOf[m], k) THEN [cache EXCEPT ![m] = k] ELSE cache

-----------------------------------------------------------------------------
\* ensure_fresh and _refresh_tokens, from one await to the next.

\* The call is over, with or without an exception: both locks are released.
Done(t) ==
    /\ pc' = [pc EXCEPT ![t] = "idle"]
    /\ force' = [force EXCEPT ![t] = FALSE]
    /\ tok' = [tok EXCEPT ![t] = 0] /\ got' = [got EXCEPT ![t] = 0]
    /\ tries' = [tries EXCEPT ![t] = 0]
    /\ owner' = [m \in Managers |-> owner[m] \ {t}]
    /\ flock' = flock \ {t}

\* The persisted token is read and used at once; one that was rejected is not, and is tried
\* again only after the cooldown.
StartOn(t) ==
    LET m == ManagerOf[t]
        p == Process(t) IN
    /\ pc[t] = "idle" /\ disk # 0
    /\ IF Suppressed(p, disk)
       THEN cache' = [cache EXCEPT ![m] = 0] /\ UNCHANGED tomb
       ELSE Adopt(m, disk) /\ Look(p, disk)
    /\ IF CanRetry(p, disk)
       THEN /\ pc' = [pc EXCEPT ![t] = "wait"] /\ tok' = [tok EXCEPT ![t] = disk]
            /\ \/ UNCHANGED <<left, force>>
               \/ Spend("force") /\ force' = [force EXCEPT ![t] = TRUE]
       ELSE UNCHANGED <<left, pc, tok, force>>
    /\ UNCHANGED <<server, disk, owner, flock, got, tries, history>>

\* Without credentials there is nothing to do.
Start(t) ==
    \/ StartOn(t)
    \/ pc[t] = "idle" /\ disk = 0 /\ UNCHANGED vars

\* Under the manager's lock the file is read again, and its token may be fresh by now.  When
\* the file is gone the call goes on with the token it came with.
Enter(t) ==
    LET m == ManagerOf[t]
        p == Process(t)
        k == IF disk # 0 THEN disk ELSE tok[t] IN
    /\ pc[t] = "wait" /\ owner[m] = {}
    /\ Look(p, IF ~force[t] /\ k \notin due THEN disk ELSE k)
    /\ IF ~force[t] /\ k \notin due
       THEN Adopt(m, disk) /\ Done(t)
       ELSE IF ~CanRetry(p, k)
       THEN cache' = [cache EXCEPT ![m] = 0] /\ Done(t)
       ELSE /\ Adopt(m, disk)
            /\ owner' = [owner EXCEPT ![m] = {t}]
            /\ pc' = [pc EXCEPT ![t] = "lock"] /\ tok' = [tok EXCEPT ![t] = k]
            /\ UNCHANGED <<force, got, tries, flock>>
    /\ UNCHANGED <<left, server, disk, history>>

\* _CrossProcessLock.
Lock(t) ==
    /\ pc[t] = "lock" /\ flock = {}
    /\ flock' = {t}
    /\ pc' = [pc EXCEPT ![t] = "check"]
    /\ UNCHANGED <<left, server, disk, cache, tomb, owner, call, history>>

\* After five more tries, or when the lock file cannot be opened, it goes on without.
GoBare(t) ==
    /\ pc[t] = "lock"
    /\ \/ flock # {} /\ UNCHANGED left
       \/ flock = {} /\ Spend("fault")
    /\ pc' = [pc EXCEPT ![t] = "send"]
    /\ bare' = TRUE
    /\ UNCHANGED <<server, disk, cache, tomb, owner, flock, call, out, lost>>

\* mutant: a token another process has written meanwhile is not looked for
CheckTimeOnly(t) ==
    LET m == ManagerOf[t] IN
    /\ pc[t] = "check"
    /\ IF disk # 0 /\ ~force[t] /\ disk \notin due
       THEN /\ tomb' = [tomb EXCEPT ![Process(t)] = NoTomb]
            /\ cache' = [cache EXCEPT ![m] = disk]
            /\ Done(t)
       ELSE /\ pc' = [pc EXCEPT ![t] = "send"]
            /\ UNCHANGED <<tomb, cache, owner, flock, call>>
    /\ UNCHANGED <<left, server, disk, history>>

\* Under the file lock the file is read a third time: another process may have refreshed.
Check(t) ==
    LET m == ManagerOf[t] IN
    /\ pc[t] = "check"
    /\ IF disk # 0 /\ (disk # tok[t] \/ (~force[t] /\ disk \notin due))
       THEN /\ tomb' = [tomb EXCEPT ![Process(t)] = NoTomb]
            /\ cache' = [cache EXCEPT ![m] = disk]
            /\ Done(t)
       ELSE /\ pc' = [pc EXCEPT ![t] = "send"]
            /\ UNCHANGED <<tomb, cache, owner, flock, call>>
    /\ UNCHANGED <<left, server, disk, history>>

\* The server replaces a token it takes and refuses any other.
Rotates(k) ==
    /\ k \in live /\ issued < MaxToken
    /\ issued' = issued + 1 /\ live' = (live \ {k}) \cup {issued + 1}
    /\ UNCHANGED due

Send(t) ==
    /\ pc[t] = "send"
    /\ \/ /\ Rotates(tok[t])
          /\ pc' = [pc EXCEPT ![t] = "save"] /\ got' = [got EXCEPT ![t] = issued + 1]
       \/ /\ tok[t] \notin live
          /\ pc' = [pc EXCEPT ![t] = "rejected"]
          /\ UNCHANGED <<server, got>>
    /\ UNCHANGED <<left, disk, cache, tomb, owner, flock, force, tok, tries, history>>

\* mutant: one request too many
SendFailsAgain(t) ==
    /\ pc[t] = "send" /\ tries[t] < 3
    /\ tries' = [tries EXCEPT ![t] = @ + 1]
    /\ UNCHANGED <<left, server, disk, cache, tomb, owner, flock, pc, force, tok, got, history>>

\* No answer, or one worth a retry, three requests at most; or an error that is not, which
\* ends the call at once.  The server may have replaced the token all the same.
SendFails(t) ==
    /\ pc[t] = "send"
    /\ \/ Rotates(tok[t]) /\ Spend("fault") /\ lost' = TRUE
       \/ issued < MaxToken /\ Spend("fault") /\ UNCHANGED <<server, lost>>
       \/ issued = MaxToken /\ UNCHANGED <<left, server, lost>>
    /\ \/ /\ tries[t] < 2 /\ tries' = [tries EXCEPT ![t] = @ + 1]
          /\ UNCHANGED <<pc, force, tok, got, owner, flock>>
       \/ Done(t)
    /\ UNCHANGED <<disk, cache, tomb, out, bare>>

\* The new token goes to the file, by a rename, and into the cache.
Save(t) ==
    /\ pc[t] = "save"
    /\ disk' = got[t]
    /\ tomb' = [tomb EXCEPT ![Process(t)] = NoTomb]
    /\ cache' = [cache EXCEPT ![ManagerOf[t]] = got[t]]
    /\ Done(t)
    /\ UNCHANGED <<left, server, history>>

SaveFails(t) ==
    /\ pc[t] = "save" /\ Spend("fault")
    /\ tomb' = [tomb EXCEPT ![Process(t)] = NoTomb]
    /\ lost' = TRUE
    /\ Done(t)
    /\ UNCHANGED <<server, disk, cache, out, bare>>

\* mutant: a rejected token takes the credentials file with it
RejectedDeletes(t) ==
    /\ pc[t] = "rejected"
    /\ disk' = 0
    /\ cache' = [cache EXCEPT ![ManagerOf[t]] = 0]
    /\ Done(t)
    /\ UNCHANGED <<left, server, tomb, history>>

\* mutant: a refused request is sent again
RejectedAgain(t) ==
    /\ pc[t] = "rejected"
    /\ pc' = [pc EXCEPT ![t] = "send"]
    /\ UNCHANGED <<left, server, disk, cache, tomb, owner, flock, call, history>>

\* A second after a refusal the file is read again: the token of a concurrent refresh is
\* taken, or else the refused one is marked.  The file is left alone.
Rejected(t) ==
    LET m == ManagerOf[t]
        p == Process(t) IN
    /\ pc[t] = "rejected"
    /\ IF disk # 0 /\ disk # tok[t]
       THEN tomb' = [tomb EXCEPT ![p] = NoTomb] /\ cache' = [cache EXCEPT ![m] = disk]
       ELSE /\ tomb' = [tomb EXCEPT ![p] = [token |-> tok[t], cooling |-> TRUE]]
            /\ cache' = [cache EXCEPT ![m] = 0]
    /\ Done(t)
    /\ UNCHANGED <<left, server, disk, history>>

-----------------------------------------------------------------------------
\* Cancels and crashes, the user, the server and time.

\* What the end of a call leaves of a request: the server may have taken the token.
Abandoned(ts) ==
    \/ /\ \E t \in ts : pc[t] = "send" /\ Rotates(tok[t])
       /\ lost' = TRUE
    \/ /\ UNCHANGED server
       /\ lost' = (lost \/ \E t \in ts : pc[t] = "save")

\* The turn that called is cancelled at an await.
CancelTask(t) ==
    /\ pc[t] \in {"wait", "lock", "send", "rejected"} /\ Spend("fault")
    /\ Abandoned({t})
    /\ Done(t)
    /\ UNCHANGED <<disk, cache, tomb, out, bare>>

\* A process dies with its calls and its locks, and another starts from the file.
Crash(p) ==
    LET mine == {t \in Tasks : Process(t) = p} IN
    /\ Spend("crash")
    /\ Abandoned(mine)
    /\ pc' = [t \in Tasks |-> IF t \in mine THEN "idle" ELSE pc[t]]
    /\ force' = [t \in Tasks |-> t \notin mine /\ force[t]]
    /\ tok' = [t \in Tasks |-> IF t \in mine THEN 0 ELSE tok[t]]
    /\ got' = [t \in Tasks |-> IF t \in mine THEN 0 ELSE got[t]]
    /\ tries' = [t \in Tasks |-> IF t \in mine THEN 0 ELSE tries[t]]
    /\ owner' = [m \in Managers |-> owner[m] \ mine] /\ flock' = flock \ mine
    /\ cache' = [m \in Managers |-> IF ProcessOf[m] = p THEN disk ELSE cache[m]]
    /\ tomb' = [tomb EXCEPT ![p] = NoTomb]
    /\ UNCHANGED <<disk, out, bare>>

\* /login saves the tokens of a new authorization, without the locks.
Login ==
    /\ issued < MaxToken /\ Spend("login")
    /\ issued' = issued + 1 /\ live' = live \cup {issued + 1} /\ disk' = issued + 1
    /\ UNCHANGED <<due, cache, tomb, owner, flock, pc, call, history>>

\* /logout deletes the file, without the locks; the server is not told.
Logout ==
    /\ disk # 0 /\ Spend("logout")
    /\ disk' = 0 /\ out' = TRUE
    /\ UNCHANGED <<server, cache, tomb, owner, flock, pc, call, lost, bare>>

Revoke ==
    /\ Spend("revoke")
    /\ live' = {} /\ lost' = TRUE
    /\ UNCHANGED <<issued, due, disk, cache, tomb, owner, flock, pc, call, out, bare>>

Age ==
    /\ disk # 0 /\ disk \notin due /\ Spend("age")
    /\ due' = due \cup {disk}
    /\ UNCHANGED <<issued, live, disk, cache, tomb, owner, flock, pc, call, history>>

Cool(p) ==
    /\ tomb[p].cooling
    /\ tomb' = [tomb EXCEPT ![p].cooling = FALSE]
    /\ UNCHANGED <<left, server, disk, cache, owner, flock, pc, call, history>>

-----------------------------------------------------------------------------
Refresh(t) ==
    \/ Enter(t) \/ Lock(t) \/ GoBare(t) \/ Check(t) \/ Send(t) \/ SendFails(t)
    \/ Save(t) \/ SaveFails(t) \/ Rejected(t)

Next ==
    \/ \E t \in Tasks : Start(t) \/ Refresh(t) \/ CancelTask(t)
    \/ \E p \in Processes : Crash(p) \/ Cool(p)
    \/ Login \/ Logout \/ Revoke \/ Age

\* The loops call ensure_fresh again and again and _refresh_lock serves its waiters in turn;
\* the file lock promises no order, but no more than six tries; requests have a timeout.
Fairness ==
    /\ \A t \in Tasks :
          /\ WF_vars(StartOn(t)) /\ SF_vars(Enter(t)) /\ WF_vars(Lock(t) \/ GoBare(t))
          /\ WF_vars(Check(t) \/ Send(t) \/ SendFails(t) \/ Save(t) \/ SaveFails(t) \/ Rejected(t))
    /\ \A p \in Processes : WF_vars(Cool(p))

Spec == Init /\ [][Next]_vars /\ Fairness

-----------------------------------------------------------------------------
Places == {"idle", "wait", "lock", "check", "send", "save", "rejected"}

TypeOK ==
    /\ left \in [Events -> Nat]
    /\ issued \in Token /\ live \subseteq Token /\ disk \in Token /\ due \subseteq Token
    /\ cache \in [Managers -> Token] /\ tomb \in [Processes -> Dug]
    /\ owner \in [Managers -> SUBSET Tasks] /\ flock \subseteq Tasks
    /\ pc \in [Tasks -> Places] /\ force \in [Tasks -> BOOLEAN]
    /\ tok \in [Tasks -> Token] /\ got \in [Tasks -> Token] /\ tries \in [Tasks -> 0 .. 2]
    /\ out \in BOOLEAN /\ lost \in BOOLEAN /\ bare \in BOOLEAN

\* The three readings of the file do what they are for: of any number of managers and
\* processes no two spend one token.  The server refuses a refresh only when a token was lost
\* on its way to the file, the lock was given up, or the user logged out under it.
NoTokenSpentTwice ==
    (\E t \in Tasks : pc[t] = "rejected") => lost \/ bare \/ out

\* The file has a token the server takes, or one is about to be saved: a refusal never costs
\* the user the credentials, even when the file lock was given up.  Only a token lost on its
\* way, or a logout, does.
CredentialsKept ==
    /\ disk = 0 => out
    /\ disk # 0 /\ ~lost => disk \in live \/ \E t \in Tasks : pc[t] = "save" /\ tok[t] = disk

\* Every manager comes to use the token of the file, the one another process put there too,
\* whatever it has seen refused before.
AdoptsTheFile ==
    \A m \in Managers : <>[](disk \in live => cache[m] = disk)

\* A call of ensure_fresh ends, even while other processes keep the file lock busy.
RefreshEnds ==
    \A t \in Tasks : pc[t] # "idle" ~> pc[t] = "idle"

=============================================================================
