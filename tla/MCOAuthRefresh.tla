---------------------------- MODULE MCOAuthRefresh ----------------------------
(***************************************************************************)
(* Small instances of OAuthRefresh: a process whose manager has two tasks, *)
(* and another process.                                                    *)
(***************************************************************************)
EXTENDS OAuthRefresh

CONSTANTS t1, t2, t3, m1, m2, p1, p2

TaskManagers     == [t \in Tasks |-> IF t = t3 THEN m2 ELSE m1]
ManagerProcesses == [m \in Managers |-> IF m = m2 THEN p2 ELSE p1]

Budget(login, logout, revoke, age, forced, fault, crash) ==
    [login |-> login, logout |-> logout, revoke |-> revoke, age |-> age, force |-> forced,
     fault |-> fault, crash |-> crash]

\* The user comes and goes; requests and locks fail; two forced refreshes; a crash; the
\* server takes the account away.
SmallBudgets ==
    { Budget(1, 1, 0, 0, 1, 0, 0), Budget(0, 0, 0, 1, 0, 2, 0), Budget(0, 0, 0, 0, 2, 1, 0),
      Budget(0, 0, 0, 1, 0, 0, 1), Budget(1, 0, 1, 0, 1, 0, 0) }

===============================================================================
