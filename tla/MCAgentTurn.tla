----------------------------- MODULE MCAgentTurn -----------------------------
(***************************************************************************)
(* Small instances of AgentTurn.                                           *)
(***************************************************************************)
EXTENDS AgentTurn

\* How often each event may happen.
Budget(turns, steers, notes, mails, compacts, hooks, cancels, crashes, fails) ==
    [turn |-> turns, steer |-> steers, note |-> notes, mail |-> mails, compact |-> compacts,
     hook |-> hooks, cancel |-> cancels, crash |-> crashes, fail |-> fails]

\* Two turns with a cancelled or a crashed one, two turns with a compaction, one turn with
\* steers, one with everything that rebuilds the context, and turns whose writes fail.
SmallBudgets ==
    { Budget(2, 0, 0, 1, 0, 0, 1, 0, 0), Budget(2, 0, 0, 1, 0, 0, 0, 1, 0),
      Budget(2, 0, 0, 1, 1, 0, 0, 0, 0), Budget(1, 2, 0, 1, 0, 0, 0, 0, 0),
      Budget(1, 1, 1, 0, 0, 1, 0, 0, 0), Budget(1, 0, 0, 1, 2, 0, 0, 0, 0),
      Budget(1, 0, 1, 0, 1, 0, 1, 1, 0), Budget(2, 1, 0, 0, 0, 0, 0, 0, 1),
      Budget(1, 0, 1, 1, 1, 0, 0, 0, 1) }

=============================================================================
