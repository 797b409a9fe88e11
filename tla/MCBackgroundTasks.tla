------------------------- MODULE MCBackgroundTasks -------------------------
(* BackgroundTasks for TLC: the constants are given by the .cfg files.      *)
EXTENDS BackgroundTasks, TLC

CONSTANTS b1, a1, a2

\* A command or an agent with a crash of the session; two agents, one of which
\* asks for an approval; two agents, one of which leaves its soul at work.
SmallBudgets == {[tasks |-> {b1}, crashes |-> 1, asks |-> 0, souls |-> 0],
                 [tasks |-> {a1}, crashes |-> 1, asks |-> 2, souls |-> 1],
                 [tasks |-> {a1, a2}, crashes |-> 0, asks |-> 1, souls |-> 0],
                 [tasks |-> {a1, a2}, crashes |-> 0, asks |-> 0, souls |-> 1]}
=============================================================================
