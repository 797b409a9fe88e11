-------------------------- MODULE MCSessionProcess --------------------------
(* SessionProcess for TLC: the constants are given by the .cfg files; ids   *)
(* and clients are interchangeable (safety runs only).                      *)
EXTENDS SessionProcess, TLC

Symmetry == Permutations(Clients) \cup Permutations(Prompts) \cup Permutations(Inits)

\* bound: a behaviour has a second prompt or a question of a worker, not both
QuestionOrSecondPrompt == Requests \subseteq unsent \/ Prompts \cap unsent # {}
=============================================================================
