SPECIFICATION Spec
CONSTANTS
  b1 = b1
  a1 = a1
  a2 = a2
  Bash = {b1}
  Agents = {a1, a2}
  Instances = {i1}
  None = none
  MaxRunning = 1
  Budgets <- SmallBudgets
INVARIANTS
  TypeOK
  NoticeTruthful
  StopNeverCompletes
  OneRunnerPerInstance
PROPERTIES
  FinalKept
  KillStops
  EndIsTold
