SPECIFICATION Spec
CONSTANTS
  Turns = {t1}
  Subs = {s1}
  Bgs = {}
  Requests = {r1}
  Actions = {a1}
  None = none
  MaxOut = 1
INVARIANTS
  SubagentsEndWithTurn
CHECK_DEADLOCK FALSE
