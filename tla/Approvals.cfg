SPECIFICATION Spec
CONSTANTS
  Turns = {t1}
  Subs = {s1}
  Bgs = {}
  Requests = {r1, r2}
  Actions = {a1, a2}
  None = none
  MaxOut = 1
INVARIANTS
  TypeOK
  GrantedByUser
  VerdictIsFinal
  SessionApprovalCovers
  ScreenAgrees
SYMMETRY Symmetry
CHECK_DEADLOCK FALSE
