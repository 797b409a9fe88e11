SPECIFICATION Spec
CONSTANTS
  Clients = {c1}
  Admin = admin
  Prompts = {p1}
  Inits = {i1, i2}
  Requests = {}
  Cancels = {}
  None = none
  MaxGen = 2
INVARIANTS
  InitializeOnce
  InitializeRestored
  DedupedAwaitAnswer
SYMMETRY Symmetry
