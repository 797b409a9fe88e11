SPECIFICATION Spec
CONSTANTS
  Clients = {c1, c2}
  Admin = admin
  Prompts = {p1, p2}
  Inits = {}
  Requests = {r1}
  Cancels = {}
  None = none
  MaxGen = 2
INVARIANTS
  TypeOK
  QuietMeansNotBusy
  InFlightOwned
PROPERTIES
  QuestionKept
SYMMETRY Symmetry
CONSTRAINT QuestionOrSecondPrompt
