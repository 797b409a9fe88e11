SPECIFICATION Spec
CONSTANTS
  Clients = {c1, c2}
  Admin = admin
  Prompts = {p1}
  Inits = {}
  Requests = {}
  Cancels = {}
  None = none
  MaxGen = 2
PROPERTIES
  NeverKillBusyWorker
