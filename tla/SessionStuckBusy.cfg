SPECIFICATION FairSpec
CONSTANTS
  Clients = {c1}
  Admin = admin
  Prompts = {p1}
  Inits = {}
  Requests = {}
  Cancels = {}
  None = none
  MaxGen = 2
PROPERTIES
  BusyStatusSettles
