SPECIFICATION FairSpec
CONSTANTS
  Clients = {c1}
  Admin = admin
  Prompts = {p1}
  Inits = {}
  Requests = {}
  Cancels = {x1}
  None = none
  MaxGen = 2
PROPERTIES
  InFlightSettles
  CallsReturn
