SPECIFICATION FairSpec
CONSTANTS
  Turns = {t1}
  Subs = {s1}
  Bgs = {b1}
  Requests = {r1}
  Actions = {a1}
  None = none
  MaxOut = 1
PROPERTIES
  CardsAppear
  DeadCardsGo
  CancelledTurnEnds
CHECK_DEADLOCK FALSE
