SPECIFICATION Spec
CONSTANTS
  k1 = k1
  k2 = k2
  Keys = {k1, k2}
  Sinks = {"llm", "shell"}
  None = none
  Limit = 2
  Budgets <- SmallBudgets
INVARIANTS
  TypeOK
  HistoryWasShown
PROPERTIES
  Delivers
  DueIsShown
  ClaimsAreReturned
