SPECIFICATION Spec
CONSTANTS
  t1 = t1
  t2 = t2
  t3 = t3
  m1 = m1
  m2 = m2
  p1 = p1
  p2 = p2
  Tasks = {t1, t2, t3}
  Managers = {m1, m2}
  Processes = {p1, p2}
  ManagerOf <- TaskManagers
  ProcessOf <- ManagerProcesses
  MaxToken = 3
  Budgets <- SmallBudgets
INVARIANTS
  TypeOK
  NoTokenSpentTwice
  CredentialsKept
PROPERTIES
  AdoptsTheFile
  RefreshEnds
