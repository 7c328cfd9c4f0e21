SPECIFICATION FairSpec
CONSTANTS
  Messages = {m1, m2}
  Requests = {r1, r2}
  sandbox = sandbox
  other = other
  Budgets = {sandbox, other}
  BudgetId = sandbox
  BrakeThreshold = 80
  DryRun = FALSE
  Rules = {50, 80}
  Figures <- MCFigures
  MaxFaults = 1
  None = None
  Malformed = Malformed
INVARIANTS
  TypeOK
  NoBrakeIsLost
  BrakesOnSpending
PROPERTIES
  BrakeEngages
  QueueDrains
