SPECIFICATION Spec
CONSTANTS
  Actors = {w1, w2}
  Subjects = {d1, d2}
  Nothing = Nothing
  WorkflowTargets = {t1, t2, t3}
  Prints = {f1}
  PrintOf <- OnePrint
  MaxRuns = 2
  MaxSignalVersion = 4
  Rows = {n1, n2, n3}
  InvalidRows = {n3}
  PlanRows = {r1}
  MaxPlanVersion = 7
  MaxItemVersion = 6
  Times = {1, 2}
  Window = 1
  Weeks = {{1, 2}, {2, 3}}
  Gap = {3}
  MaxWrites = 2
  Posts = {"official", "simulation"}
  Mode <- ModeOfPost
  Platform <- PlatformOfPost
  Contracts = {1, 2}
  NonAdditive = {2}
  Links = {l1}
  MaxTime = 1
  StaleAfter = 0
  MaxTries = 1
  Hooks = {h1}
  Managers = {m1}
  MaxAttempts = 2
  MaxClaims = 3
SYMMETRY Symmetric
CHECK_DEADLOCK FALSE
INVARIANTS
  TypesOK
  ScheduledAsReviewed
  AutomationKeepsAccount
  ReportsAreProven
PROPERTY SettledContentStays
