SPECIFICATION Spec
CONSTANTS
  Decisions = {d1, d2}
  SkillDecisions = {d2}
  NoDecision = NoDecision
  MaxBoardEpoch = 3
  MaxBoardVersion = 7
  Tasks = {t1, t2}
  People = {ann, bob}
  Managers = {bob}
  Executions = {e1}
  Deliveries = {j1}
  Agent = Agent
  Nobody = Nobody
  NoExecution = NoExecution
  MaxTaskEpoch = 2
  Profiles = {p1}
  ConfiguredOwner = ann
  RuntimeOperations = {o1, o2}
  NoProfile = NoProfile
  MaxRuntimeVersion = 3
  Posts = {r1, r2}
  PostRequests = {r1}
  Tickers = {k1, k2}
  NoTicker = NoTicker
  MaxEvidence = 3
  PanelAccounts = {c1}
  MaxItem = 3
  MaxCalendar = 2
  MaxOptions = 1
  MaxNow = 1
  MaxReads = 1
  Assets = {m1}
  Jobs = {w1, w2}
  MaxMediaVersion = 5
  Folders = {f1, f2, f3}
  Files = {a1}
  Txs = {x1, x2}
  Root = Root
  Nowhere = Nowhere
  MaxDepth = 3
  Renders = {q1}
  Renderers = {w1, w2}
  NoRequest = NoRequest
  MaxRevision = 2
  MaxAttempts = 2
  Shares = {q1, q2}
  Texts = {u1, u2}
  MaxReceiptVersion = 7
CHECK_DEADLOCK FALSE
INVARIANTS
  TypesOK
  AgentWorkIsReviewed
  AppliedOnce
  AgentsAreReady
  FilesAreWhole
PROPERTY EndedStaysEnded
