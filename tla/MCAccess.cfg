SPECIFICATION Spec
CONSTANTS
  Intents = {i1}
  ReplyRuns = {r1, r2}
  NoRun = NoRun
  MaxBody = 2
  Messages = {m1}
  MessagePages = 1
  MaxReceiptAttempts = 2
  MaxSyncVersion = 2
  Syncers = {h1, h2}
  Replies = {y1}
  ReplyJobs = {j1, j2}
  MaxApprovals = 2
  Accounts = {a1}
  Grants = {g1}
  Flows = {f1}
  Calls = {c1, c2}
  MaxRefreshAttempts = 1
  MaxErasureAttempts = 1
  People = {ann, bob}
  Founders = {ann}
  Legacy = {}
  Subjects = {u1}
  Invites = {n1}
  LoginStates = {l1}
  Visits = {v1, v2, v3}
  Nobody = Nobody
  MaxSessions = 2
  MaxFailures = 2
  MaxToken = 2
  MaxPassword = 2
CHECK_DEADLOCK FALSE
INVARIANTS
  TypesOK
  RepliesAreApproved
  AccessIsCurrent
PROPERTIES
  RepliesSettle
  WithdrawnStaysWithdrawn
