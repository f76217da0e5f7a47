SPECIFICATION SignInSpec
CONSTANTS
  People = {ann, bob}
  Founders = {ann, bob}
  Legacy = {}
  Subjects = {u1}
  Invites = {n1}
  LoginStates = {l1}
  Visits = {v1, v2}
  Nobody = Nobody
  MaxSessions = 2
  MaxFailures = 2
  MaxToken = 1
  MaxPassword = 2
CHECK_DEADLOCK FALSE
INVARIANT WorkspaceHasOwner
