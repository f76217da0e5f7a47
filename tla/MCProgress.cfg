SPECIFICATION Spec
CONSTANTS
  Workers = {w1}
  MaxAttempts = 2
  JobAttempts = 2
  MaxCrashes = 2
  MaxLosses = 1
  NoMessage = NoMessage
  ResearchIds = {s1, s2}
  ResearchAttempts = 3
  MaxEdits = 1
  LossyEnqueue = TRUE
  Comments = {c1}
  Readers = {h1}
  NoReader = NoReader
  NoNotice = NoNotice
  MaxReceiptAttempts = 2
  MaxStops = 1
  Accounts = {a1}
  Grants = {g1}
  Flows = {f1}
  Calls = {k1}
  MaxRefreshAttempts = 1
  MaxErasureAttempts = 1
  BridgeRequests = {b1, b2}
  Outputs <- SampleOutputs
  Pages = 2
  PageRequests = {d, x, y, z}
  Document = d
  Limit = 2
  MaxRequests = 3
  MaxBytes = 2
  Urls = {u1, u2}
  Reports <- SampleReports
  Fan = 2
  MaxRedirects = 1
  SourceLimit = 3
  NoUrl = NoUrl
CHECK_DEADLOCK FALSE
INVARIANTS
  TypesOK
  
  CallsAreChecked
PROPERTIES
  CompletedIsFinal
  
  CommentsArrive
