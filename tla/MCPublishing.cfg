SPECIFICATION Spec
CONSTANTS
  Runs = {r1, r2, r3}
  Operators = {p1, p2}
  None = None
  Typed = {"@ann", "Bob", "bob"}
  Names = {"ann", "bob"}
  Normal <- TwoSpellings
  Drafts = {"reel", "story"}
  FormatOf <- DraftIsFormat
  Candidates = {c1}
  Pollers = {w1, w2}
  Nothing = Nothing
  MaxAttempts = 3
  FirstIntents = {i1}
  FirstRuns = {e1, e2}
  NoFirstRun = NoFirstRun
  MaxGrants = 2
  MaxFirstVersion = 7
  PostPlatform = "instagram"
  Corrections = {o1, o2, o3}
  ManualCorrections = {o2, o3}
  Mutations = {"delete_remote"}
  Requesters = {ann}
  Approvers = {bob}
  CorrectionRuns = {x1, x2}
  NoCorrectionRun = NoCorrectionRun
  ProofTimes = {1, 2, 3}
CHECK_DEADLOCK FALSE
INVARIANTS
  TypesOK
  OnePostPerTarget
  RecordsAreTrue
  ReviewsAreResolvable
  WritesArePermitted
PROPERTIES
  SettledPostsStay
