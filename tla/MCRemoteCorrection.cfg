SPECIFICATION RemoteCorrectionFairSpec
CONSTANTS
  PostPlatform = "facebook"
  Corrections = {o1}
  ManualCorrections = {}
  Mutations = {"delete_remote", "make_private"}
  Requesters = {ann}
  Approvers = {ann}
  CorrectionRuns = {r1}
  NoCorrectionRun = NoCorrectionRun
  ProofTimes = {1}
CHECK_DEADLOCK FALSE
PROPERTY UncertainIsReconciled
