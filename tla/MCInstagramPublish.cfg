SPECIFICATION Spec
CONSTANTS
  Runs = {r1, r2, r3}
  Operators = {o1}
  None = None
  Overlapping = TRUE
CHECK_DEADLOCK FALSE
INVARIANTS
  TypeOK
  AtMostOnePost
  ProofIsLive
  PublishedIffProved
  LivePostIsRecorded
  CancelledIsNeverSent
PROPERTIES
  PublishedIsFinal
