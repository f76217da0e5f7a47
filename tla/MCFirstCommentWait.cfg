SPECIFICATION FirstCommentFairSpec
CONSTANTS
  FirstIntents = {i1}
  FirstRuns = {w1}
  NoFirstRun = NoFirstRun
  MaxGrants = 1
  MaxFirstVersion = 7
CHECK_DEADLOCK FALSE
PROPERTY ApprovedIsQueued
