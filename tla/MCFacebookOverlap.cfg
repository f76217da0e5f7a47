SPECIFICATION FacebookSpec
CONSTANTS
  Runs = {r1, r2}
  Operators = {o1}
  None = None
  Overlapping = TRUE
CHECK_DEADLOCK FALSE
INVARIANT AtMostOnePost
