SPECIFICATION FairSpec
CONSTANTS
  Callers = {c1, c2}
  Orders = {o1}
  MaxTokens = 2
  MaxPolls = 1
  MaxCalls = 2
PROPERTY AuthErrorIsPersistent
CHECK_DEADLOCK FALSE
