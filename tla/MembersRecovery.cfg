SPECIFICATION FairSpec
CONSTANTS
  Account = {1, 2, 3}
  Email = {e1, e2}
  Invite = {i1}
  Request = {r1, r2}
  None = None
  Recovery = TRUE
PROPERTY RemovedForGood
CHECK_DEADLOCK FALSE
