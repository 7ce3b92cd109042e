SPECIFICATION LinksSpec
CONSTANTS
  UserRow = {u1, u2}
  Address = {m1, m2}
  Identity = {g1, g2}
  Caller = {c1, c2}
  NoOne = NoOne
INVARIANT RemovedHoldNothing
CHECK_DEADLOCK FALSE
