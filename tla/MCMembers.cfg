SPECIFICATION BothSpec
CONSTANTS
  Account = {1, 2, 3}
  Email = {e1, e2}
  Invite = {i1, i2}
  Request = {r1, r2}
  e1 = e1
  e2 = e2
  None = None
  Recovery = TRUE
  total = total
  Work = {w1, w2}
  Absent = Absent
  PromQuery = {total}
  RangeQuery = {total}
  Key = {routeA, routeB}
  QueriesOf <- OneQuery
  Ttl <- TwoTicks
  CacheTtl = 1
  StaleMax = 2
  RangeSettle = 2
  RangeReuseMax = 2
  End = 0
  GridStep = 3
  Timeout = 1
  MaxRemembered = 1
  MaxNow = 4
  RetryAfter = 1
  MaxEntries = 1
SYMMETRY Symmetry
INVARIANTS
  TypeOK AlwaysManaged SetUpOnce RemovalEndsInvitations MutationsQueue
  RunOwnsItsEntry KeptIsSound GoodBeforeBad
PROPERTIES
  OnlyAdminsAct DeadInvitationsStayDead
  CapHolds
CHECK_DEADLOCK FALSE
