SPECIFICATION LiveSpec
CONSTANTS
  Account = {1, 2, 3}
  Email = {e1, e2}
  Invite = {i1}
  Request = {r1, r2}
  e1 = e1
  e2 = e2
  None = None
  Absent = Absent
  Recovery = TRUE
  Kind = {k1}
  Filter = {{k1}}
  Order = {"asc"}
  Limit = {1, 2}
  Puller = {p}
  Exporter = {}
  KeepsCursor = TRUE
  MaxXact = 3
  MaxSeq = 3
  total = total
  Work = {w1, w2}
  PromQuery = {total}
  RangeQuery = {total}
  Key = {routeA, routeB}
  QueriesOf <- OneQuery
  Ttl <- OneTtl
  CacheTtl = 1
  StaleMax = 2
  RangeSettle = 2
  RangeReuseMax = 2
  End = 0
  GridStep = 3
  Timeout = 1
  MaxRemembered = 1
  MaxNow = 1
  RetryAfter = 1
  MaxEntries = 1
PROPERTIES
  CallersAnswered
  RequestsEnd
  EveryRowArrives
CHECK_DEADLOCK FALSE
