SPECIFICATION Spec
CONSTANTS
  Minute = 4
  Shift = 2
  Lag = 8
  Lookback = 20
  BarStep = 16
  Ranges = {8, 32}
  ChartTimes <- WholeStep
  Attempt = {a1, a2, a3}
  MaxFailures = 1
  LockWindow = 1
  MaxLockTime = 3
  MaxWindows = 3
  any = any
  odd = odd
  Filters = {any, odd}
  AnyFilter = any
  Matches <- Rows
  PageSize = 1
  MaxRows = 4
  MaxLoads = 3
  panelA = panelA
  panelB = panelB
  panelC = panelC
  keyA = keyA
  keyB = keyB
  Panel = {panelA, panelB, panelC}
  Key = {keyA, keyB}
  KeyOf <- SharedKey
  SlowAfter = 2
  PauseAfter = 4
  MaxIdleTime = 9
  f1 = f1
  f2 = f2
  Form = {f1, f2}
  PodMax = 2
  PodWindow = 2
  Hour = 2
  MaxPosts = 3
  MaxReportTime = 2
  rest = rest
  grpc = grpc
  r1 = r1
  r2 = r2
  Iface = {rest, grpc}
  Instance = {r1, r2}
  MaxSamples = 3
  UserRow = {u1, u2}
  Address = {m1, m2}
  Identity = {g1, g2}
  Caller = {c1, c2}
  NoOne = NoOne
  call = call
  sub = sub
  foreign = foreign
  Command = {call, sub, foreign}
  Subscription = {sub}
  Foreign = {foreign}
  Sending = {s1, s2}
INVARIANTS
  TypesOK
  CountedOnce
  BudgetHolds
  ViewerTrue
  PillCatchesUp
  ReportsHold
  HealthIsWorst
  OnlyOwnersGetIn
  DrawerHolds
PROPERTIES
  ReturnRereads
CHECK_DEADLOCK FALSE
