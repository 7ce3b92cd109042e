SPECIFICATION BothSpec
CONSTANTS
  Kind = {k1, k2}
  Filter = {{k1}, {k1, k2}}
  Order = {"asc", "desc"}
  Limit = {1}
  Puller = {p}
  Exporter = {e}
  None = None
  KeepsCursor = TRUE
  MaxXact = 2
  MaxSeq = 3
  end = end
  err = err
  Guid = {1, 2}
  Finder = {end, err}
  EndFinder = end
  Rest = Rest
  LimitOf <- Limits
  Cap = 1
  Window = 6
  Late = 2
  HeadFresh = 4
  FollowBefore = 2
  FollowAfter = 3
  MinSpan = 2
  MaxLines = 3
  MaxLogTime = 8
INVARIANTS TypeOK ServedOnce NothingBehind ExportComplete ListAsWhole PagesSkipNothing
PROPERTY FeedPromise
