SPECIFICATION Spec
CONSTANTS
  Kind = {k1}
  Filter = {{k1}}
  Order = {"asc"}
  Limit = {1, 2}
  Puller = {p}
  Exporter = {}
  None = None
  KeepsCursor = FALSE
  MaxXact = 3
  MaxSeq = 3
INVARIANT ServedOnce
