SPECIFICATION Spec
CONSTANTS
  Requests = {r1, r2}
  Settings <- InOrder
  BUCKETS <- MCBuckets
  Latencies = {2, 3}
  BodyLen <- MCBodyLen
SYMMETRY Symmetry
INVARIANT MissesIncludeDefaults
CHECK_DEADLOCK FALSE
