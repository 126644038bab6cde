SPECIFICATION Spec
CONSTANTS
  Requests = {r1, r2}
  Settings <- MCSettings
  BUCKETS <- MCBuckets
  Latencies = {2, 3}
  BodyLen <- MCBodyLen
SYMMETRY Symmetry
INVARIANTS TypeOK ExactWhenQuiet ScrapeIsBounded ScrapesNeverGoBack
CHECK_DEADLOCK FALSE
