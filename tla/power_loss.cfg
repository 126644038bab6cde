SPECIFICATION PowerSpec
CONSTANTS
  b1 = b1
  b2 = b2
  kvbin = kvbin
  n1 = n1
  n2 = n2
  Builds = {b1, b2}
  Checks = {c1}
  Readers = {}
  Outs = {kvbin}
  Names = {n1, n2}
  OutOf <- TwoOutOf
  Candidates <- TwoCandidates
  Data = {dA, dBad}
  ValidData = {dA}
  Chunks = 2
  MaxAttempts = 1
  RemoveMayFail = FALSE
  Bystander = Bystander
  Previous = Previous
  OldData = dA
  Foreign = Foreign
  Hole = Hole
  None = None
INVARIANT NeverLoadsHalfWritten
CHECK_DEADLOCK FALSE
