SPECIFICATION FairSpec
CONSTANTS
  b1 = b1
  b2 = b2
  kvbin = kvbin
  n1 = n1
  n2 = n2
  Builds = {b1, b2}
  Checks = {}
  Readers = {r1}
  Outs = {kvbin}
  Names = {n1, n2}
  OutOf <- TwoOutOf
  Candidates <- TwoCandidates
  Data = {dA, dB, dBad}
  ValidData = {dA, dB}
  Chunks = 2
  MaxAttempts = 2
  RemoveMayFail = TRUE
  Bystander = Bystander
  Previous = Previous
  OldData = dA
  Foreign = Foreign
  Hole = Hole
  None = None
INVARIANTS TypeOK ScratchIsOwned OutputIsWhole LoadsWholeArtifact ExitCodeIsTruthful
PROPERTIES BystanderUntouched PublishedIsImmutable AbsSpec CommandsFinish
CHECK_DEADLOCK FALSE
