SPECIFICATION ReadSpec
CONSTANTS
  U32Max = 7
  Byte = {1, 2}
  Hash <- MCHash
  MAGIC <- MCMagic
  Inputs <- MCInputs
  Artifacts <- MCArtifacts
INVARIANTS ReadTypeOK NeverSlicesOutOfRange MatchesItsHeader RoundTrip RejectsCuts
CHECK_DEADLOCK FALSE
