SPECIFICATION LoaderSpec
CONSTANTS
  U32Max = 5
  Byte = {1, 2}
  Hash <- MCHash
  Utf8 <- MCUtf8
  Files <- MCFiles
  Probe <- MCProbe
INVARIANT ReportsEveryProblem
CHECK_DEADLOCK FALSE
