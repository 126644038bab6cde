SPECIFICATION Spec
CONSTANTS
  Bytes = {"k", "z", "=", "&", "+", " ", "/", "xff"}
  Utf8 <- MCUtf8
  Requests <- MCRequests
  Datasets <- MCDatasets
  Defaults <- MCDefaults
  NoValue = NoValue
  NoKey = NoKey
  NoQuery = NoQuery
INVARIANTS HttpTypeOK ReachesTheKeyMeant FindsTheFirstK AnswerMatchesMetrics
CHECK_DEADLOCK FALSE
