SPECIFICATION FairSpec
CONSTANTS
  U32Max = 5
  Byte = {1, 2}
  Hash <- MCHash
  Utf8 <- MCUtf8
  Files <- AllFiles
  Probe <- MCProbe
  MAGIC <- MCMagic
  NotGiven = NotGiven
  Texts <- MCTexts
  Records <- MCRecords
  Invocations <- MCInvocations
INVARIANTS LoaderTypeOK Packed NoDuplicateKeys ReportIsExact StoreServesTheFile
INVARIANTS FormatEquivalence AcceptedMeansUnderstood
PROPERTY BuildableIsLoadable
CHECK_DEADLOCK FALSE
