SPECIFICATION Spec
CONSTANTS
  U32Max = 5
  Byte = {1, 2}
  Hash <- MCHash
  Utf8 <- MCUtf8
  Files <- AllFiles
  Probe <- MCProbe
  MAGIC <- MCMagic
  NotGiven = NotGiven
  Texts <- MCTexts
  Records <- MCRecords
  Invocations <- MagicInvocations
INVARIANT AcceptsEitherForm
CHECK_DEADLOCK FALSE
