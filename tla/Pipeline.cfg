\* Two coroutines submit through one pipeline and wait for their results.
SPECIFICATION Spec
CONSTANTS
  t1 = t1
  t2 = t2
  Task = {t1, t2}
  Batches <- TwoBatches
  MaxSerial = 3
  MaxPackets = 2
  MaxInquiry = 2
  MinWait = 2
  PollInterval = 1
  Timeout = 3
INVARIANTS
  TypeOK
  OwnResults
  OnlyWholeChunksGoOut
  DistinctTaxIds
  HandsBackAllItHeard
  GivesUpAtDeadline
\* Every task makes its two calls and stops.
CHECK_DEADLOCK FALSE
