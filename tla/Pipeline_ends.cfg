\* The same with small batches, to see that every call ends.
SPECIFICATION FairSpec
CONSTANTS
  t1 = t1
  t2 = t2
  Task = {t1, t2}
  Batches <- Short
  MaxSerial = 1
  MaxPackets = 1
  MaxInquiry = 1
  MinWait = 1
  PollInterval = 1
  Timeout = 2
PROPERTIES
  EveryCallEnds
\* Every task makes its two calls and stops.
CHECK_DEADLOCK FALSE
