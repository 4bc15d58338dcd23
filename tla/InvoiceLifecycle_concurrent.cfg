\* Two overlapping requests on two workers, lost answers and crashes.
SPECIFICATION Spec
CONSTANTS
  w1 = w1
  w2 = w2
  r1 = r1
  r2 = r2
  Request = {r1, r2}
  Worker = {w1, w2}
  WorkerOf <- TwoWorkers
  MaxId = 2
  MaxSerial = 2
  Invoice <- EnteredFew
  MayInquireOne = TRUE
  MayLose = TRUE
  MayCrash = TRUE
SYMMETRY Mirror
INVARIANTS
  TypeOK
  TaxIdOnOneRecord
  VerdictsComeFromOrg
  RecordTellsFiling
  CancelledHasCause
PROPERTIES
  DiscardedStaysGone
\* The bounds MaxId and MaxSerial let a behaviour end.
CHECK_DEADLOCK FALSE
