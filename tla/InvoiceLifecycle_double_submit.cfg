\* Two submits of one draft overlap.
SPECIFICATION Spec
CONSTANTS
  w1 = w1
  w2 = w2
  r1 = r1
  r2 = r2
  Request = {r1, r2}
  Worker = {w1}
  WorkerOf <- OneWorker
  MaxId = 2
  MaxSerial = 2
  Invoice <- EnteredFew
  MayInquireOne = FALSE
  MayLose = FALSE
  MayCrash = FALSE
INVARIANTS
  FiledOnce
\* The bounds MaxId and MaxSerial let a behaviour end.
CHECK_DEADLOCK FALSE
