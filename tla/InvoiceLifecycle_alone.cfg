\* One operator, one request at a time, every answer arrives.
SPECIFICATION Spec
CONSTANTS
  w1 = w1
  w2 = w2
  r1 = r1
  r2 = r2
  Request = {r1}
  Worker = {w1}
  WorkerOf <- OneWorker
  MaxId = 3
  MaxSerial = 3
  Invoice <- Entered
  MayInquireOne = TRUE
  MayLose = FALSE
  MayCrash = FALSE
INVARIANTS
  FiledOnce
PROPERTIES
  KeepsBook
\* The bounds MaxId and MaxSerial let a behaviour end.
CHECK_DEADLOCK FALSE
