\* A draft is edited or deleted while it is being filed, and a refused submit saves its copy.
SPECIFICATION Spec
CONSTANTS
  w1 = w1
  w2 = w2
  r1 = r1
  r2 = r2
  Request = {r1, r2}
  Worker = {w1, w2}
  WorkerOf <- TwoWorkers
  MaxId = 1
  MaxSerial = 1
  Invoice <- Entered
  MayInquireOne = FALSE
  MayLose = FALSE
  MayCrash = FALSE
PROPERTIES
  OnlyDraftsAreRewritten
\* The bounds MaxId and MaxSerial let a behaviour end.
CHECK_DEADLOCK FALSE
