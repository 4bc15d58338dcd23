\* One inquiry answers for a voiding invoice and for the invoice it voids.
SPECIFICATION Spec
CONSTANTS
  w1 = w1
  w2 = w2
  r1 = r1
  r2 = r2
  Request = {r1}
  Worker = {w1}
  WorkerOf <- OneWorker
  MaxId = 2
  MaxSerial = 2
  Invoice <- EnteredFew
  MayInquireOne = FALSE
  MayLose = FALSE
  MayCrash = FALSE
PROPERTIES
  VoidStaysVoid
\* The bounds MaxId and MaxSerial let a behaviour end.
CHECK_DEADLOCK FALSE
