\* Two threads of one worker share a counter object, a second worker has its own;
\* crashes, I/O errors, power failures, and a file overwritten from outside.
SPECIFICATION FairSpec
CONSTANTS
  a = a
  b = b
  c = c
  o1 = o1
  o2 = o2
  p1 = p1
  p2 = p2
  NoCaller = NoCaller
  Caller = {a, b, c}
  Counter = {o1, o2}
  Process = {p1, p2}
  CounterOf <- SharedCounterOf
  ProcessOf <- TwoProcesses
  HasFlock = TRUE
  MaxSerial = 2
  MayCorrupt = TRUE
INVARIANTS
  TypeOK
  IssuedOnce
  DurableBeforeReturned
  LaterCallsGetLargerSerials
  CurrentIsNotBehind
PROPERTIES
  Implements
  WritesLeaveNoGarbage
  FlockIsReleased
