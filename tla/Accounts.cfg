\* Two threads, two administrators, a restart.
SPECIFICATION Spec
CONSTANTS
  r1 = r1
  r2 = r2
  Request = {r1, r2}
  None = None
  Seed <- SeedRow
  Other <- OtherRow
  NewName <- Names
  Login <- Logins
  Patch <- Patches
  MaxId = 4
  MaxRequests = 3
  MaxStarts = 2
SYMMETRY Mirror
INVARIANTS
  TypeOK
  RevokedStaysOut
  AdminRemains
  OldPasswordIsOut
\* The bound on requests lets a behaviour end.
CHECK_DEADLOCK FALSE
