\* Two requests, two workers, imports of up to two files, two memories, forms of up to two lines.
SPECIFICATION Spec
CONSTANTS
  Request = {r1, r2}
  Absent = Absent
  Garbage = Garbage
  Name = {a, b}
  Value = {v, w}
  Passphrase = {p, q}
  MaxAsked = 3
  Worker = {w1, w2}
  Nobody = Nobody
  OldRows <- TwoProfiles
  NewKey = {"k1", "k3"}
  MaxRow = 4
  Alien = Alien
  NoPath = NoPath
  NoFile = NoFile
  Export <- Exports
  MaxParts = 2
  MaxImports = 3
  MaxEntry = 12
  SerialWidth = 3
  Memory <- Memories
  Day = {19506}
  MaxDrawn = 2
  Unset = Unset
  Pattern = {1, 2, 3, 6, 7}
  Entries <- Typed
  Terms <- Settled
  MaxLines = 2
  Blank = Blank
  Matrix <- Table1
  Allowed <- Values
  KnownUnit = KnownUnit
  Invoice <- Invoices
SYMMETRY Mirror
INVARIANTS
  TypeOK
  ProfilesAreKept
  PowerFailureLeavesWholeFile
  NothingIsLost
  AtMostOneDefault
  CatalogueIsWhole
  BothPathsAgree
  VerifyAgreesWithLoad
  NextSerialIsNew
  CheckDigitCatchesErrors
  CalculatedIsAccepted
  AcceptedIsComplete
\* The bounds on imports and requests let a behaviour end.
CHECK_DEADLOCK FALSE
