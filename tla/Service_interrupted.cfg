\* One worker that may die while it upgrades.
SPECIFICATION Spec
CONSTANTS
  Request = {r1}
  Absent = Absent
  Garbage = Garbage
  Name = {a}
  Value = {v}
  Passphrase = {p}
  MaxAsked = 1
  Worker = {w1}
  Nobody = Nobody
  OldRows <- TwoProfiles
  NewKey = {"k3"}
  MaxRow = 4
  Alien = Alien
  NoPath = NoPath
  NoFile = NoFile
  Export <- Exports
  MaxParts = 1
  MaxImports = 1
  MaxEntry = 3
  SerialWidth = 3
  Memory = {}
  Day = {19506}
  MaxDrawn = 1
  Unset = Unset
  Pattern = {1, 2, 3, 6, 7}
  Entries = {}
  Terms <- Settled
  MaxLines = 2
  Blank = Blank
  Matrix <- Table1
  Allowed <- Values
  KnownUnit = KnownUnit
  Invoice = {}
INVARIANTS
  InterruptedUpgradeKeepsRows
CHECK_DEADLOCK FALSE
