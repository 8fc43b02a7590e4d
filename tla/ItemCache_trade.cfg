CONSTANTS
  Item = {i1}
  Player = {p1, p2}
  Data = {d1, d2}
  NoRow = NoRow
  Loose = Loose
  Offline = Offline
  NoEntry = NoEntry
  NoSet = NoSet
  NoOwner = NoOwner
  Faults = {}
  MaxQuery = 2
SPECIFICATION Spec
SYMMETRY Symmetry
INVARIANTS TypeOK SetsAgree SetsComplete SqlIsCurrent CleanIsWritten
PROPERTIES ImplementsStore
