CONSTANTS
  Item = {i1}
  Player = {p1, p2}
  Data = {d1}
  NoRow = NoRow
  Loose = Loose
  Offline = Offline
  NoEntry = NoEntry
  NoSet = NoSet
  NoOwner = NoOwner
  Faults = {"flush_online"}
  MaxQuery = 3
SPECIFICATION Spec
SYMMETRY Symmetry
INVARIANTS SqlIsCurrent
