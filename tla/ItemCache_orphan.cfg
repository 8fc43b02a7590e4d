CONSTANTS
  Item = {i1}
  Player = {p1}
  Data = {d1}
  NoRow = NoRow
  Loose = Loose
  Offline = Offline
  NoEntry = NoEntry
  NoSet = NoSet
  NoOwner = NoOwner
  Faults = {"early_give"}
  MaxQuery = 3
SPECIFICATION Spec
INVARIANTS SetsComplete
