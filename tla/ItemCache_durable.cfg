CONSTANTS
  Item = {i1, i2}
  Player = {p1}
  Data = {d1}
  NoRow = NoRow
  Loose = Loose
  Offline = Offline
  NoEntry = NoEntry
  NoSet = NoSet
  NoOwner = NoOwner
  Faults = {}
  MaxQuery = 2
SPECIFICATION FairSpec
PROPERTIES ImplementsStore Durable
