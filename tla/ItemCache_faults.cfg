CONSTANTS
  Item = {i1}
  Player = {p1, p2}
  Data = {d1}
  NoRow = NoRow
  Loose = Loose
  Offline = Offline
  NoEntry = NoEntry
  NoSet = NoSet
  NoOwner = NoOwner
  Faults = {"early_crash", "early_give", "select_twice", "flush_online", "slow_flush", "reorder"}
  MaxQuery = 2
SPECIFICATION Spec
SYMMETRY Symmetry
INVARIANTS SetsAgree
