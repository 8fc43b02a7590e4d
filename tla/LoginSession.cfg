CONSTANTS
  c1 = c1
  c2 = c2
  d1 = d1
  d2 = d2
  d3 = d3
  Core = {c1, c2}
  Desc = {d1, d2, d3}
  CoreOf <- TwoCores
  MaxKey = 2
  Faulty = {c1}
  Obj = {1, 2, 3, 4, 5}
  None = None
  MaxAsk = 1
  MaxOpen = 2
  MaxLoad = 4
  Early = {d2}
  MaxFaults = 1
SPECIFICATION FairSpec
INVARIANTS TypeOK OneSession NoDangling LogonHasPeer
PROPERTIES LogonFreed KickedOut
