CONSTANTS
  Core = {c1, c2}
  Peer = {p1, p2, p3}
  NoPeer = NoPeer
  cs_dwMinimumRange = 3
  cs_dwMinimumRemainCount = 1
  SlotCount = 6
  AwardMin = 6
  AwardMax = 9
  MaxSaved = 1
SPECIFICATION AttachedSpec
SYMMETRY Symmetry
INVARIANTS TypeOK LeaseAgreement ExclusiveMint NoCollision
