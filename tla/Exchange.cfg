CONSTANTS
  a = a
  b = b
  c = c
  one = one
  block = block
  two = two
  three = three
  Char = {a, b, c}
  Item = {one, block, two, three}
  Size <- Sizes
  Cols = 2
  Rows = 4
  Pages = 1
  Slots = 2
  GoldMax = 3
  IntMax = 4
  None = None
  Ground = Ground
  Gone = Gone
  FirstOwner <- Owners
  FirstCell <- Cells
  FirstGold <- Purses
  FirstFloor <- Floor
  MaxExchanges = 1
  MaxMeanwhile = 2
SPECIFICATION Spec
CHECK_DEADLOCK FALSE
INVARIANTS TypeOK Apart Blocked Paired
PROPERTIES AcceptedStands AllOrNothing NoGoldMade
