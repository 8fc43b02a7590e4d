CONSTANTS
  Owner = {o}
  Vnum = {1, 2, 3}
  Price = {1}
  PriceListMax = 2
  NoList = NoList
  Updates <- OneKind
  Query <- PriceQuery
  Returning <- PriceQuery
  Reply <- Answers
  SemMax = 2
  MaxPending = 2
  MaxFailures = 1
SPECIFICATION FairSpec
INVARIANTS TypeOK NoLostWakeUp BatchCovers DrainedAtEnd RowsFit
PROPERTIES ImplementsQueue LeftOversServed QuitReturns ListsKept
CHECK_DEADLOCK FALSE
