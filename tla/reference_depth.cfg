SPECIFICATION FairSpec
CONSTANTS
  Documents <- SmallDocuments
  Ids <- AllIds
  NoId = 0
  MaxDepth = 2
INVARIANTS TypeOK AcceptedIsRanked VerdictExact
PROPERTY SearchEnds
CHECK_DEADLOCK FALSE
