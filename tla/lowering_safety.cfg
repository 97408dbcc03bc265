SPECIFICATION Spec
CONSTANTS
  Documents <- SmallDocuments
  Profiles <- AllProfiles
  Limits <- SmallLimits
  MaxGroupIds = 64
  NoPicture = NoPicture
INVARIANTS TypeOK BudgetsExact PaintKept PaintedOnce GroupsFollowInstances GeneratedDocumentValid StrictMeansExact
PROPERTIES DecompositionAffordable
CHECK_DEADLOCK FALSE
