SPECIFICATION Spec
CONSTANTS
  Documents <- TextDocuments
  Profiles <- AllProfiles
  Limits <- RoomyLimits
  MaxGroupIds = 64
  NoPicture = NoPicture
INVARIANT PaintKept
CHECK_DEADLOCK FALSE
