SPECIFICATION Spec
CONSTANTS
  Documents <- UnanchoredDocuments
  Profiles <- AllProfiles
  Limits <- RoomyLimits
  MaxGroupIds = 64
  NoPicture = NoPicture
INVARIANT GeneratedDocumentValid
CHECK_DEADLOCK FALSE
