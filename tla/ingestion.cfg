SPECIFICATION Spec
CONSTANTS
  Root = Root
  Inputs <- SmallInputs
  Resources <- SmallResources
  LegalPaths <- SafePaths
  Limits <- SmallLimits
  Buffer = 2
INVARIANTS
  TypeOK
  InflationBounded
  NestingBounded
  LoadedOnce
  ImagesResolved
  VerdictExact
  PaintCounted
CHECK_DEADLOCK FALSE
