SPECIFICATION Spec
CONSTANTS
  Paths <- AllPaths
  Cells = 2
  Tolerance = 8
  MaxDepth = 2
  MaxPoints = 5
  MaxEdges = 8
  MaxWork = 40
INVARIANTS TypeOK CurveFollowed FillsApart FigureExact
CHECK_DEADLOCK FALSE
