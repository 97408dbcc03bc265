SPECIFICATION Spec
CONSTANTS
  Requests = {r1, r2, r3}
  MaxConcurrent = 2
  Failures = {"conversion", "panic"}
  Rejections = {"TooLarge", "BadQuery"}
  NoRequest = NoRequest
SYMMETRY Symmetry
INVARIANTS TypeOK PermitAccounting TimedOutWorkRetained SupervisedDrainedBeforeExit
PROPERTIES BusyOnlyBehindOrphan ImplementsService
CHECK_DEADLOCK FALSE
