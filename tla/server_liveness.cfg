SPECIFICATION LiveSpec
CONSTANTS
  Requests = {r1, r2, r3}
  MaxConcurrent = 1
  Failures = {}
  Rejections = {"TooLarge"}
  NoRequest = NoRequest
PROPERTIES EveryRequestAnswered SupervisorKeepsUp ShutdownCompletes
CHECK_DEADLOCK FALSE
