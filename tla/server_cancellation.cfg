SPECIFICATION Spec
CONSTANTS
  Requests = {r1, r2}
  MaxConcurrent = 1
  Failures = {}
  Rejections = {}
  NoRequest = NoRequest
INVARIANT TimedOutWorkIsCancelled
CHECK_DEADLOCK FALSE
