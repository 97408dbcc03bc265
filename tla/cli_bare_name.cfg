SPECIFICATION Spec
CONSTANTS
  First = First
  Second = Second
  Processes = {First, Second}
  Stdio = Stdio
  NoReport = NoReport
  Nobody = Nobody
  Commands <- CommandLines
  Directories <- Spellings
  Links <- AliasLink
  Originals <- InputOnly
CHECK_DEADLOCK FALSE
PROPERTY
  NewFileAccepted
