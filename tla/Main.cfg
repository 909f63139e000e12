SPECIFICATION Spec
CONSTANTS
  MaxCalls = 1
  Peek = 2
  MaxHead = 3
CHECK_DEADLOCK FALSE
INVARIANT CleanExit
PROPERTY ReadsNeedClient
