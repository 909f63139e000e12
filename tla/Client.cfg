SPECIFICATION ClientSpec
CONSTANT MaxCalls = 5
CHECK_DEADLOCK FALSE
INVARIANTS
  UsableClient
  PointersAreTrue
  LeaksAreFailures
