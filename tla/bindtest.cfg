\* process1 of process_test.c.
SPECIFICATION TestSpec
CONSTANTS
  Token = {"/", "tmp", "data", "private", "inner", "missing", "x", "f", "test.txt"}
  Source <- MCSource
  Target <- MCTarget
  Query <- MCQuery
  AbyssPaths <- MCAbyssPaths
  HEAP = 14
INVARIANT AccessThroughNamespace
CHECK_DEADLOCK FALSE
