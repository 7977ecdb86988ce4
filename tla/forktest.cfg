\* test_processes with room for one child.
SPECIFICATION TestSpec
CONSTANTS
  MAX_PROCESSES = 2
  MAX_KALLOC = 0
  MAX_MESSAGES = 1
  Msg = {}
  NoMsg = NoMsg
  Status = {42}
INVARIANT OnlyTheChildExits42
CHECK_DEADLOCK FALSE
