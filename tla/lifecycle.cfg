\* Fork, wait and both exits: two table slots, one heap process, no messages;
\* the scheduler runs and programs end.
SPECIFICATION FairSpec
CONSTANTS
  MAX_PROCESSES = 2
  MAX_KALLOC = 1
  MAX_MESSAGES = 1
  Msg = {}
  NoMsg = NoMsg
  Status = {42}
INVARIANTS TypeOK ListComplete ProcessInv OneRunning NoLostWakeup WaitSucceeds HangHasCause
PROPERTIES ZombieIsFinal ReadyRuns
\* The kernel may stop: it hangs in schedule() when no process is READY.
CHECK_DEADLOCK FALSE
