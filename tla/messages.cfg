\* The rings of two processes against the abstract mailboxes.
SPECIFICATION Spec
CONSTANTS
  MAX_PROCESSES = 2
  MAX_KALLOC = 0
  MAX_MESSAGES = 2
  Msg = {m1, m2}
  NoMsg = NoMsg
  Status = {0}
INVARIANTS BlockedMeansEmpty RingsSound
PROPERTIES MailboxSpec
CHECK_DEADLOCK FALSE
