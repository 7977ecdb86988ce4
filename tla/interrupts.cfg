SPECIFICATION Spec
CONSTANTS Char = {"a"}
INVARIANT InterruptsHandled
CHECK_DEADLOCK FALSE
