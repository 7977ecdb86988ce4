\* A process and its child.
SPECIFICATION Spec
CONSTANTS
  Proc = {p1, p2}
  First = p1
INVARIANT FreshProcessGetsItsStack
CHECK_DEADLOCK FALSE
