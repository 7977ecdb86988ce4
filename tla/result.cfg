SPECIFICATION Spec
CONSTANTS Char = {"a"}
PROPERTY ResultReachesUser
CHECK_DEADLOCK FALSE
