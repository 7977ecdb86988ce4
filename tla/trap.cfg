\* Boot, user program, ticks and system calls.
SPECIFICATION Spec
CONSTANTS Char = {"a"}
INVARIANTS TypeOK KernelStackKept
PROPERTIES ContextKept TrapIsAtomic
\* The CPU may stop in a wfe or branch-to-self loop.
CHECK_DEADLOCK FALSE
