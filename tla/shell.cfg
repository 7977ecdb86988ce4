\* Two slots of four bytes, two inodes and one block to give out, six handles, five descriptors.
SPECIFICATION Spec
CONSTANTS
  MAX_FILES = 2
  MAX_CONTENT = 4
  MAX_COMMANDS = 3
  MAX_FD = 5
  MAX_KALLOC = 6
  NINODES = 4
  NBLOCKS = 1
  CHUNK = 2
  Token = {"/", "tmp", "x", "a", "b", ".", ".."}
  Operand <- MCOperand
  CdOperand <- MCCdOperand
  TestFile <- MCTestFile
  Texts <- MCTexts
INVARIANTS TypeOK CopyIsWhole ShellInv NoStaleHandle
PROPERTIES MvKeepsTheText OnlyTheTargetChanges CdResolves CreatedIsListed CommandsEnd
CHECK_DEADLOCK FALSE
