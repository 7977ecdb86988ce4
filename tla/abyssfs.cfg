SPECIFICATION Spec
CONSTANTS
  NINODES = 5
  NDATA = 2
  BLOCK = 13
  REC = 6
  hello = hello
  sub = sub
  long = long
  Name = {hello, sub, long}
  Words <- MCWords
  Dot = Dot
  DotDot = DotDot
  TestFile = hello
  LISTED = 4
  MAX_HANDLES = 1
  Cwd <- MCCwd
  Zero = Zero
  Other = Other
INVARIANTS AbyssInv FreeCount BlocksHaveOneOwner EntriesAreFiles
PROPERTIES NewEntriesAreListed ListsSpec
CHECK_DEADLOCK FALSE
