\* Up to four bindings, or fewer and the listings that eat the heap.
SPECIFICATION Spec
CONSTANTS
  Token = {"/", "tmp", "data", "private", "inner", "missing", "x", "f"}
  Source <- MCSource
  Target <- MCTarget
  Query <- MCQuery
  AbyssPaths <- MCAbyssPaths
  HEAP = 14
INVARIANTS TypeOK
PROPERTIES StacksSpec ListsTheSource
