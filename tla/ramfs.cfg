\* Two slots of two bytes, three handles, two descriptors, two names.
SPECIFICATION Spec
CONSTANTS
  MAX_FILES = 2
  MAX_CONTENT = 2
  MAX_FD = 2
  MAX_KALLOC = 3
  Path = {a, b}
  NoPath = NoPath
INVARIANTS TypeOK NoLeftovers HandlesInFile
PROPERTIES DescriptorsAreNotReused FilesKeepTheirSlot FailureIsClean
