\* Two boots over a card with room for one or two of them, files of
\* two or three blocks, every failure, and a power loss anywhere.
CONSTANTS
  NumDirs = 2
  BlockSizes = {1, 2}
  MaxFileSize = 3
  MaxBlocks = 4
  MaxBoots = 2
  Fault = {"stat", "mkdir", "creat", "write", "fsync"}
SPECIFICATION Spec
INVARIANTS
  TypeOK
  Durable
  FileSizeBounded
PROPERTIES
  AppendOnly
  ImplementsCardLog
\* the writer stops when it has failed, or at the bounds
CHECK_DEADLOCK FALSE
