SPECIFICATION Spec
CONSTANTS
  Configs <- MCConfigs
  Preexisting <- MCPreexisting
  Faults = {"read", "path", "open", "write", "pipe", "close", "unlink"}
  MaxRecord = 5
  MaxInput = 6
INVARIANTS
  TypeOK
  SplitIsTimely
PROPERTIES
  ForeignFilesAreKept
  ImplementsChunkStream
