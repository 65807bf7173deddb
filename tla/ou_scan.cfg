SPECIFICATION Spec
CONSTANTS
  Fds = {0, 1, 2}
  Inodes = {i1, i2}
  NoFile = NoFile
  Cap = 2
  Faults = {"open", "dup", "memory", "fdopendir", "readdir", "entry", "closedir", "stat", "readlink", "length", "range", "write", "close"}
SYMMETRY Symmetry
INVARIANTS
  TypeOK
  ClosedOnce
  HeldFilesAreReported
  SilenceIsHonest
PROPERTIES
  ImplementsFdAudit
