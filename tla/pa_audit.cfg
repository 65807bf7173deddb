SPECIFICATION Spec
CONSTANTS
  FieldLists <- MCFieldLists
  Length <- MCLength
  Absolute = {1, 2, 4}
  Outcomes <- MCOutcomes
  Commands = {1, 2}
  Paths = {11, 12, 13}
  Trust <- MCTrust
  Modes = {"path", "command", "roots"}
  Faults = {"memory", "readdir", "write"}
  MaxCount = 4
  MaxLength = 7
  MaxBytes = 11
  PathMax = 6
  Hash <- MCHash
  InitialCap = 2
  MaxCap = 2
INVARIANTS
  TypeOK
  SplitCoversPath
  IndexIsFaithful
  ShadowsAreExact
  FindingsAreExact
  RejectClosed
