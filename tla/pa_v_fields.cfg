SPECIFICATION Spec
CONSTANTS
  FieldLists <- MCFieldLists
  Length <- MCLength
  Absolute = {1, 2, 4}
  Outcomes <- MCOutcomes
  Commands = {1, 2}
  Paths = {11, 12, 13}
  Trust <- MCTrust
  Modes = {"path"}
  Faults = {}
  MaxCount = 4
  MaxLength = 7
  MaxBytes = 11
  PathMax = 6
  Hash <- MCHash
  InitialCap = 2
  MaxCap = 2
INVARIANT
  FieldsAreInspected
