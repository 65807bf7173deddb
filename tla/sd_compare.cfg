SPECIFICATION Spec
CONSTANTS
  Keys = {1, 2, 3}
  Lines <- MCLines
  Faults = {"open", "read", "alloc", "close", "write"}
  MaxLine = 4
  MaxEntries = 2
  MaxBytes = 12
  MaxLines <- MCMaxLines
INVARIANTS
  TypeOK
  DiffIsExact
  LegalSnapshotsOnly
  LinesReadBack
