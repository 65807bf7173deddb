SPECIFICATION Spec
CONSTANTS
  Pids = {p1, p2, p3}
  SUP = SUP
  PID1 = PID1
  NoPid = NoPid
  MaxBirth = 4
  Outsiders = TRUE
  HasTimeout = TRUE
  Timeout = 1
  Grace = 1
  FinalReap = 1
  Interrupts = {}
  Faults = {}
SYMMETRY Symmetry
INVARIANTS
  NothingLeftBehind
  SweepReachesRoot
  SweepComplete
  DirectStatusIsGenuine
PROPERTIES
  RevalidationSparesStrangers
