SPECIFICATION Spec
CONSTANTS
  Pids = {p1, p2}
  SUP = SUP
  PID1 = PID1
  NoPid = NoPid
  MaxBirth = 2
  Outsiders = FALSE
  HasTimeout = TRUE
  Timeout = 1
  Grace = 1
  FinalReap = 1
  Interrupts = {2}
  Faults = {"fork", "pipe"}
SYMMETRY Symmetry
INVARIANTS
  EarlyInterruptIsHonoured
