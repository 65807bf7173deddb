SPECIFICATION Spec
CONSTANTS
  Pids = {p1, p2}
  SUP = SUP
  PID1 = PID1
  NoPid = NoPid
  MaxBirth = 3
  Outsiders = FALSE
  HasTimeout = TRUE
  Timeout = 1
  Grace = 1
  FinalReap = 1
  Interrupts = {2, 15}
  Faults = {"setup", "pipe", "fork", "exec", "setpgid", "read", "waitpid", "clock", "calloc", "opendir", "limit", "stat", "kill", "poll"}
SYMMETRY Symmetry
INVARIANTS
  TypeOK
  DirectStatusIsGenuine
PROPERTIES
  ImplementsLifecycle
