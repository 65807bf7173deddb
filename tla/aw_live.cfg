SPECIFICATION FairExecSpec
CONSTANTS
  Pids = {p1, p2}
  SUP = SUP
  PID1 = PID1
  NoPid = NoPid
  MaxBirth = 2
  Outsiders = FALSE
  HasTimeout = TRUE
  Timeout = 1
  Grace = 2
  FinalReap = 1
  Interrupts = {2}
  Faults = {"pipe", "fork", "exec", "setpgid", "waitpid", "calloc", "opendir", "kill"}
INVARIANTS
  KillOnlyAfterGrace
PROPERTIES
  CleanupIsBounded
  InterruptIsHonoured
  DeadlineIsHonoured
