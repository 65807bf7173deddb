----------------------------- MODULE Agentwatch -----------------------------
(***************************************************************************)
(* agentwatch (src/src/agentwatch.c): runs one command as a subreaper,     *)
(* reaps it and everything adopted from it, and, on a deadline, on an      *)
(* interruption or on a failure of its own, sends SIGTERM to the tree, and *)
(* SIGKILL one grace period later.                                         *)
(*                                                                         *)
(* One action per step of supervise() and signal_tree() between two system *)
(* calls whose results other processes can change.  Time is counted in     *)
(* ticks; clocks are kept as the time since an event, or the time left to  *)
(* a deadline, and saturate, so no run needs a bound on the time.          *)
(***************************************************************************)
EXTENDS ProcTree

CONSTANTS
  NoPid,        \* no process
  HasTimeout,   \* options.has_timeout
  Timeout,      \* options.timeout_ms, in ticks
  Grace,        \* options.grace_ms, in ticks
  FinalReap,    \* FINAL_REAP_MS, in ticks
  Interrupts,   \* numbers of the handled signals that may arrive
  Faults        \* system calls that may fail

FaultNames == {"setup", "pipe", "fork", "exec", "setpgid", "read", "waitpid",
               "clock", "calloc", "opendir", "limit", "stat", "kill", "poll"}

ASSUME AgentwatchAssumption ==
  /\ NoPid \notin Pids
  /\ HasTimeout \in BOOLEAN
  /\ Timeout \in Nat \ {0} /\ Grace \in Nat \ {0} /\ FinalReap \in Nat \ {0}
  /\ Interrupts \subseteq Nat \ {0}
  /\ Faults \subseteq FaultNames

VARIABLES
  pc,          \* where supervise() is
  root,        \* child, the pid fork() returned
  stage,       \* how far the direct child has come between fork and exec
  flags,       \* the local booleans that are true; they are never reset
  first_interrupt,
  direct_birth,\* start time of the process direct_status was taken from
  exit,        \* what supervise() returned
  elapsed,     \* ticks since start was read
  lag,         \* ticks since now was read, while signal_tree() runs
  left,        \* ticks left until cleanup_deadline
  signum, unread, items, targets, target,   \* signal_tree()'s locals
  rootBirth, sinceTerm, scanned   \* history, for the properties; scanned: the
               \* start times the next process had as the last scan began and ended

supervisor == <<pc, flags, direct_birth, exit>>
clocks == <<elapsed, lag, left, sinceTerm>>
sweep == <<signum, unread, items, targets, target, scanned>>
rootVars == <<root, rootBirth>>
vars == <<kernel, supervisor, clocks, sweep, rootVars, stage, first_interrupt>>

FlagNames == {"terminating", "armed", "killed", "direct_done", "no_children",
              "timed_out", "internal", "uncertain", "start_failed"}
Sweeping == {"open", "scan", "group", "next", "kill"}
Places == Sweeping \cup
  {"setup", "prepare", "fork", "setpgid", "handshake", "drain", "decide",
   "sleep", "finish", "done"}
Stages == {"none", "forked", "grouped", "command", "failed", "gone"}
Exits == {"none", "interrupted", "start_failed", "timed_out", "internal", "direct"}
Identity == [pid : Pids, ppid : Pids \cup {SUP, PID1}, birth : Nat]

Larger(a, b) == IF a > b THEN a ELSE b
Monus(a, b) == IF a > b THEN a - b ELSE 0   \* what is left of a once b passed
Horizon == Larger(Timeout, Larger(Grace, FinalReap))

Has(f) == f \in flags
Fails(call) == call \in Faults
Raise(new) == flags' = flags \cup new
Goto(place) == pc' = place

(* The direct child itself, as opposed to a later process with its number. *)
IsRoot(p) == p = root /\ proc[p].birth = rootBirth
PreExec == stage \in {"forked", "grouped"}

Init ==
  /\ ProcInit
  /\ pc = "setup" /\ root = NoPid /\ stage = "none" /\ flags = {}
  /\ first_interrupt = 0 /\ direct_birth = 0 /\ exit = "none"
  /\ elapsed = 0 /\ lag = 0 /\ left = 0
  /\ signum = "TERM" /\ unread = {} /\ items = {} /\ targets = {}
  /\ target = NoPid
  /\ rootBirth = 0 /\ sinceTerm = 0 /\ scanned = [from |-> 0, to |-> 0]

-----------------------------------------------------------------------------
(* supervise() up to the main loop. *)

Return(status) == pc' = "done" /\ exit' = status

(* install_handlers(): from here on an interruption is recorded. *)
Setup ==
  /\ pc = "setup"
  /\ \/ Goto("prepare") /\ UNCHANGED exit
     \/ Fails("setup") /\ Return("internal")
  /\ UNCHANGED <<kernel, flags, direct_birth, clocks, sweep, rootVars, stage,
                 first_interrupt>>

(* prctl, the pipe of the handshake, and the clock.  A failure returns at  *)
(* once; first_interrupt is not looked at.                                 *)
Prepare ==
  /\ pc = "prepare"
  /\ \/ Goto("fork") /\ UNCHANGED exit
     \/ Fails("setup") /\ Return("internal")
     \/ Fails("pipe") /\ Return("start_failed")
  /\ UNCHANGED <<kernel, flags, direct_birth, clocks, sweep, rootVars, stage,
                 first_interrupt>>

ForkChild ==
  /\ pc = "fork"
  /\ \E q \in Pids :
       /\ Spawn(q, SUP, SUP, TRUE)
       /\ root' = q /\ rootBirth' = nextBirth
  /\ stage' = "forked"
  /\ Goto("setpgid")
  /\ UNCHANGED <<flags, direct_birth, exit, clocks, sweep, first_interrupt>>

ForkFails ==
  /\ pc = "fork" /\ Fails("fork")
  /\ Return("start_failed")
  /\ UNCHANGED <<kernel, flags, direct_birth, clocks, sweep, rootVars, stage,
                 first_interrupt>>

(* The parent's setpgid(child, child): it takes effect while the child has *)
(* not executed the command; after that EACCES or ESRCH is accepted.       *)
ParentSetpgid ==
  /\ pc = "setpgid"
  /\ \/ /\ IF Live(root) /\ stage # "command"
           THEN proc' = Grouped(root) /\ UNCHANGED nextBirth
           ELSE UNCHANGED kernel
        /\ Goto("handshake") /\ UNCHANGED flags
     \/ /\ Fails("setpgid")
        /\ Raise({"start_failed"}) /\ Goto("drain")
        /\ UNCHANGED kernel
  /\ UNCHANGED <<direct_birth, exit, clocks, sweep, rootVars, stage,
                 first_interrupt>>

(* read() on the close-on-exec pipe blocks until the child executes the    *)
(* command, reports an errno, or is gone.                                  *)
Handshake ==
  /\ pc = "handshake" /\ ~PreExec
  /\ \/ stage = "failed" /\ Raise({"start_failed"})
     \/ stage # "failed" /\ UNCHANGED flags
     \/ Fails("read") /\ Raise({"start_failed"})
  /\ Goto("drain")
  /\ UNCHANGED <<kernel, direct_birth, exit, clocks, sweep, rootVars, stage,
                 first_interrupt>>

-----------------------------------------------------------------------------
(* The main loop. *)

(* The direct child's status is taken once, whatever gets its pid later.   *)
TakesStatus_Mutant(z) == z = root
TakesStatus(z) == z = root /\ ~Has("direct_done")

(* One waitpid(-1, WNOHANG) that returns a child; the loop stays in drain. *)
Reap(z) ==
  /\ pc = "drain"
  /\ proc[z].ppid = SUP /\ Collect(z)
  /\ IF TakesStatus(z)
     THEN Raise({"direct_done"}) /\ direct_birth' = proc[z].birth
     ELSE UNCHANGED <<flags, direct_birth>>
  /\ UNCHANGED <<pc, exit, clocks, sweep, rootVars, stage, first_interrupt>>

(* ECHILD, as opposed to "no child has exited yet". *)
NoChildLeft_Mutant ==
  Has("direct_done") /\ \A z \in ChildrenOf(SUP) : ~Zombie(z)
NoChildLeft == ChildrenOf(SUP) = {}

(* waitpid finds no zombie, no child at all (ECHILD), or fails. *)
DrainEnd ==
  /\ pc = "drain"
  /\ \/ /\ NoChildLeft
        /\ Raise({"no_children"}) /\ Goto("finish")
     \/ /\ ~NoChildLeft
        /\ \A z \in ChildrenOf(SUP) : ~Zombie(z)
        /\ Goto("decide") /\ UNCHANGED flags
     \/ /\ Fails("waitpid")
        /\ Raise({"internal"}) /\ Goto("decide")
  /\ UNCHANGED <<kernel, direct_birth, exit, clocks, sweep, rootVars, stage,
                 first_interrupt>>

(* The deadline: it counts only while nothing else has ended the run; on a *)
(* clock failure now is start, which is before every deadline.             *)
Late_Mutant(calm, noclock) == HasTimeout /\ ~noclock /\ elapsed >= Timeout
Late_Mutant2(calm, noclock) ==
  calm /\ HasTimeout /\ ~noclock /\ elapsed >= Timeout /\ ~Has("direct_done")
Late(calm, noclock) == calm /\ HasTimeout /\ ~noclock /\ elapsed >= Timeout

(* The flags after the checks that follow the clock: noclock means         *)
(* monotonic_ms failed, and now was set to start.                          *)
Checked(noclock) ==
  LET known == flags \cup (IF noclock THEN {"internal"} ELSE {})
      calm == "terminating" \notin known /\ first_interrupt = 0
      late == Late(calm, noclock)
      stop == \/ first_interrupt # 0 \/ late
              \/ known \cap {"start_failed", "internal"} # {}
  IN  known \cup (IF late THEN {"timed_out"} ELSE {})
            \cup (IF stop THEN {"terminating"} ELSE {})

(* now >= cleanup_deadline; start is before every cleanup_deadline. *)
Due_Mutant(noclock) == left <= 1 /\ ~noclock
Due_Mutant2(noclock) ==
  left = 0 /\ ~noclock /\ (Has("killed") => Has("direct_done"))
Due(noclock) == left = 0 /\ ~noclock

ClockReadings == IF Fails("clock") THEN BOOLEAN ELSE {FALSE}

StartTerm(noclock) ==
  /\ pc = "decide"
  /\ "terminating" \in Checked(noclock) /\ ~Has("armed")
  /\ flags' = Checked(noclock)
  /\ signum' = "TERM" /\ Goto("open")
  /\ lag' = IF noclock THEN elapsed ELSE 0
  /\ sinceTerm' = 0
  /\ UNCHANGED <<kernel, direct_birth, exit, elapsed, left, unread, items,
                 targets, target, scanned, rootVars, stage, first_interrupt>>

StartKill(noclock) ==
  /\ pc = "decide"
  /\ Has("armed") /\ ~Has("killed") /\ Due(noclock)
  /\ flags' = Checked(noclock)
  /\ signum' = "KILL" /\ Goto("open")
  /\ lag' = 0
  /\ UNCHANGED <<kernel, direct_birth, exit, elapsed, left, sinceTerm, unread,
                 items, targets, target, scanned, rootVars, stage,
                 first_interrupt>>

(* The reap ceiling: SIGKILL was sent FINAL_REAP_MS ago. *)
GiveUp(noclock) ==
  /\ pc = "decide"
  /\ Has("killed") /\ Due(noclock)
  /\ flags' = Checked(noclock) \cup {"internal"}
  /\ Goto("finish")
  /\ UNCHANGED <<kernel, direct_birth, exit, clocks, sweep, rootVars, stage,
                 first_interrupt>>

KeepWaiting(noclock) ==
  /\ pc = "decide"
  /\ "terminating" \in Checked(noclock) => Has("armed") /\ ~Due(noclock)
  /\ flags' = Checked(noclock)
  /\ Goto("sleep")
  /\ UNCHANGED <<kernel, direct_birth, exit, clocks, sweep, rootVars, stage,
                 first_interrupt>>

(* poll() for at most 20 ms, or nanosleep() for 1 ms. *)
Sleep ==
  /\ pc = "sleep"
  /\ \/ UNCHANGED flags
     \/ Fails("poll") /\ ~(Has("direct_done") /\ ~Has("terminating"))
        /\ Raise({"internal"})
  /\ Goto("drain")
  /\ UNCHANGED <<kernel, direct_birth, exit, clocks, sweep, rootVars, stage,
                 first_interrupt>>

(* The precedence of the exit statuses. *)
Status_Mutant ==
  IF Has("timed_out") THEN "timed_out"
  ELSE IF first_interrupt # 0 THEN "interrupted"
  ELSE IF Has("start_failed") THEN "start_failed"
  ELSE IF Has("internal") \/ (Has("uncertain") /\ ~Has("no_children")) THEN "internal"
  ELSE "direct"
Status ==
  IF first_interrupt # 0 THEN "interrupted"
  ELSE IF Has("start_failed") THEN "start_failed"
  ELSE IF Has("timed_out") THEN "timed_out"
  ELSE IF Has("internal") \/ (Has("uncertain") /\ ~Has("no_children")) THEN "internal"
  ELSE "direct"

Finish ==
  /\ pc = "finish"
  /\ Return(Status)
  /\ UNCHANGED <<kernel, flags, direct_birth, clocks, sweep, rootVars, stage,
                 first_interrupt>>

-----------------------------------------------------------------------------
(* signal_tree(child, signum). *)

(* What supervise() does with signal_tree()'s return. *)
Swept(new) ==
  /\ IF signum = "TERM"
     THEN Raise(new \cup {"armed"}) /\ left' = Monus(Grace, lag)
     ELSE Raise(new \cup {"killed"}) /\ left' = Monus(FinalReap, lag)
  /\ lag' = 0
  /\ Goto("sleep")
  /\ UNCHANGED <<elapsed, sinceTerm>>

(* calloc, then opendir("/proc"). *)
OpenProc ==
  /\ pc = "open"
  /\ \/ /\ unread' = Pids /\ scanned' = [from |-> nextBirth, to |-> nextBirth]
        /\ Goto("scan") /\ UNCHANGED <<flags, clocks>>
     \/ /\ Fails("opendir")
        /\ Raise({"uncertain"}) /\ Goto("group")
        /\ UNCHANGED <<unread, scanned, clocks>>
     \/ /\ Fails("calloc")
        /\ Swept({"uncertain", "internal"})
        /\ UNCHANGED <<unread, scanned>>
  /\ UNCHANGED <<kernel, direct_birth, exit, signum, items, targets, target,
                 rootVars, stage, first_interrupt>>

(* The three fields of /proc/PID/stat that are used. *)
StatOf(p) == [pid |-> p, ppid |-> proc[p].ppid, birth |-> proc[p].birth]

(* What read_identity() may return: 1 and the record, 0 for a process that *)
(* is gone, -1 for a record that cannot be had or is not well formed.      *)
ReadIdentity(p) ==
  (IF InUse(p) THEN {[status |-> 1, found |-> {StatOf(p)}]}
               ELSE {[status |-> 0, found |-> {}]})
    \cup (IF Fails("stat") THEN {[status |-> -1, found |-> {}]} ELSE {})

Doubt(r) == IF r.status = -1 THEN {"uncertain"} ELSE {}

(* scan_descendants(), one /proc entry at a time: the record of a process  *)
(* is kept, an unreadable one makes the scan uncertain, one that is gone   *)
(* is passed over.                                                         *)
ReadStat(p) ==
  /\ pc = "scan" /\ p \in unread
  /\ \E r \in ReadIdentity(p) : items' = items \cup r.found /\ Raise(Doubt(r))
  /\ unread' = unread \ {p}
  /\ UNCHANGED <<kernel, pc, direct_birth, exit, clocks, signum, targets, target,
                 scanned, rootVars, stage, first_interrupt>>

(* A set of items closed under "my parent is root, or is in the set". *)
Closed_Mutant(S) == \A i \in items : i.ppid = root => i \in S
Closed(S) ==
  \A i \in items :
    (i.ppid = root \/ \E j \in S : i.ppid = j.pid) => i \in S

(* What the connection loop marks: the least closed set. *)
Connected == {i \in items : \A S \in SUBSET items : Closed(S) => i \in S}

(* The directory is read, or a limit or an error of readdir ends it early. *)
ScanEnd ==
  /\ pc = "scan"
  /\ \/ unread = {} /\ UNCHANGED flags
     \/ Fails("limit") /\ Raise({"uncertain"})
  /\ unread' = {}
  /\ scanned' = [scanned EXCEPT !.to = nextBirth]
  /\ Goto("group")
  /\ UNCHANGED <<kernel, direct_birth, exit, clocks, signum, items, targets,
                 target, rootVars, stage, first_interrupt>>

(* The group signal is sent whatever the scan found. *)
GroupSignalled_Mutant == IF Connected = {} THEN GroupOf(root) ELSE {}
GroupSignalled == GroupOf(root)

(* The records end with the sweep: free(items), and calloc for the next.   *)
Freed_Mutant == items   \* one array for all sweeps, its count not reset
Freed == {}

(* kill(-root, signum); ESRCH is no error. *)
GroupKill ==
  /\ pc = "group"
  /\ \/ proc' = Signalled(GroupSignalled, signum) /\ UNCHANGED <<nextBirth, flags>>
     \/ Fails("kill") /\ Raise({"internal"}) /\ UNCHANGED kernel
  /\ targets' = {i \in Connected : i.pid # root}
  /\ items' = Freed
  /\ Goto("next")
  /\ UNCHANGED <<direct_birth, exit, clocks, signum, unread, target, scanned,
                 rootVars, stage, first_interrupt>>

SameProcess_Mutant(i, r) == r.status # -1
SameProcess(i, r) == \E now \in r.found : now.birth = i.birth

(* The second read_identity() of a target: it is signalled if it still has *)
(* the start time the scan saw.                                            *)
Revalidate(i) ==
  /\ pc = "next" /\ i \in targets
  /\ \E r \in ReadIdentity(i.pid) :
       /\ Raise(Doubt(r))
       /\ IF SameProcess(i, r) THEN target' = i.pid /\ Goto("kill")
                               ELSE UNCHANGED <<target, pc>>
  /\ targets' = targets \ {i}
  /\ UNCHANGED <<kernel, direct_birth, exit, clocks, signum, unread, items,
                 scanned, rootVars, stage, first_interrupt>>

(* kill(pid, signum): it hits whatever process has the number by now. *)
KillOne ==
  /\ pc = "kill"
  /\ \/ proc' = Signalled({target}, signum) /\ UNCHANGED <<nextBirth, flags>>
     \/ Fails("kill") /\ Raise({"internal"}) /\ UNCHANGED kernel
  /\ target' = NoPid
  /\ Goto("next")
  /\ UNCHANGED <<direct_birth, exit, clocks, signum, unread, items, targets,
                 scanned, rootVars, stage, first_interrupt>>

SweepEnd ==
  /\ pc = "next" /\ targets = {}
  /\ Swept({})
  /\ UNCHANGED <<kernel, direct_birth, exit, sweep, rootVars, stage,
                 first_interrupt>>

-----------------------------------------------------------------------------
(* The direct child before it is the command. *)

ChildSetpgid ==
  /\ stage = "forked" /\ Running(root)
  /\ \/ proc' = Grouped(root) /\ stage' = "grouped" /\ UNCHANGED nextBirth
     \/ Fails("setpgid") /\ stage' = "failed" /\ UNCHANGED kernel

(* execvp, which closes the pipe, or the errno written to it. *)
ChildExec ==
  /\ stage = "grouped" /\ Running(root)
  /\ stage' \in {"command"} \cup (IF Fails("exec") THEN {"failed"} ELSE {})
  /\ UNCHANGED kernel

(* A process exits, by itself or because of a signal. *)
Exit(p) ==
  /\ Perish(p)
  /\ stage' = IF IsRoot(p) /\ PreExec THEN "gone" ELSE stage

(* What a process does that is not the direct child before execvp. *)
Act(p) ==
  /\ Running(p) /\ proc[p].ours
  /\ IsRoot(p) => stage = "command"
  /\ \/ \E q \in Pids : Fork(p, q)
     \/ Setsid(p)
     \/ \E z \in Pids : WaitChild(p, z)
  /\ UNCHANGED stage

World ==
  /\ root # NoPid /\ pc # "done"
  /\ \/ ChildSetpgid
     \/ ChildExec
     \/ \E p \in Pids : Exit(p) \/ Act(p) \/ (OutsiderStart(p) /\ UNCHANGED stage)
  /\ UNCHANGED <<supervisor, clocks, sweep, rootVars, first_interrupt>>

(* wake_handler(): the first interruption is the one that is kept. *)
Interrupt(n) ==
  /\ pc \notin {"setup", "done"}
  /\ first_interrupt = 0
  /\ first_interrupt' = n
  /\ UNCHANGED <<kernel, supervisor, clocks, sweep, rootVars, stage>>

Tick ==
  /\ pc \notin {"setup", "done"}
  /\ elapsed' = IF elapsed < Horizon THEN elapsed + 1 ELSE elapsed
  /\ lag' = IF pc \in Sweeping /\ lag < Horizon THEN lag + 1 ELSE lag
  /\ left' = Monus(left, 1)
  /\ sinceTerm' = IF sinceTerm < Horizon THEN sinceTerm + 1 ELSE sinceTerm
  /\ clocks' # clocks
  /\ UNCHANGED <<kernel, supervisor, sweep, rootVars, stage, first_interrupt>>

Terminated == pc = "done" /\ UNCHANGED vars

Supervise ==
  \/ Setup \/ Prepare \/ ForkChild \/ ForkFails \/ ParentSetpgid \/ Handshake
  \/ \E z \in Pids : Reap(z)
  \/ DrainEnd
  \/ \E noclock \in ClockReadings :
       StartTerm(noclock) \/ StartKill(noclock) \/ GiveUp(noclock) \/ KeepWaiting(noclock)
  \/ Sleep \/ Finish
  \/ OpenProc \/ (\E p \in Pids : ReadStat(p)) \/ ScanEnd \/ GroupKill
  \/ (\E i \in targets : Revalidate(i)) \/ KillOne \/ SweepEnd

Next ==
  Supervise \/ World \/ (\E n \in Interrupts : Interrupt(n)) \/ Tick \/ Terminated

Spec == Init /\ [][Next]_vars
-----------------------------------------------------------------------------
(* Fairness.  The supervisor is one runnable thread that never waits       *)
(* without a bound except in the handshake's read(), which is disabled     *)
(* until the child moves on; and time passes.  Nothing is assumed of the   *)
(* command, of other processes or of the user.                             *)
Fairness == WF_vars(Supervise) /\ WF_vars(Tick)

FairSpec == Spec /\ Fairness

(* As above, and the kernel finishes the direct child's setpgid and execvp. *)
FairExecSpec == FairSpec /\ WF_vars(World /\ stage' # stage)

-----------------------------------------------------------------------------
(* Properties. *)

Types ==
  /\ ProcTypeOK
  /\ pc \in Places /\ root \in Pids \cup {NoPid} /\ stage \in Stages
  /\ flags \subseteq FlagNames
  /\ first_interrupt \in {0} \cup Interrupts
  /\ direct_birth \in Nat /\ exit \in Exits
  /\ elapsed \in 0..Horizon /\ lag \in 0..Horizon /\ left \in 0..Horizon
  /\ signum \in Signals /\ unread \subseteq Pids
  /\ items \subseteq Identity /\ targets \subseteq Identity
  /\ target \in Pids \cup {NoPid}
  /\ rootBirth \in Nat /\ sinceTerm \in 0..Horizon /\ scanned \in [from : Nat, to : Nat]

(* A scan has one record of a number, so that what is connected, and the   *)
(* start time that the second look compares, are those of one process.     *)
RecordedOnce == \A i, j \in items : i.pid = j.pid => i = j

(* The types, with what the array of signal_tree() may hold.               *)
TypeOK == Types /\ RecordedOnce

(* ECHILD is taken as the end of the whole command (l.661): when it was    *)
(* seen, no process descending from the command is left, however often it  *)
(* forked, detached, was orphaned or was reaped by somebody else.          *)
NothingLeftBehind ==
  Has("no_children") => \A p \in Pids : InUse(p) => ~proc[p].ours

(* The command's own status is returned only for a run in which the direct *)
(* child itself was reaped, not a descendant that later got its number,    *)
(* nothing was ever signalled and nothing is left.                         *)
DirectStatusIsGenuine ==
  exit = "direct" =>
    /\ Has("direct_done") /\ direct_birth = rootBirth
    /\ flags \cap {"terminating", "uncertain"} = {}
    /\ Has("no_children")

(* SIGKILL is not on its way before the tree was sent SIGTERM and had the  *)
(* whole grace interval, counted from the decision to terminate.           *)
KillOnlyAfterGrace ==
  (pc \in Sweeping /\ signum = "KILL") \/ Has("killed") =>
    Has("armed") /\ sinceTerm >= Grace

(* Every sweep reaches the direct child if it is still alive: whichever of *)
(* the two setpgid calls came first, its group exists by then.             *)
SweepReachesRoot ==
  \A p \in Pids :
    IsRoot(p) /\ Live(p) =>
      /\ Has("armed") => "TERM" \in proc[p].got
      /\ Has("killed") => "KILL" \in proc[p].got

(* Whoever is now linked to the direct child by a chain of living parents  *)
(* was linked to it through the whole scan.                                *)
Attached(p) ==
  \A S \in SUBSET Pids :
    (p \in S /\ \A q \in S : proc[q].ppid \in Pids => proc[q].ppid \in S)
      => \E q \in S : IsRoot(q) /\ Live(q)

SweepOver == pc = "next" /\ targets = {}

(* No process that was there when the scan began, and whose chain of       *)
(* parents up to the direct child never broke, is missed by the sweep,     *)
(* whatever group it moved to and whatever its siblings did meanwhile.     *)
SweepComplete ==
  SweepOver => \A p \in Pids :
    Live(p) /\ proc[p].ours /\ proc[p].birth < scanned.from /\ Attached(p)
      => signum \in proc[p].got

(* A number is signalled on its own only if it names a descendant at the   *)
(* moment of the second look, even if it was freed and handed out again    *)
(* since the scan; provided no process was created during the scan itself  *)
(* and the direct child still held its number.                             *)
RevalidationSparesStrangers ==
  [][pc = "next" /\ pc' = "kill" /\ scanned.from = scanned.to /\ ~Has("direct_done")
       => proc[target'].ours]_vars

(* Termination, once begun, ends: the supervisor returns. *)
CleanupIsBounded == Has("terminating") ~> pc = "done"

(* An interruption recorded once there is a child, and before the start    *)
(* has failed, decides the status, whatever else ends the run before or    *)
(* after it: it "takes precedence over timeout" and, when "already         *)
(* recorded", over a start failure (contract:27).  The code departs from   *)
(* that line for an earlier one (EarlyInterruptIsHonoured, below), and for *)
(* one that finds the start failed: it replaces the status 127, which it   *)
(* should not.                                                             *)
InterruptIsHonoured ==
  first_interrupt # 0 /\ root # NoPid /\ ~Has("start_failed") /\ pc # "done"
    ~> exit = "interrupted"

(* A deadline that expires ends the supervision: "command-start            *)
(* handshaking remains subject to that deadline" (docs/agentwatch-first-   *)
(* slice-contract.md:17).  It does only as far as execvp gets done: it is  *)
(* checked under FairExecSpec.                                             *)
DeadlineIsHonoured ==
  HasTimeout /\ elapsed >= Timeout ~> Has("terminating") \/ pc = "done"

-----------------------------------------------------------------------------
(* What the contract says and the code does not do; refuted by runs.       *)

(* SIGTERM goes "to that group and to every separately identified live     *)
(* descendant" (contract:19), and scans "cover descendants that change     *)
(* process group" (contract:11).                                           *)
SweepCoversDescendants ==
  SweepOver => \A p \in Pids :
    Live(p) /\ proc[p].ours /\ proc[p].birth < scanned.from => signum \in proc[p].got

(* "Command-start failure takes precedence ..., except an interruption      *)
(* already recorded" (contract:27): also one recorded before there was a   *)
(* child, when pipe2 or fork fails next.                                   *)
EarlyInterruptIsHonoured ==
  exit # "none" /\ root = NoPid => first_interrupt = 0 \/ exit = "interrupted"

-----------------------------------------------------------------------------
(* Agentwatch implements Lifecycle. *)

Phase ==
  IF pc = "done" THEN "done"
  ELSE IF pc \in {"setup", "prepare", "fork"} THEN "start"
  ELSE IF ~Has("terminating") THEN "run"
  ELSE IF Has("killed") \/ (pc \in Sweeping /\ signum = "KILL") THEN "kill"
  ELSE "term"

AllCauses == {"start_failed", "timed_out", "internal"}

L == INSTANCE Lifecycle WITH
       Causes <- AllCauses, phase <- Phase, causes <- flags \cap AllCauses,
       interrupted <- first_interrupt # 0, status <- exit

(* Every run of the supervisor is one Lifecycle allows. *)
ImplementsLifecycle == L!LSpec
=============================================================================
