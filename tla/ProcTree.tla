------------------------------ MODULE ProcTree ------------------------------
(***************************************************************************)
(* The part of the Linux process table agentwatch.c depends on: which      *)
(* process occupies a pid, its parent, its process group, its start time,  *)
(* whether it is a zombie, and what fork(2), exit(2), setsid(2), wait(2)   *)
(* and kill(2) do to them.  All of it is code outside the repository,      *)
(* modelled from the way src/src/agentwatch.c uses it.                     *)
(*                                                                         *)
(* SUP is agentwatch itself, a child subreaper (agentwatch.c:602); PID1 is *)
(* the reaper of everything else.  Pids are the numbers the kernel may     *)
(* hand out, and hand out again once they are free.                        *)
(***************************************************************************)
EXTENDS Integers

CONSTANTS
  Pids,       \* the pids of the modelled part of the table
  SUP,        \* the supervisor, agentwatch
  PID1,       \* the reaper of last resort
  MaxBirth,   \* bound: how many processes are ever created
  Outsiders   \* may processes unrelated to the command be created?

ASSUME ProcTreeAssumption ==
  /\ SUP # PID1 /\ SUP \notin Pids /\ PID1 \notin Pids
  /\ MaxBirth \in Nat
  /\ Outsiders \in BOOLEAN

VARIABLES
  proc,       \* the table: one entry for every pid
  nextBirth   \* the start time the next process gets

kernel == <<proc, nextBirth>>

Signals == {"TERM", "KILL"}

(* birth is field 22 of /proc/PID/stat; got the signals delivered to this  *)
(* incarnation; ours says (for the properties only) that the process       *)
(* descends from the command.                                              *)
Process ==
  [st : {"free", "live", "zombie"}, ppid : Pids \cup {SUP, PID1},
   pgid : Pids \cup {SUP}, birth : Nat, ours : BOOLEAN, got : SUBSET Signals]

Free == [st |-> "free", ppid |-> PID1, pgid |-> SUP, birth |-> 0,
         ours |-> FALSE, got |-> {}]

ProcTypeOK ==
  /\ proc \in [Pids -> Process]
  /\ nextBirth \in Nat \ {0}

ProcInit ==
  /\ proc = [p \in Pids |-> Free]
  /\ nextBirth = 1

InUse(p) == proc[p].st # "free"
Live(p) == proc[p].st = "live"
Zombie(p) == proc[p].st = "zombie"

(* A process SIGKILL has been delivered to runs no more code of its own.   *)
Running(p) == Live(p) /\ "KILL" \notin proc[p].got

ChildrenOf(x) == {p \in Pids : InUse(p) /\ proc[p].ppid = x}
GroupOf(g) == {p \in Pids : InUse(p) /\ proc[p].pgid = g}

(* The kernel does not reuse a number that still names a process group.    *)
Available(p) == ~InUse(p) /\ GroupOf(p) = {}

-----------------------------------------------------------------------------
(* fork(2): q comes to life as a child of parent. *)
Spawn(q, parent, group, own) ==
  /\ nextBirth <= MaxBirth
  /\ Available(q)
  /\ proc' = [proc EXCEPT ![q] =
       [st |-> "live", ppid |-> parent, pgid |-> group, birth |-> nextBirth,
        ours |-> own, got |-> {}]]
  /\ nextBirth' = nextBirth + 1

(* wait(2): the parent collects the zombie z and frees its number. *)
Collect(z) ==
  /\ Zombie(z)
  /\ proc' = [proc EXCEPT ![z] = Free]
  /\ UNCHANGED nextBirth

(* exit(2): p becomes a zombie, or is gone at once if its parent is PID1;  *)
(* its children go to the nearest subreaper, which is SUP for a descendant *)
(* of the command.                                                         *)
Perish(p) ==
  LET heir == IF proc[p].ours THEN SUP ELSE PID1
      after(q) ==
        IF q = p
        THEN IF proc[p].ppid = PID1 THEN Free ELSE [proc[p] EXCEPT !.st = "zombie"]
        ELSE IF q \notin ChildrenOf(p) THEN proc[q]
        ELSE IF heir = PID1 /\ Zombie(q) THEN Free
        ELSE [proc[q] EXCEPT !.ppid = heir]
  IN  /\ Live(p)
      /\ proc' = [q \in Pids |-> after(q)]
      /\ UNCHANGED nextBirth

(* kill(2): every live process of the set is sent the signal. *)
Signalled(set, signum) ==
  [q \in Pids |->
     IF q \in set /\ Live(q) THEN [proc[q] EXCEPT !.got = @ \cup {signum}]
                             ELSE proc[q]]

(* setpgid(2): p leads the group of its own number. *)
Grouped(p) == [proc EXCEPT ![p] = [@ EXCEPT !.pgid = p]]

-----------------------------------------------------------------------------
(* What a descendant p of the command may do of its own accord. *)
Fork(p, q) == Spawn(q, p, proc[p].pgid, TRUE)

Setsid(p) ==
  /\ proc[p].pgid # p
  /\ proc' = Grouped(p)
  /\ UNCHANGED nextBirth

WaitChild(p, z) == proc[z].ppid = p /\ Collect(z)

(* An unrelated process appears under PID1 or under another unrelated one, *)
(* in its own or in its parent's group.                                    *)
OutsiderStart(q) ==
  /\ Outsiders
  /\ \/ Spawn(q, PID1, q, FALSE)
     \/ \E p \in Pids :
          /\ Running(p) /\ ~proc[p].ours
          /\ \E group \in {q, proc[p].pgid} : Spawn(q, p, group, FALSE)
=============================================================================
